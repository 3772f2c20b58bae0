----------------------------- MODULE OAuthState ------------------------------
(****************************************************************************)
(* An authorization from its start to its callback: Start seals provider,   *)
(* card and a nonce into the one cookie "oauth_state" of the browser and    *)
(* sends the nonce to the provider as the state; the callback brings both   *)
(* back.  The server keeps nothing.                                         *)
(*                                                                          *)
(* Requests of one browser overlap (tabs, reloads), and what an answer sets *)
(* or deletes takes effect when the browser receives it, if it ever does.   *)
(* A callback may carry any state that ever left the server, in whatever    *)
(* browser: the address can be opened again, or elsewhere.                  *)
(*                                                                          *)
(* An accepted callback goes on with the provider and card it was given:    *)
(* that part is the Callback of BuyerLifecycle and BuyerRequests.           *)
(****************************************************************************)
EXTENDS Integers

CONSTANTS
    Browsers,
    Cards,
    Providers,
    Nonces,     \* what RandomNumberGenerator may draw: never twice the same
    Visits,     \* callback requests that may be under way at a time
    Lifetime,   \* of the cookie and of the seal
    MaxTime,    \* bound of the clock
    MaxBack,    \* bound of what the clock is set back in all
    None

ASSUME LifetimeIsNat == Lifetime \in Nat

VARIABLES
    now,        \* the server's clock
    back,       \* what it was set back so far (history)
    cards,      \* cards of the table Buyers that are not deleted
    flow,       \* the authorizations started, by nonce, or None
    cookie,     \* oauth_state in each browser, or None
    visit,      \* the callbacks
    answered    \* states whose acceptance a browser has been told (history)

vars == <<now, back, cards, flow, cookie, visit, answered>>

(* The time that has elapsed, by which a browser counts a cookie's MaxAge. *)
Elapsed == now + back

(* What Issue knew, whether its answer has arrived, and whether anything   *)
(* has happened in that browser since that may cost the flow its cookie:   *)
(* another start, or a callback with a code and a cookie.                  *)
Flow == [browser : Browsers, card : Cards, provider : Providers, at : Nat,
         arrived : BOOLEAN, disturbed : BOOLEAN]

(* StatePayload and the end of the seal.                                   *)
Payload == [provider : Providers, card : Cards, nonce : Nonces, sealedTill : Nat]

(* What the browser keeps of it: the end of the cookie is not sent back.   *)
Cookie == [payload : Payload, keptTill : Nat]

ASSUME NoneIsNothing == None \notin Nonces \cup Payload \cup Cookie \cup Flow

(* With a code and a state, or not: the provider's error, or a blank one.   *)
Kind == {"code", "noCode"}

Phase == { "idle",
           "sent",
           "notUsed",   \* Consume was not called
           "invalid",   \* Consume returned null
           "noCard",    \* the card is not there any more
           "accepted" }

Visit == [phase : Phase, browser : Browsers, kind : Kind, state : Nonces,
          payload : Payload \cup {None},   \* of the cookie it carries, then of what Consume returned
          drops : BOOLEAN,                 \* its answer deletes the cookie
          late : BOOLEAN,                  \* served later than Lifetime after its start (history)
          again : BOOLEAN,                 \* sent after its state was answered as accepted (history)
          over : BOOLEAN]                 \* sent when the cookie of its state had ended (history)

Idle == [phase |-> "idle"]

TypeOK ==
    /\ now \in Nat /\ back \in Nat
    /\ cards \subseteq Cards
    /\ flow \in [Nonces -> Flow \cup {None}]
    /\ cookie \in [Browsers -> Cookie \cup {None}]
    /\ visit \in [Visits -> Visit \cup {Idle}]
    /\ answered \subseteq Nonces

Init ==
    /\ now = 0 /\ back = 0
    /\ cards = Cards
    /\ flow = [n \in Nonces |-> None]
    /\ cookie = [b \in Browsers |-> None]
    /\ visit = [v \in Visits |-> Idle]
    /\ answered = {}

Started == {n \in Nonces : flow[n] # None}

Arrived == {n \in Started : flow[n].arrived}

(* All flows that have arrived in browser b but n are disturbed.           *)
Disturb(b, n) ==
    [m \in Nonces |-> IF m \in Arrived \ {n} /\ flow[m].browser = b
                      THEN [flow[m] EXCEPT !.disturbed = TRUE] ELSE flow[m]]

(******************************** Start ***********************************)
(* A blank or unknown card is refused before Issue: nothing happens.       *)
Start(b, card, provider) ==
    /\ card \in cards
    /\ \E n \in Nonces \ Started :
           flow' = [flow EXCEPT ![n] =
                       [browser |-> b, card |-> card, provider |-> provider, at |-> now,
                        arrived |-> FALSE, disturbed |-> FALSE]]
    /\ UNCHANGED <<now, back, cards, cookie, visit, answered>>

(* Mutant of Sealed: the nonce is sent to the provider but not sealed.     *)
SealedWithoutNonce(n) ==
    [provider |-> flow[n].provider, card |-> flow[n].card, nonce |-> None,
     sealedTill |-> flow[n].at + Lifetime]

Sealed(n) == [provider |-> flow[n].provider, card |-> flow[n].card, nonce |-> n,
              sealedTill |-> flow[n].at + Lifetime]

(* The redirect reaches the browser, with the cookie.                      *)
StartArrives(n) ==
    /\ n \in Started \ Arrived
    /\ cookie' = [cookie EXCEPT ![flow[n].browser] =
                    [payload |-> Sealed(n), keptTill |-> Elapsed + Lifetime]]
    /\ flow' = [Disturb(flow[n].browser, n) EXCEPT ![n].arrived = TRUE]
    /\ UNCHANGED <<now, back, cards, visit, answered>>

(******************************* Callback *********************************)
(* A browser sends a cookie until its MaxAge is over.                      *)
Ended(b) == cookie[b] # None /\ Elapsed > cookie[b].keptTill

CookieOf(b) == IF cookie[b] = None \/ Ended(b) THEN None ELSE cookie[b].payload

Send(v, b, kind, state) ==
    /\ visit[v].phase = "idle"
    /\ visit' = [visit EXCEPT ![v] =
                    [phase |-> "sent", browser |-> b, kind |-> kind, state |-> state,
                     payload |-> CookieOf(b), drops |-> FALSE, late |-> FALSE,
                     again |-> state \in answered,
                     over |-> Ended(b) /\ cookie[b].payload.nonce = state]]
    /\ UNCHANGED <<now, back, cards, flow, cookie, answered>>

Served(v, phase, drops, payload) ==
    /\ visit[v].phase = "sent"
    /\ visit' = [visit EXCEPT ![v] =
                    [visit[v] EXCEPT !.phase = phase, !.drops = drops, !.payload = payload,
                                     !.late = now > flow[visit[v].state].at + Lifetime]]
    /\ UNCHANGED <<now, back, cards, flow, cookie, answered>>

(* Mutant of NotUsed: the state is consumed before the provider's error is *)
(* looked at.                                                              *)
NotUsedButDropped(v) ==
    /\ visit[v].phase = "sent" /\ visit[v].kind = "noCode"
    /\ Served(v, "notUsed", visit[v].payload # None, None)

(* The first two early returns of the handler: the cookie stays.           *)
NotUsed(v) ==
    /\ visit[v].phase = "sent" /\ visit[v].kind = "noCode"
    /\ Served(v, "notUsed", FALSE, None)

Unsealed(p) == now <= p.sealedTill

(* Mutant of SameNonce: the seal alone is trusted.                         *)
SameNonceUnread(p, state) == TRUE

(* FixedTimeEquals                                                         *)
SameNonce(p, state) == p.nonce = state

(* Consume: null without a cookie; with one, the cookie is deleted, and    *)
(* null is returned for a broken seal or another nonce.                    *)
Invalid(v) ==
    /\ visit[v].phase = "sent" /\ visit[v].kind = "code"
    /\ LET p == visit[v].payload
       IN  \/ p = None /\ Served(v, "invalid", FALSE, None)
           \/ /\ p # None
              /\ ~(Unsealed(p) /\ SameNonce(p, visit[v].state))
              /\ Served(v, "invalid", TRUE, None)

Consumed(v) ==
    /\ visit[v].phase = "sent" /\ visit[v].kind = "code"
    /\ LET p == visit[v].payload
       IN  /\ p # None /\ Unsealed(p) /\ SameNonce(p, visit[v].state)
           /\ \/ p.card \notin cards /\ Served(v, "noCard", TRUE, p)
              \/ p.card \in cards /\ Served(v, "accepted", TRUE, p)

(* Mutant of Dropped: the cookie is deleted under another path than the    *)
(* one it was set with.                                                    *)
DroppedElsewhere(b) == cookie

Dropped(b) == [cookie EXCEPT ![b] = None]

(* The answer reaches the browser.  A deleted cookie is deleted by name,   *)
(* whatever it holds by now.                                               *)
AnswerArrives(v) ==
    /\ visit[v].phase \notin {"idle", "sent"}
    /\ IF visit[v].drops
       THEN /\ cookie' = Dropped(visit[v].browser)
            /\ flow' = IF visit[v].kind = "code" THEN Disturb(visit[v].browser, None) ELSE flow
       ELSE UNCHANGED <<cookie, flow>>
    /\ answered' = IF visit[v].phase = "accepted" THEN answered \cup {visit[v].state} ELSE answered
    /\ visit' = [visit EXCEPT ![v] = Idle]
    /\ UNCHANGED <<now, back, cards>>

(* The tab was closed, or the connection broke.                            *)
AnswerIsLost(v) ==
    /\ visit[v].phase \notin {"idle", "sent"}
    /\ visit' = [visit EXCEPT ![v] = Idle]
    /\ UNCHANGED <<now, back, cards, flow, cookie, answered>>

(***************************** Surroundings *******************************)
CardDeleted(card) ==
    /\ card \in cards
    /\ cards' = cards \ {card}
    /\ UNCHANGED <<now, back, flow, cookie, visit, answered>>

Tick ==
    /\ now < MaxTime
    /\ now' = now + 1
    /\ UNCHANGED <<back, cards, flow, cookie, visit, answered>>

SetBack(t) ==
    /\ t < now /\ back + (now - t) <= MaxBack
    /\ now' = t
    /\ back' = back + (now - t)
    /\ UNCHANGED <<cards, flow, cookie, visit, answered>>

VisitStep(v) ==
    \/ \E b \in Browsers, kind \in Kind, state \in Arrived : Send(v, b, kind, state)
    \/ NotUsed(v) \/ Invalid(v) \/ Consumed(v)
    \/ AnswerArrives(v) \/ AnswerIsLost(v)

Next ==
    \/ \E b \in Browsers, card \in Cards, provider \in Providers : Start(b, card, provider)
    \/ \E n \in Nonces : StartArrives(n)
    \/ \E v \in Visits : VisitStep(v)
    \/ \E card \in Cards : CardDeleted(card)
    \/ Tick
    \/ \E t \in 0 .. now : SetBack(t)

Spec == Init /\ [][Next]_vars

(**************************** What must hold ******************************)
(* A callback is accepted for the card and provider of the start whose     *)
(* state it brings, made in the same browser no longer than Lifetime ago   *)
(* by the server's clock, whatever other starts and callbacks overlapped   *)
(* with it.                                                                *)
AcceptedIsOwnFlow ==
    \A v \in Visits : visit[v].phase = "accepted" =>
        LET f == flow[visit[v].state]
        IN  /\ f # None
            /\ f.browser = visit[v].browser
            /\ <<visit[v].payload.card, visit[v].payload.provider>> = <<f.card, f.provider>>
            /\ ~visit[v].late

(* Once a browser was told that a state was accepted, no callback sent     *)
(* later is accepted for it.  (Two that overlap may be: the cookie goes    *)
(* with the answer.)                                                       *)
AcceptedOnce ==
    \A v \in Visits : visit[v].phase = "accepted" => ~visit[v].again

(* A callback with a code is turned away only for a reason the buyer could *)
(* know: it comes in another browser than the start, too late by the       *)
(* server's clock or by the cookie's age, or after another start, or       *)
(* another callback with a code, was answered there since the flow's own   *)
(* start was.  In particular the provider's refusal does not use it up.    *)
RejectedForCause ==
    \A v \in Visits : visit[v].phase = "invalid" =>
        LET f == flow[visit[v].state]
        IN  \/ f.browser # visit[v].browser
            \/ visit[v].late \/ visit[v].over
            \/ f.disturbed
=============================================================================
