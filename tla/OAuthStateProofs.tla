--------------------------- MODULE OAuthStateProofs --------------------------
(****************************************************************************)
(* Of OAuthState: the type invariant, AcceptedIsOwnFlow, AcceptedOnce and   *)
(* RejectedForCause, for any numbers of browsers, cards, providers, nonces  *)
(* and overlapping callbacks, any Lifetime and any MaxTime.                 *)
(*                                                                          *)
(* The argument: a cookie, and what a callback carries, tells the truth     *)
(* about the flow whose nonce it holds (OfFlow); it never holds a nonce     *)
(* that was answered as accepted; and an undisturbed flow still has its     *)
(* cookie.                                                                  *)
(****************************************************************************)
EXTENDS OAuthState, TLAPS

OfFlow(p, b) ==
    LET f == flow[p.nonce]
    IN  /\ p.nonce \in Arrived
        /\ f.browser = b
        /\ p.card = f.card /\ p.provider = f.provider
        /\ p.sealedTill = f.at + Lifetime

CookiesTellTheTruth ==
    \A b \in Browsers : cookie[b] # None =>
        OfFlow(cookie[b].payload, b) /\ cookie[b].payload.nonce \notin answered

VisitsTellTheTruth ==
    \A v \in Visits : visit[v].phase # "idle" =>
        /\ visit[v].state \in Arrived
        /\ visit[v].payload # None =>
              /\ OfFlow(visit[v].payload, visit[v].browser)
              /\ visit[v].again => visit[v].payload.nonce # visit[v].state

AcceptedHaveUsed ==
    \A v \in Visits : visit[v].phase = "accepted" =>
        /\ visit[v].drops
        /\ visit[v].payload # None
        /\ visit[v].payload.nonce = visit[v].state
        /\ ~visit[v].late

OnlyCodesDrop ==
    \A v \in Visits : visit[v].phase # "idle" => (visit[v].drops => visit[v].kind = "code")

AnsweredHaveArrived == answered \subseteq Arrived

UndisturbedHaveTheirCookie ==
    \A n \in Arrived : ~flow[n].disturbed =>
        LET p == cookie[flow[n].browser]
        IN  p # None /\ p.payload.nonce = n

SentHaveTheirCookie ==
    \A v \in Visits : visit[v].phase = "sent" =>
        LET f == flow[visit[v].state]
        IN  \/ f.browser # visit[v].browser
            \/ visit[v].over
            \/ f.disturbed
            \/ visit[v].payload # None /\ visit[v].payload.nonce = visit[v].state

IInv ==
    /\ TypeOK
    /\ CookiesTellTheTruth
    /\ VisitsTellTheTruth
    /\ AcceptedHaveUsed
    /\ OnlyCodesDrop
    /\ AnsweredHaveArrived
    /\ UndisturbedHaveTheirCookie
    /\ SentHaveTheirCookie
    /\ RejectedForCause

(* A flow keeps what it was started with, once started and arrived it      *)
(* stays so, and a disturbed one stays disturbed.                          *)
FlowsKept ==
    /\ Started \subseteq Started'
    /\ Arrived \subseteq Arrived'
    /\ \A n \in Started :
          /\ flow'[n].browser = flow[n].browser
          /\ flow'[n].card = flow[n].card
          /\ flow'[n].provider = flow[n].provider
          /\ flow'[n].at = flow[n].at
          /\ flow[n].disturbed => flow'[n].disturbed

(* Disturbing flows keeps each of them, and no arrived flow of browser b   *)
(* but n is undisturbed after it.                                          *)
LEMMA DisturbKeeps ==
    ASSUME TypeOK, NEW b \in Browsers, NEW n, NEW D, D = Disturb(b, n)
    PROVE  /\ D \in [Nonces -> Flow \cup {None}]
           /\ \A m \in Nonces :
                 /\ m \notin Started => D[m] = None
                 /\ m \in Started =>
                       /\ D[m] \in Flow
                       /\ D[m].browser = flow[m].browser
                       /\ D[m].card = flow[m].card
                       /\ D[m].provider = flow[m].provider
                       /\ D[m].at = flow[m].at
                       /\ D[m].arrived = flow[m].arrived
                       /\ flow[m].disturbed => D[m].disturbed
                       /\ m # n /\ flow[m].arrived /\ flow[m].browser = b
                             => D[m].disturbed
  <1>1. ASSUME NEW m \in Nonces, m \in Started
        PROVE  flow[m] \in Flow
    BY <1>1 DEF TypeOK, Started
  <1>2. QED
    BY <1>1 DEF TypeOK, Flow, Started, Arrived, Disturb

LEMMA VisitIs ==
    ASSUME TypeOK, NEW v \in Visits, visit[v].phase # "idle"
    PROVE  visit[v] \in Visit
  BY DEF TypeOK, Idle

LEMMA FlowIs ==
    ASSUME TypeOK, NEW n \in Started
    PROVE  n \in Nonces /\ flow[n] \in Flow
  BY DEF TypeOK, Started

LEMMA PayloadIs ==
    ASSUME TypeOK
    PROVE  /\ \A b \in Browsers : cookie[b] # None => /\ cookie[b] \in Cookie
                                                        /\ cookie[b].payload \in Payload
           /\ \A v \in Visits : visit[v].phase # "idle" /\ visit[v].payload # None
                                  => visit[v].payload \in Payload
  BY VisitIs DEF TypeOK, Visit, Cookie

(* What is true of a payload stays true when the flows are kept.            *)
LEMMA OfFlowKept ==
    ASSUME TypeOK, FlowsKept, NEW p, NEW b, OfFlow(p, b)
    PROVE  OfFlow(p, b)'
  BY DEF OfFlow, FlowsKept, Arrived

LEMMA InitOK == ASSUME Init PROVE IInv
  BY LifetimeIsNat DEF Init, IInv, TypeOK, CookiesTellTheTruth, VisitsTellTheTruth,
     AcceptedHaveUsed, OnlyCodesDrop, AnsweredHaveArrived, UndisturbedHaveTheirCookie,
     SentHaveTheirCookie, RejectedForCause, Idle, Started, Arrived

LEMMA StartOK ==
    ASSUME IInv, NEW b \in Browsers, NEW card \in Cards, NEW provider \in Providers,
           Start(b, card, provider)
    PROVE  IInv'
  <1> DEFINE new == [browser |-> b, card |-> card, provider |-> provider, at |-> now,
                     arrived |-> FALSE, disturbed |-> FALSE]
  <1>1. PICK n \in Nonces \ Started : flow' = [flow EXCEPT ![n] = new]
    BY DEF Start
  <1>2. /\ new \in Flow /\ new.at = now /\ ~new.arrived
        /\ UNCHANGED <<now, back, cards, cookie, visit, answered>>
    BY DEF IInv, TypeOK, Flow, Start
  <1> HIDE DEF new
  <1>3. /\ TypeOK'
        /\ \A m \in Nonces \ {n} : flow'[m] = flow[m]
        /\ flow'[n] = new
    BY <1>1, <1>2 DEF IInv, TypeOK
  <1>4. FlowsKept /\ Arrived' = Arrived
    BY <1>1, <1>2, <1>3 DEF FlowsKept, Started, Arrived
  <1>6. \A m \in Arrived : flow'[m] = flow[m]
    BY <1>1, <1>3 DEF Arrived, Started
  <1>7. CookiesTellTheTruth' /\ VisitsTellTheTruth'
    BY <1>2, <1>4, OfFlowKept DEF IInv, CookiesTellTheTruth, VisitsTellTheTruth
  <1>8. AcceptedHaveUsed' /\ OnlyCodesDrop' /\ AnsweredHaveArrived' /\ UndisturbedHaveTheirCookie'
    BY <1>2, <1>4, <1>6 DEF IInv, AcceptedHaveUsed, OnlyCodesDrop, AnsweredHaveArrived, UndisturbedHaveTheirCookie
  <1>9. SentHaveTheirCookie' /\ RejectedForCause'
    BY <1>2, <1>6 DEF IInv, SentHaveTheirCookie, RejectedForCause, VisitsTellTheTruth
  <1>10. QED
    BY <1>3, <1>7, <1>8, <1>9 DEF IInv

LEMMA StartArrivesOK ==
    ASSUME IInv, NEW n \in Nonces, StartArrives(n)
    PROVE  IInv'
  <1>b. PICK B : B = flow[n].browser
    OBVIOUS
  <1>p. PICK p : p = Sealed(n)
    OBVIOUS
  <1>d. PICK D : D = Disturb(B, n)
    OBVIOUS
  <1>1. n \in Started \ Arrived /\ flow[n] \in Flow /\ B \in Browsers
    BY <1>b, FlowIs DEF StartArrives, IInv, Flow
  <1>2. /\ p \in Payload /\ p # None
        /\ p.nonce = n /\ p.card = flow[n].card /\ p.provider = flow[n].provider
        /\ p.sealedTill = flow[n].at + Lifetime
    BY <1>1, <1>p, LifetimeIsNat, NoneIsNothing DEF Sealed, Payload, Flow, IInv, TypeOK
  <1>c. PICK c : c = [payload |-> p, keptTill |-> Elapsed + Lifetime]
    OBVIOUS
  <1>k. c \in Cookie /\ c # None /\ c.payload = p
    BY <1>2, <1>c, LifetimeIsNat, NoneIsNothing DEF Cookie, IInv, TypeOK, Elapsed
  <1>3. cookie' = [cookie EXCEPT ![B] = c] /\ flow' = [D EXCEPT ![n].arrived = TRUE]
    BY <1>b, <1>p, <1>c, <1>d DEF StartArrives
  <1>4. UNCHANGED <<now, back, cards, visit, answered>>
    BY DEF StartArrives
  <1>5. /\ D \in [Nonces -> Flow \cup {None}]
        /\ \A m \in Nonces \ Started : D[m] = None
        /\ \A m \in Started :
              /\ D[m] \in Flow
              /\ D[m].browser = flow[m].browser
              /\ D[m].card = flow[m].card
              /\ D[m].provider = flow[m].provider
              /\ D[m].at = flow[m].at
              /\ D[m].arrived = flow[m].arrived
              /\ flow[m].disturbed => D[m].disturbed
              /\ m # n /\ flow[m].arrived /\ flow[m].browser = B => D[m].disturbed
    BY <1>1, <1>d, DisturbKeeps DEF IInv, Started
  <1>6. [D[n] EXCEPT !.arrived = TRUE] \in Flow
    BY <1>1, <1>5 DEF Flow
  <1> DEFINE new == [D[n] EXCEPT !.arrived = TRUE]
  <1>7. /\ new.arrived /\ new.browser = B /\ new.card = flow[n].card /\ new.at = flow[n].at
        /\ new.provider = flow[n].provider /\ new.disturbed = D[n].disturbed
    BY <1>1, <1>b, <1>5 DEF Flow
  <1>8. flow' = [D EXCEPT ![n] = new]
    BY <1>3
  <1> HIDE DEF new
  <1>9. /\ \A m \in Nonces \ {n} : flow'[m] = D[m]
        /\ flow'[n] = new
        /\ new \in Flow
        /\ flow' \in [Nonces -> Flow \cup {None}]
    BY <1>5, <1>6, <1>8 DEF new
  <1>10. TypeOK'
    BY <1>1, <1>k, <1>3, <1>4, <1>9 DEF IInv, TypeOK
  <1>11. FlowsKept
    BY <1>1, <1>b, <1>5, <1>7, <1>9, NoneIsNothing DEF FlowsKept, Started, Arrived
  <1> USE <1>10, <1>11
  <1>12. Arrived' \subseteq Arrived \cup {n}
    BY <1>1, <1>5, <1>9 DEF Started, Arrived
  <1>14. n \in Arrived'
    BY <1>1, <1>7, <1>9, <1>11, FlowIs DEF Arrived, FlowsKept
  <1>15. OfFlow(p, B)'
    BY <1>2, <1>7, <1>9, <1>14 DEF OfFlow, Arrived
  <1>16. /\ cookie'[B] = c
         /\ \A b \in Browsers \ {B} : cookie'[b] = cookie[b]
    BY <1>1, <1>3 DEF IInv, TypeOK
  <1>17. CookiesTellTheTruth'
    BY <1>1, <1>2, <1>k, <1>4, <1>15, <1>16, OfFlowKept
    DEF IInv, CookiesTellTheTruth, AnsweredHaveArrived
  <1>18. VisitsTellTheTruth'
    BY <1>4, OfFlowKept DEF IInv, VisitsTellTheTruth, FlowsKept
  <1>19. AcceptedHaveUsed' /\ OnlyCodesDrop' /\ AnsweredHaveArrived'
    BY <1>4 DEF IInv, AcceptedHaveUsed, OnlyCodesDrop, AnsweredHaveArrived, FlowsKept
  <1>20. UndisturbedHaveTheirCookie'
    <2> SUFFICES ASSUME NEW m \in Arrived', ~flow'[m].disturbed
                 PROVE  LET q == cookie'[flow'[m].browser]
                        IN  q # None /\ q.payload.nonce = m
      BY DEF UndisturbedHaveTheirCookie
    <2>1. CASE m = n
      BY <2>1, <1>2, <1>k, <1>7, <1>9, <1>16
    <2>2. CASE m # n
      <3>1. m \in Arrived /\ m \in Started /\ m \in Nonces /\ flow[m].browser # B
        BY <2>2, <1>5, <1>9, <1>12 DEF Arrived, Started
      <3>2. flow'[m].browser = flow[m].browser /\ flow'[m].at = flow[m].at /\ ~flow[m].disturbed
            /\ flow[m].browser \in Browsers
        BY <3>1, FlowIs DEF FlowsKept, IInv, Flow
      <3>3. QED
        BY <3>1, <3>2, <1>16 DEF IInv, UndisturbedHaveTheirCookie
    <2>3. QED
      BY <2>1, <2>2
  <1>21. SentHaveTheirCookie' /\ RejectedForCause'
    BY <1>4 DEF IInv, SentHaveTheirCookie, RejectedForCause, VisitsTellTheTruth, FlowsKept, Arrived
  <1>22. QED
    BY <1>17, <1>18, <1>19, <1>20, <1>21 DEF IInv

LEMMA SendOK ==
    ASSUME IInv, NEW v \in Visits, NEW b \in Browsers, NEW kind \in Kind, NEW state \in Arrived,
           Send(v, b, kind, state)
    PROVE  IInv'
  <1> DEFINE p == CookieOf(b)
             new == [phase |-> "sent", browser |-> b, kind |-> kind, state |-> state,
                     payload |-> p, drops |-> FALSE, late |-> FALSE,
                     again |-> state \in answered,
                     over |-> Ended(b) /\ cookie[b].payload.nonce = state]
  <1>1. visit' = [visit EXCEPT ![v] = new] /\ UNCHANGED <<now, back, cards, flow, cookie, answered>>
    BY DEF Send
  <1>2. /\ p \in Payload \cup {None}
        /\ p # None => cookie[b] # None /\ p = cookie[b].payload
        /\ p = None => cookie[b] = None \/ Ended(b)
        /\ Ended(b) \in BOOLEAN
    BY PayloadIs, NoneIsNothing DEF CookieOf, Ended, IInv
  <1> HIDE DEF p
  <1>3. new \in Visit
    BY <1>2 DEF Visit, Phase, Arrived, Started
  <1>4. /\ new.phase = "sent" /\ new.browser = b /\ new.state = state /\ new.payload = p
        /\ ~new.drops
        /\ new.again <=> state \in answered
        /\ new.over <=> Ended(b) /\ cookie[b].payload.nonce = state
    OBVIOUS
  <1> HIDE DEF new
  <1>5. /\ TypeOK'
        /\ visit'[v] = new
        /\ \A w \in Visits \ {v} : visit'[w] = visit[w]
    BY <1>1, <1>3 DEF IInv, TypeOK
  <1>6. Arrived' = Arrived /\ FlowsKept
    BY <1>1 DEF Arrived, Started, FlowsKept
  <1>7. AnsweredHaveArrived' /\ UndisturbedHaveTheirCookie'
    BY <1>1, <1>6 DEF IInv, AnsweredHaveArrived, UndisturbedHaveTheirCookie
  <1>8. CookiesTellTheTruth'
    BY <1>1, <1>6, OfFlowKept DEF IInv, CookiesTellTheTruth
  <1>9. VisitsTellTheTruth'
    BY <1>2, <1>4, <1>5, <1>6, OfFlowKept DEF IInv, VisitsTellTheTruth, CookiesTellTheTruth
  <1>10. AcceptedHaveUsed' /\ OnlyCodesDrop' /\ RejectedForCause'
    BY <1>1, <1>4, <1>5 DEF IInv, AcceptedHaveUsed, OnlyCodesDrop, RejectedForCause
  <1>11. SentHaveTheirCookie'
    <2>1. \/ flow[state].browser # b \/ new.over \/ flow[state].disturbed
          \/ p # None /\ p.nonce = state
      BY <1>2, <1>4 DEF IInv, UndisturbedHaveTheirCookie
    <2>2. QED
      BY <2>1, <1>1, <1>4, <1>5 DEF IInv, SentHaveTheirCookie
  <1>12. QED
    BY <1>5, <1>7, <1>8, <1>9, <1>10, <1>11 DEF IInv

(* What Served leaves to each of its uses: that the payload is the one      *)
(* carried, and the two facts about acceptance and rejection.               *)
LEMMA ServedOK ==
    ASSUME IInv, NEW v \in Visits,
           NEW phase \in Phase \ {"idle", "sent"}, NEW drops \in BOOLEAN, NEW payload,
           Served(v, phase, drops, payload),
           payload \in {visit[v].payload, None},
           drops => visit[v].kind = "code",
           phase = "accepted" => /\ drops /\ payload # None /\ payload.nonce = visit[v].state
                                 /\ ~(now > flow[visit[v].state].at + Lifetime),
           phase = "invalid" => LET f == flow[visit[v].state]
                                IN  \/ f.browser # visit[v].browser
                                    \/ now > f.at + Lifetime \/ visit[v].over
                                    \/ f.disturbed
    PROVE  IInv'
  <1>l. PICK late \in BOOLEAN : late = (now > flow[visit[v].state].at + Lifetime)
    <2>1. flow[visit[v].state] \in Flow
      BY FlowIs DEF Served, IInv, VisitsTellTheTruth, Arrived
    <2>2. (now > flow[visit[v].state].at + Lifetime) \in BOOLEAN
      BY <2>1, LifetimeIsNat DEF IInv, TypeOK, Flow
    <2>3. QED
      BY <2>2
  <1> DEFINE new == [visit[v] EXCEPT !.phase = phase, !.drops = drops, !.payload = payload,
                                     !.late = late]
  <1>1. /\ visit' = [visit EXCEPT ![v] = new] /\ UNCHANGED <<now, back, cards, flow, cookie, answered>>
        /\ visit[v].phase = "sent"
    BY <1>l DEF Served
  <1>2. visit[v] \in Visit
    BY <1>1, VisitIs DEF IInv
  <1>3. /\ new \in Visit
        /\ new.phase = phase /\ new.drops = drops /\ new.payload = payload
        /\ new.late <=> now > flow[visit[v].state].at + Lifetime
        /\ new.browser = visit[v].browser /\ new.state = visit[v].state /\ new.again = visit[v].again
        /\ new.kind = visit[v].kind /\ new.over = visit[v].over
    <2>1. new \in Visit
      BY <1>2, VisitIs, PayloadIs DEF Visit, IInv
    <2>2. new.late = late
      BY <1>2 DEF Visit
    <2>3. QED
      BY <1>2, <1>l, <2>1, <2>2 DEF Visit
  <1> HIDE DEF new
  <1>4. /\ TypeOK'
        /\ visit'[v] = new
        /\ \A w \in Visits \ {v} : visit'[w] = visit[w]
    BY <1>1, <1>3 DEF IInv, TypeOK
  <1>5. Arrived' = Arrived /\ FlowsKept
    BY <1>1 DEF Arrived, Started, FlowsKept
  <1>6. AnsweredHaveArrived' /\ UndisturbedHaveTheirCookie'
    BY <1>1, <1>5 DEF IInv, AnsweredHaveArrived, UndisturbedHaveTheirCookie
  <1>7. CookiesTellTheTruth'
    BY <1>1, <1>5, OfFlowKept DEF IInv, CookiesTellTheTruth
  <1>8. VisitsTellTheTruth'
    BY <1>1, <1>3, <1>4, <1>5, OfFlowKept DEF IInv, VisitsTellTheTruth
  <1>9. AcceptedHaveUsed' /\ OnlyCodesDrop' /\ RejectedForCause' /\ SentHaveTheirCookie'
    BY <1>1, <1>3, <1>4 DEF IInv, AcceptedHaveUsed, OnlyCodesDrop, RejectedForCause, SentHaveTheirCookie
  <1>10. QED
    BY <1>4, <1>6, <1>7, <1>8, <1>9 DEF IInv

LEMMA NotUsedOK == ASSUME IInv, NEW v \in Visits, NotUsed(v) PROVE IInv'
  BY ServedOK DEF NotUsed, Phase

LEMMA InvalidOK == ASSUME IInv, NEW v \in Visits, Invalid(v) PROVE IInv'
  <1> DEFINE p == visit[v].payload
             f == flow[visit[v].state]
  <1>1. /\ visit[v].phase = "sent" /\ visit[v].kind = "code"
        /\ p # None => ~(Unsealed(p) /\ SameNonce(p, visit[v].state))
        /\ Served(v, "invalid", FALSE, None) \/ Served(v, "invalid", TRUE, None)
    BY DEF Invalid
  <1>2. visit[v].state \in Arrived /\ (p # None => OfFlow(p, visit[v].browser))
    BY <1>1 DEF IInv, VisitsTellTheTruth
  <1>3. f \in Flow /\ (p # None => p \in Payload)
    BY <1>1, <1>2, FlowIs, PayloadIs DEF Arrived, IInv
  <1>4. f.browser # visit[v].browser \/ now > f.at + Lifetime \/ visit[v].over \/ f.disturbed
    BY <1>1, <1>2, <1>3, LifetimeIsNat
    DEF IInv, SentHaveTheirCookie, OfFlow, Unsealed, SameNonce, TypeOK, Flow, Payload
  <1>5. QED
    BY <1>1, <1>4, ServedOK DEF Phase

LEMMA ConsumedOK == ASSUME IInv, NEW v \in Visits, Consumed(v) PROVE IInv'
  <1> DEFINE p == visit[v].payload
             f == flow[visit[v].state]
  <1>1. /\ visit[v].phase = "sent" /\ visit[v].kind = "code"
        /\ p # None /\ now <= p.sealedTill /\ p.nonce = visit[v].state
        /\ Served(v, "noCard", TRUE, p) \/ Served(v, "accepted", TRUE, p)
    BY DEF Consumed, Unsealed, SameNonce
  <1>2. p.sealedTill = f.at + Lifetime /\ f \in Flow
    BY <1>1, FlowIs DEF IInv, VisitsTellTheTruth, OfFlow, Arrived
  <1>3. ~(now > f.at + Lifetime)
    BY <1>1, <1>2, LifetimeIsNat DEF IInv, TypeOK, Flow
  <1>4. QED
    BY <1>1, <1>3, ServedOK DEF Phase

LEMMA AnswerIsLostOK == ASSUME IInv, NEW v \in Visits, AnswerIsLost(v) PROVE IInv'
  <1>1. /\ visit' = [visit EXCEPT ![v] = Idle] /\ UNCHANGED <<now, back, cards, flow, cookie, answered>>
    BY DEF AnswerIsLost
  <1>2. /\ TypeOK'
        /\ visit'[v].phase = "idle"
        /\ \A w \in Visits \ {v} : visit'[w] = visit[w]
    BY <1>1 DEF IInv, TypeOK, Idle
  <1>3. Arrived' = Arrived /\ FlowsKept
    BY <1>1 DEF Arrived, Started, FlowsKept
  <1>4. AnsweredHaveArrived' /\ UndisturbedHaveTheirCookie'
    BY <1>1, <1>3 DEF IInv, AnsweredHaveArrived, UndisturbedHaveTheirCookie
  <1>5. CookiesTellTheTruth' /\ VisitsTellTheTruth'
    BY <1>1, <1>2, <1>3, OfFlowKept DEF IInv, CookiesTellTheTruth, VisitsTellTheTruth
  <1>6. AcceptedHaveUsed' /\ OnlyCodesDrop' /\ RejectedForCause' /\ SentHaveTheirCookie'
    BY <1>1, <1>2 DEF IInv, AcceptedHaveUsed, OnlyCodesDrop, RejectedForCause, SentHaveTheirCookie
  <1>7. QED
    BY <1>2, <1>4, <1>5, <1>6 DEF IInv

LEMMA AnswerArrivesOK == ASSUME IInv, NEW v \in Visits, AnswerArrives(v) PROVE IInv'
  <1> DEFINE B == visit[v].browser
             D == Disturb(B, None)
  <1>1. /\ visit[v].phase \notin {"idle", "sent"}
        /\ visit[v] \in Visit /\ B \in Browsers /\ visit[v].state \in Arrived
    BY VisitIs DEF AnswerArrives, IInv, Visit, VisitsTellTheTruth
  <1>2. /\ visit' = [visit EXCEPT ![v] = Idle]
        /\ UNCHANGED <<now, back, cards>>
        /\ answered' = IF visit[v].phase = "accepted" THEN answered \cup {visit[v].state} ELSE answered
    BY DEF AnswerArrives
  <1>3. /\ visit[v].drops => /\ cookie' = [cookie EXCEPT ![B] = None]
                             /\ flow' = IF visit[v].kind = "code" THEN D ELSE flow
        /\ ~visit[v].drops => UNCHANGED <<cookie, flow>>
    BY DEF AnswerArrives, Dropped
  <1>4. /\ cookie' \in [Browsers -> Cookie \cup {None}]
        /\ \A b \in Browsers : cookie'[b] = cookie[b] \/ (cookie'[b] = None /\ b = B /\ visit[v].drops)
        /\ visit[v].drops => cookie'[B] = None
    BY <1>1, <1>3 DEF IInv, TypeOK, Visit
  <1>5. /\ flow' \in [Nonces -> Flow \cup {None}]
        /\ FlowsKept
        /\ Arrived' = Arrived
    <2>1. CASE flow' = D
      BY <2>1, <1>1, DisturbKeeps, NoneIsNothing DEF IInv, FlowsKept, Started, Arrived
    <2>2. CASE flow' = flow
      BY <2>2 DEF IInv, TypeOK, FlowsKept, Started, Arrived
    <2>3. QED
      BY <2>1, <2>2, <1>1, <1>3 DEF Visit
  <1>6. /\ TypeOK'
        /\ visit'[v].phase = "idle"
        /\ \A w \in Visits \ {v} : visit'[w] = visit[w]
    BY <1>1, <1>2, <1>4, <1>5 DEF IInv, TypeOK, Idle, Arrived, Started
  <1>8. AnsweredHaveArrived'
    BY <1>1, <1>2, <1>5 DEF IInv, AnsweredHaveArrived
  <1>9. CookiesTellTheTruth'
    <2> SUFFICES ASSUME NEW b \in Browsers, cookie'[b] # None
                 PROVE  OfFlow(cookie[b].payload, b)' /\ cookie'[b].payload.nonce \notin answered'
      BY DEF CookiesTellTheTruth
    <2>q. PICK q : q = cookie[b].payload
      OBVIOUS
    <2>1. cookie'[b] = cookie[b] /\ OfFlow(q, b) /\ q.nonce \notin answered
      BY <2>q, <1>4 DEF IInv, CookiesTellTheTruth
    <2>2. OfFlow(q, b)'
      BY <2>1, <1>5, OfFlowKept DEF IInv
    <2>3. OfFlow(cookie[b].payload, b)'
      BY <2>q, <2>1, <2>2
    <2>4. visit[v].phase = "accepted" => q.nonce # visit[v].state
      BY <2>1, <2>q, <1>1, <1>4 DEF IInv, VisitsTellTheTruth, AcceptedHaveUsed, OfFlow
    <2>5. QED
      BY <2>q, <2>1, <2>3, <2>4, <1>2
  <1>10. VisitsTellTheTruth'
    BY <1>5, <1>6, OfFlowKept DEF IInv, VisitsTellTheTruth
  <1>11. AcceptedHaveUsed' /\ OnlyCodesDrop'
    BY <1>6 DEF IInv, AcceptedHaveUsed, OnlyCodesDrop
  <1>12. UndisturbedHaveTheirCookie'
    <2> SUFFICES ASSUME NEW m \in Arrived', ~flow'[m].disturbed
                 PROVE  LET q == cookie'[flow'[m].browser]
                        IN  q # None /\ q.payload.nonce = m
      BY DEF UndisturbedHaveTheirCookie
    <2>1. /\ m \in Started /\ m \in Nonces /\ m # None /\ flow[m].browser \in Browsers
          /\ flow'[m].browser = flow[m].browser /\ flow'[m].at = flow[m].at /\ ~flow[m].disturbed
      BY <1>5, FlowIs, NoneIsNothing DEF IInv, Arrived, FlowsKept, Flow
    <2>2. visit[v].drops => flow[m].browser # B
      BY <2>1, <1>1, <1>3, <1>5, DisturbKeeps DEF IInv, OnlyCodesDrop, Arrived
    <2>3. cookie'[flow[m].browser] = cookie[flow[m].browser]
      BY <2>1, <2>2, <1>4
    <2>4. QED
      BY <2>1, <2>3, <1>5 DEF IInv, UndisturbedHaveTheirCookie
  <1>13. SentHaveTheirCookie' /\ RejectedForCause'
    BY <1>2, <1>5, <1>6 DEF IInv, SentHaveTheirCookie, RejectedForCause, VisitsTellTheTruth, FlowsKept, Arrived
  <1>14. QED
    BY <1>6, <1>8, <1>9, <1>10, <1>11, <1>12, <1>13 DEF IInv

LEMMA CardDeletedOK == ASSUME IInv, NEW card \in Cards, CardDeleted(card) PROVE IInv'
  <1>1. UNCHANGED <<now, back, flow, cookie, visit, answered>> /\ cards' \subseteq Cards
    BY DEF CardDeleted, IInv, TypeOK
  <1>2. QED
    BY <1>1
    DEF IInv, TypeOK, CookiesTellTheTruth, VisitsTellTheTruth, AcceptedHaveUsed,
        OnlyCodesDrop, AnsweredHaveArrived, UndisturbedHaveTheirCookie, SentHaveTheirCookie,
        RejectedForCause, OfFlow, Started, Arrived

LEMMA ClockOK ==
    ASSUME IInv, Tick \/ \E t \in 0 .. now : SetBack(t)
    PROVE  IInv'
  <1>1. /\ UNCHANGED <<cards, flow, cookie, visit, answered>>
        /\ now' \in Nat /\ back' \in Nat
    BY DEF Tick, SetBack, IInv, TypeOK
  <1>2. QED
    BY <1>1
    DEF IInv, TypeOK, CookiesTellTheTruth, VisitsTellTheTruth, AcceptedHaveUsed,
        OnlyCodesDrop, AnsweredHaveArrived, UndisturbedHaveTheirCookie, SentHaveTheirCookie,
        RejectedForCause, OfFlow, Started, Arrived

(* IInv is inductive.                                                      *)
THEOREM Invariance == Spec => []IInv
  <1>1. Init => IInv
    BY InitOK
  <1>2. IInv /\ [Next]_vars => IInv'
    <2> SUFFICES ASSUME IInv, [Next]_vars PROVE IInv'
      OBVIOUS
    <2>1. ASSUME NEW b \in Browsers, NEW card \in Cards, NEW provider \in Providers,
                 Start(b, card, provider)
          PROVE  IInv'
      BY <2>1, StartOK
    <2>2. ASSUME NEW n \in Nonces, StartArrives(n) PROVE IInv'
      BY <2>2, StartArrivesOK
    <2>3. ASSUME NEW v \in Visits, VisitStep(v) PROVE IInv'
      BY <2>3, SendOK, NotUsedOK, InvalidOK, ConsumedOK, AnswerArrivesOK, AnswerIsLostOK DEF VisitStep
    <2>4. ASSUME NEW card \in Cards, CardDeleted(card) PROVE IInv'
      BY <2>4, CardDeletedOK
    <2>5. CASE Tick \/ \E t \in 0 .. now : SetBack(t)
      BY <2>5, ClockOK
    <2>6. CASE UNCHANGED vars
      BY <2>6
      DEF vars, IInv, TypeOK, CookiesTellTheTruth, VisitsTellTheTruth,
          AcceptedHaveUsed, OnlyCodesDrop, AnsweredHaveArrived, UndisturbedHaveTheirCookie,
          SentHaveTheirCookie, RejectedForCause, OfFlow, Started, Arrived
    <2>7. QED
      BY <2>1, <2>2, <2>3, <2>4, <2>5, <2>6 DEF Next
  <1>3. QED
    BY <1>1, <1>2, PTL DEF Spec

(* Every variable keeps its type.                                          *)
THEOREM TypeCorrect == Spec => []TypeOK
  <1>1. IInv => TypeOK
    BY DEF IInv
  <1>2. QED
    BY <1>1, Invariance, PTL

(* A callback is accepted for what its own start asked, in the browser that *)
(* made it, in time (Consume and Issue of CookieOAuthStateStore).          *)
THEOREM OwnFlow == Spec => []AcceptedIsOwnFlow
  <1>1. IInv => AcceptedIsOwnFlow
    <2> SUFFICES ASSUME IInv, NEW v \in Visits, visit[v].phase = "accepted"
                 PROVE  LET f == flow[visit[v].state]
                        IN  /\ f # None
                            /\ f.browser = visit[v].browser
                            /\ <<visit[v].payload.card, visit[v].payload.provider>> = <<f.card, f.provider>>
                            /\ ~visit[v].late
      BY DEF AcceptedIsOwnFlow
    <2>1. OfFlow(visit[v].payload, visit[v].browser) /\ visit[v].payload.nonce = visit[v].state
      BY DEF IInv, VisitsTellTheTruth, AcceptedHaveUsed
    <2>2. QED
      BY <2>1 DEF IInv, AcceptedHaveUsed, OfFlow, Arrived, Started
  <1>2. QED
    BY <1>1, Invariance, PTL

(* A state whose acceptance a browser was told of is accepted in no later  *)
(* callback, although the server remembers nothing.                        *)
THEOREM Once == Spec => []AcceptedOnce
  <1>1. IInv => AcceptedOnce
    BY DEF IInv, VisitsTellTheTruth, AcceptedHaveUsed, AcceptedOnce
  <1>2. QED
    BY <1>1, Invariance, PTL

(* A callback with a code is turned away only for a reason.                *)
THEOREM Cause == Spec => []RejectedForCause
  <1>1. IInv => RejectedForCause
    BY DEF IInv
  <1>2. QED
    BY <1>1, Invariance, PTL
=============================================================================
