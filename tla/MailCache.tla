------------------------------ MODULE MailCache ------------------------------
(****************************************************************************)
(* MailCacheService: the messages of one buyer, kept in memory between the  *)
(* polls of the pages that show them.  Entries of different buyers never    *)
(* meet (the dictionary is keyed by the buyer), so one is enough.           *)
(*                                                                          *)
(* A poll takes the time once, when it begins, and judges and stamps        *)
(* everything with it, however long it then waits for the provider.  The    *)
(* machine may set its clock back meanwhile.  The dictionary makes single   *)
(* calls atomic (TryGetValue, TryRemove, TryUpdate, the indexer) and        *)
(* nothing more: between two of them any other poll may run, and the        *)
(* mailbox may change.  A poll refused by the provider also marks the buyer *)
(* Abnormal: here that succeeds or throws, BuyerRequests has what it does.  *)
(****************************************************************************)
EXTENDS Integers

CONSTANTS
    Polls,      \* calls of GetOrFetchAsync that may overlap
    Mailboxes,
    Ttl,        \* MailSync:CacheTtlSeconds
    MaxAge,     \* MailSync:CacheMaxAgeSeconds
    MaxTime,    \* bound of the clock
    MaxBack,    \* bound of what the clock is set back in all
    None

ASSUME AgesAreIntegers == Ttl \in Int /\ MaxAge \in Int

ASSUME NoneIsNoMailbox == None \notin Mailboxes

VARIABLES
    now,        \* the clock
    back,       \* what it was set back so far (history)
    account,    \* the mailbox of the buyer's EmailAccounts row, or None
    leftAt,     \* when the buyer last gave up each mailbox (history)
    cache,      \* the buyer's entry in _cache, or None
    poll        \* what each call is doing, or was answered

vars == <<now, back, account, leftAt, cache, poll>>

(* The time that has elapsed: what a clock would show that is never set    *)
(* back.  Instants in messages, leftAt and began are of this one.          *)
Elapsed == now + back

(* A list of messages: whose it is, the instant at which the account row   *)
(* was read to fetch it (the provider's list is younger), and whether it   *)
(* is empty.                                                               *)
Messages == [mailbox : Mailboxes, asOf : Nat, empty : BOOLEAN]

CacheEntry == [messages : Messages, fetchedAt : Nat, lastAccessedAt : Nat]

Answered == { "answered",    \* Stale: false, Error: null
              "degraded",    \* Stale: true
              "unbound",     \* no account
              "error",       \* the fetch failed and there is no last result
              "exception" }  \* goes to the caller

Phase == Answered \cup
         { "idle",
           "lookup",         \* has taken the time
           "remove",         \* found an expired entry
           "hit",            \* found a fresh entry
           "account",        \* about to read the account
           "provider",       \* awaits FetchMessagesAsync
           "store",          \* has new messages
           "failed",         \* the fetch threw: about to look for a last result
           "degrading" }     \* found one

Idle == [phase |-> "idle", force |-> FALSE, start |-> 0, began |-> 0,
         entry |-> None, intact |-> FALSE, messages |-> None]

Init ==
    /\ now = 0 /\ back = 0
    /\ account \in Mailboxes
    /\ leftAt = [m \in Mailboxes |-> 0]
    /\ cache = None
    /\ poll = [p \in Polls |-> Idle]

Goes(p, from, r) == poll[p].phase = from /\ poll' = [poll EXCEPT ![p] = r]

----------------------------------------------------------------------------
(* GetOrFetchAsync *)

Begin(p, force) ==
    /\ poll[p].phase \in {"idle"} \cup Answered
    /\ poll' = [poll EXCEPT ![p] = [Idle EXCEPT !.phase = "lookup",
                                                !.force = force, !.start = now,
                                                !.began = Elapsed]]
    /\ UNCHANGED cache

Expired(p) == cache # None /\ poll[p].start - cache.lastAccessedAt >= MaxAge

Fresh(p) == /\ cache # None
            /\ ~poll[p].force
            /\ poll[p].start - cache.fetchedAt < Ttl

(* An entry is a record that refers to its list of messages; "intact" says *)
(* that the list found is still the one in the cache.                      *)
Found(p, phase) == [poll[p] EXCEPT !.phase = phase, !.entry = cache, !.intact = TRUE]

Lookup(p) ==
    /\ \/ Expired(p) /\ Goes(p, "lookup", [poll[p] EXCEPT !.phase = "remove"])
       \/ ~Expired(p) /\ Fresh(p) /\ Goes(p, "lookup", Found(p, "hit"))
       \/ ~Expired(p) /\ ~Fresh(p) /\ Goes(p, "lookup", [poll[p] EXCEPT !.phase = "account"])
    /\ UNCHANGED cache

(* TryRemove takes out whatever is there by now. *)
RemoveExpired(p) ==
    /\ Goes(p, "remove", [poll[p] EXCEPT !.phase = "account"])
    /\ cache' = None

(* Mutant of Touched: the entry found is written back unconditionally. *)
TouchedAlways(p) == [poll[p].entry EXCEPT !.lastAccessedAt = poll[p].start]

(* TryUpdate compares the whole entry with the one found, the list by      *)
(* reference.                                                              *)
Touched(p) ==
    IF poll[p].intact /\ cache # None /\ cache = poll[p].entry
    THEN [cache EXCEPT !.lastAccessedAt = poll[p].start] ELSE cache

Answer(p, phase, messages) ==
    [poll[p] EXCEPT !.phase = phase, !.start = 0, !.entry = None, !.intact = FALSE,
                    !.messages = messages]

NoMessages(phase) == [Idle EXCEPT !.phase = phase]

AnswerFromCache(p) ==
    /\ Goes(p, "hit", Answer(p, "answered", poll[p].entry.messages))
    /\ cache' = Touched(p)

(* Mutant of ReadAccount: a missing account is not noticed. *)
ReadAccountUnchecked(p) ==
    /\ Goes(p, "account",
           [poll[p] EXCEPT !.phase = "provider",
               !.messages = [mailbox |-> account, asOf |-> Elapsed, empty |-> FALSE]])
    /\ UNCHANGED cache

(* FetchAsync, its read of the account. *)
ReadAccount(p) ==
    /\ \/ account = None /\ Goes(p, "account", NoMessages("unbound"))
       \/ /\ account # None
          /\ Goes(p, "account",
                 [poll[p] EXCEPT !.phase = "provider",
                     !.messages = [mailbox |-> account, asOf |-> Elapsed, empty |-> FALSE]])
    /\ UNCHANGED cache

(* The provider answers with the messages in the mailbox. *)
Fetched(p) ==
    /\ \E empty \in BOOLEAN :
           Goes(p, "provider", [poll[p] EXCEPT !.phase = "store", !.messages.empty = empty])
    /\ UNCHANGED cache

(* The provider fails or refuses, or what FetchAsync does before asking it *)
(* fails; a refused poll has marked the buyer.                             *)
FetchFails(p) ==
    /\ \E from \in {"account", "provider"} :
           Goes(p, from, [poll[p] EXCEPT !.phase = "failed", !.messages = None])
    /\ UNCHANGED cache

(* MarkBuyerAbnormalAsync is called in a catch: what it throws, no other   *)
(* catch of the method takes.                                              *)
MarkThrows(p) ==
    /\ Goes(p, "provider", NoMessages("exception"))
    /\ UNCHANGED cache

(* The HttpClient times out: a TaskCanceledException is an                 *)
(* OperationCanceledException, which is thrown on.                         *)
FetchTimesOut(p) ==
    /\ Goes(p, "provider", NoMessages("exception"))
    /\ UNCHANGED cache

(* Mutant of NewEntry: stamped with the time of the write. *)
NewEntryNow(p) == [messages |-> poll[p].messages, fetchedAt |-> now, lastAccessedAt |-> now]

NewEntry(p) ==
    [messages |-> poll[p].messages,
     fetchedAt |-> poll[p].start, lastAccessedAt |-> poll[p].start]

(* The write is unconditional, and its list is no other poll's. *)
Store(p) ==
    /\ poll[p].phase = "store"
    /\ cache' = NewEntry(p)
    /\ poll' = [q \in Polls |->
                   IF q = p THEN Answer(p, "answered", poll[p].messages)
                   ELSE [poll[q] EXCEPT !.intact = FALSE]]

Degraded(p) ==
    LET hasLast == cache # None /\ ~cache.messages.empty
    IN  /\ \/ hasLast /\ Goes(p, "failed", Found(p, "degrading"))
           \/ ~hasLast /\ Goes(p, "failed", NoMessages("error"))
        /\ UNCHANGED cache

AnswerLastResult(p) ==
    /\ Goes(p, "degrading", Answer(p, "degraded", poll[p].entry.messages))
    /\ cache' = Touched(p)

(* HttpContext.RequestAborted, seen at an await. *)
ClientLeaves(p) ==
    /\ \E from \in {"account", "provider"} : Goes(p, from, Idle)
    /\ UNCHANGED cache

Step(p) ==
    /\ \/ \E force \in BOOLEAN : Begin(p, force)
       \/ Lookup(p)
       \/ RemoveExpired(p)
       \/ AnswerFromCache(p)
       \/ ReadAccount(p)
       \/ Fetched(p)
       \/ FetchFails(p)
       \/ FetchTimesOut(p)
       \/ MarkThrows(p)
       \/ Store(p)
       \/ Degraded(p)
       \/ AnswerLastResult(p)
       \/ ClientLeaves(p)
    /\ UNCHANGED <<now, back, account, leftAt>>

----------------------------------------------------------------------------
(* What goes on around the service *)

(* The callback binds a mailbox or replaces it; ChangeEmail and ClearAuth  *)
(* remove it.                                                              *)
Rebind(m) ==
    /\ m # account
    /\ account' = m
    /\ leftAt' = IF account = None THEN leftAt ELSE [leftAt EXCEPT ![account] = Elapsed]
    /\ UNCHANGED <<now, back, cache, poll>>

(* The service is a singleton in memory. *)
Restart ==
    /\ cache' = None
    /\ poll' = [p \in Polls |-> Idle]
    /\ UNCHANGED <<now, back, account, leftAt>>

Tick ==
    /\ now < MaxTime
    /\ now' = now + 1
    /\ UNCHANGED <<back, account, leftAt, cache, poll>>

SetBack(t) ==
    /\ t < now /\ back + (now - t) <= MaxBack
    /\ now' = t
    /\ back' = back + (now - t)
    /\ UNCHANGED <<account, leftAt, cache, poll>>

Next ==
    \/ \E p \in Polls : Step(p)
    \/ \E m \in Mailboxes \cup {None} : Rebind(m)
    \/ Restart
    \/ Tick
    \/ \E t \in 0 .. now : SetBack(t)

Spec == Init /\ [][Next]_vars

----------------------------------------------------------------------------
PollRecord == [ phase : Phase, force : BOOLEAN, start : Nat, began : Nat,
                entry : CacheEntry \cup {None}, intact : BOOLEAN,
                messages : Messages \cup {None} ]

HasMessages == {"provider", "store", "answered", "degraded"}

TypeOK ==
    /\ now \in Nat /\ back \in Nat
    /\ account \in Mailboxes \cup {None}
    /\ leftAt \in [Mailboxes -> Nat]
    /\ cache \in CacheEntry \cup {None}
    /\ poll \in [Polls -> PollRecord]
    /\ \A p \in Polls :
          /\ poll[p].phase \in {"hit", "degrading"} => poll[p].entry \in CacheEntry
          /\ poll[p].phase \in HasMessages => poll[p].messages \in Messages

(* A poll answered without a warning shows the mailbox as it was when the  *)
(* poll began or later; unless the user asked for a refresh it may be      *)
(* older, by less than the time to live and what the clock was set back.   *)
(* It is of a mailbox that the buyer still has, or had within that time.   *)
(* No slow fetch, no touch and no older result stored over a newer one     *)
(* makes old messages look fresh.                                          *)
RecentEnough(p, instant) ==
    \/ instant >= poll[p].began
    \/ ~poll[p].force /\ instant > poll[p].began - back - Ttl

FreshAnswer ==
    \A p \in Polls : poll[p].phase = "answered" =>
        LET shown == poll[p].messages
        IN  /\ RecentEnough(p, shown.asOf)
            /\ shown.mailbox = account \/ RecentEnough(p, leftAt[shown.mailbox])

(* Reading does not replace: the messages of an entry and their age change *)
(* only when a fetch that succeeded stores its own, never because a poll   *)
(* that found an older entry renews it after that.                         *)
OnlyFetchesReplace ==
    [][ /\ cache # None /\ cache' # None
        /\ <<cache'.messages, cache'.fetchedAt>> # <<cache.messages, cache.fetchedAt>>
        => \E p \in Polls : /\ poll[p].phase = "store"
                            /\ poll'[p].phase = "answered"
                            /\ cache'.messages = poll[p].messages ]_vars

(* "When a fetch fails and there are cached messages, they are returned    *)
(* with Stale = true": not when it fails by timing out, nor when a refused *)
(* one cannot mark the buyer.                                              *)
FailureShowsLast ==
    [][ \A p \in Polls :
            /\ poll[p].phase \notin Answered
            /\ poll'[p].phase \in {"error", "exception"}
            => cache = None \/ cache.messages.empty ]_vars
===============================================================================
