--------------------------- MODULE MailCacheProofs ---------------------------
(****************************************************************************)
(* What the cache promises, for any number of overlapping polls, any        *)
(* mailboxes and any two ages: answers are recent, and only fetches replace *)
(* messages.                                                                *)
(*                                                                          *)
(* The argument is that a list of messages is never stamped younger than it *)
(* is.  It holds because the stamp is the clock when the poll began, which  *)
(* is before the account is read and so before the provider lists anything, *)
(* and a clock set back only shows less; it survives every race, because a  *)
(* list and its stamp are written together and read together.               *)
(****************************************************************************)
EXTENDS MailCache, TLAPS

(* The messages v were read at stamp or later, from the mailbox the buyer  *)
(* had at that time.                                                       *)
Honest(v, stamp) ==
    /\ stamp <= v.asOf
    /\ v.asOf <= Elapsed
    /\ v.mailbox # account => v.asOf <= leftAt[v.mailbox]

(* What a poll knows, by phase. *)
PollOK(r) ==
    /\ r.start <= r.began /\ r.began <= Elapsed
    /\ r.phase \in {"lookup", "hit"} => r.began - r.start <= back
    /\ r.phase \in {"provider", "store"} => Honest(r.messages, r.began)
    /\ r.phase = "hit" => /\ ~r.force
                          /\ r.start - r.entry.fetchedAt < Ttl
                          /\ Honest(r.entry.messages, r.entry.fetchedAt)
    /\ r.phase = "answered" => /\ Honest(r.messages, 0)
                               /\ \/ r.messages.asOf >= r.began
                                  \/ /\ ~r.force
                                     /\ r.messages.asOf > r.began - back - Ttl

Typed(r) ==
    /\ r \in PollRecord
    /\ r.phase \in {"hit", "degrading"} => r.entry \in CacheEntry
    /\ r.phase \in HasMessages => r.messages \in Messages

CacheOK(e) == e # None => Honest(e.messages, e.fetchedAt)

IInv ==
    /\ TypeOK
    /\ CacheOK(cache)
    /\ \A p \in Polls : PollOK(poll[p])

----------------------------------------------------------------------------
(* A poll that holds nothing: idle, or answered without messages. *)
LEMMA EmptyHandedOK ==
    ASSUME Elapsed \in Nat, NEW r \in PollRecord, r.start = 0, r.began = 0,
           r.phase \in {"idle", "unbound", "error", "exception"}
    PROVE  Typed(r) /\ PollOK(r)
BY DEF Typed, PollOK, HasMessages

LEMMA IdleIsRecord == /\ Idle \in PollRecord /\ Idle.phase = "idle"
                      /\ Idle.start = 0 /\ Idle.began = 0
BY DEF Idle, PollRecord, Phase

LEMMA ElapsedIsNat == TypeOK => Elapsed \in Nat
BY DEF TypeOK, Elapsed

LEMMA IdleOK == ASSUME Elapsed \in Nat PROVE Typed(Idle) /\ PollOK(Idle)
BY IdleIsRecord, EmptyHandedOK

LEMMA NoMessagesOK ==
    ASSUME Elapsed \in Nat, NEW phase \in {"unbound", "error", "exception"}
    PROVE  Typed(NoMessages(phase)) /\ PollOK(NoMessages(phase))
<1>1. /\ NoMessages(phase) \in PollRecord /\ NoMessages(phase).phase = phase
      /\ NoMessages(phase).start = 0 /\ NoMessages(phase).began = 0
  BY IdleIsRecord DEF NoMessages, PollRecord, Phase, Answered
<1> QED BY <1>1, EmptyHandedOK

LEMMA PollTyped == ASSUME IInv, NEW p \in Polls PROVE Typed(poll[p]) /\ PollOK(poll[p])
BY DEF IInv, TypeOK, Typed

(* A step of one poll that leaves the surroundings alone: it is enough to  *)
(* look at that poll and at the cache.  Entries held by others stay good   *)
(* whatever happens to the cache.                                          *)
LEMMA OnePollStep ==
    ASSUME IInv, NEW p \in Polls, NEW r, Typed(r), PollOK(r),
           poll' = [poll EXCEPT ![p] = r],
           cache' \in CacheEntry \cup {None}, CacheOK(cache'),
           UNCHANGED <<now, back, account, leftAt>>
    PROVE  IInv'
<1>1. TypeOK'
  <2>1. poll' \in [Polls -> PollRecord]
    BY DEF IInv, TypeOK, Typed
  <2>2. ASSUME NEW q \in Polls PROVE Typed(poll'[q])
    BY PollTyped DEF IInv, TypeOK
  <2> QED BY <2>1, <2>2 DEF IInv, TypeOK, Typed
<1>2. CacheOK(cache)'
  BY DEF CacheOK, Honest, Elapsed
<1>3. ASSUME NEW q \in Polls PROVE PollOK(poll[q])'
  <2>1. PollOK(poll'[q])
    BY DEF IInv, TypeOK
  <2> QED BY <2>1 DEF PollOK, Honest, Elapsed
<1> QED BY <1>1, <1>2, <1>3 DEF IInv

LEMMA TouchedOK ==
    ASSUME IInv, NEW p \in Polls
    PROVE  /\ Touched(p) \in CacheEntry \cup {None}
           /\ CacheOK(Touched(p))
           /\ cache # None => /\ Touched(p).messages = cache.messages
                              /\ Touched(p).fetchedAt = cache.fetchedAt
<1> DEFINE e == [cache EXCEPT !.lastAccessedAt = poll[p].start]
<1>1. CASE Touched(p) = cache
  BY <1>1 DEF IInv, TypeOK
<1>2. CASE Touched(p) # cache
  <2>1. cache \in CacheEntry /\ Touched(p) = e
    BY <1>2 DEF Touched, IInv, TypeOK
  <2>2. /\ e \in CacheEntry
        /\ e.messages = cache.messages /\ e.fetchedAt = cache.fetchedAt
    BY <2>1, PollTyped DEF Typed, PollRecord, CacheEntry
  <2>3. cache # None
    BY <1>2 DEF Touched
  <2>4. CacheOK(e)
    BY <2>2, <2>3 DEF CacheOK, IInv
  <2> QED BY <2>1, <2>2, <2>4
<1> QED BY <1>1, <1>2
----------------------------------------------------------------------------
(* The steps of a poll *)

LEMMA BeginOK ==
    ASSUME IInv, NEW p \in Polls, NEW force \in BOOLEAN, Begin(p, force),
           UNCHANGED <<now, back, account, leftAt>>
    PROVE  IInv'
<1>1. PICK r : r = [Idle EXCEPT !.phase = "lookup", !.force = force, !.start = now,
                               !.began = Elapsed]
  OBVIOUS
<1>2. now \in Nat /\ back \in Nat /\ Elapsed \in Nat
  BY ElapsedIsNat DEF IInv, TypeOK
<1>3. r \in PollRecord /\ r.phase = "lookup" /\ r.start = now /\ r.began = Elapsed
  BY <1>1, <1>2, IdleIsRecord DEF PollRecord, Phase
<1>4. Typed(r) /\ PollOK(r)
  BY <1>2, <1>3 DEF Typed, PollOK, HasMessages, Elapsed
<1> QED BY <1>1, <1>4, OnePollStep DEF Begin, IInv, TypeOK

LEMMA LookupOK ==
    ASSUME IInv, NEW p \in Polls, Lookup(p), UNCHANGED <<now, back, account, leftAt>>
    PROVE  IInv'
<1> USE PollTyped
<1>1. CASE Goes(p, "lookup", [poll[p] EXCEPT !.phase = "remove"])
  <2> DEFINE r == [poll[p] EXCEPT !.phase = "remove"]
  <2>1. Typed(r) /\ PollOK(r)
    BY <1>1 DEF Goes, Typed, PollOK, PollRecord, Phase, Answered, HasMessages
  <2> QED BY <1>1, <2>1, OnePollStep DEF Goes, Lookup, IInv, TypeOK
<1>2. CASE Fresh(p) /\ Goes(p, "lookup", Found(p, "hit"))
  <2>1. cache \in CacheEntry /\ Honest(cache.messages, cache.fetchedAt)
    BY <1>2 DEF Fresh, IInv, TypeOK, CacheOK
  <2>2. Typed(Found(p, "hit")) /\ PollOK(Found(p, "hit"))
    BY <1>2, <2>1 DEF Goes, Fresh, Found, Typed, PollOK, PollRecord, Phase, Answered,
                      HasMessages
  <2> QED BY <1>2, <2>2, OnePollStep DEF Goes, Lookup, IInv, TypeOK
<1>3. CASE Goes(p, "lookup", [poll[p] EXCEPT !.phase = "account"])
  <2> DEFINE r == [poll[p] EXCEPT !.phase = "account"]
  <2>1. Typed(r) /\ PollOK(r)
    BY <1>3 DEF Goes, Typed, PollOK, PollRecord, Phase, Answered, HasMessages
  <2> QED BY <1>3, <2>1, OnePollStep DEF Goes, Lookup, IInv, TypeOK
<1> QED BY <1>1, <1>2, <1>3 DEF Lookup

LEMMA RemoveExpiredOK ==
    ASSUME IInv, NEW p \in Polls, RemoveExpired(p), UNCHANGED <<now, back, account, leftAt>>
    PROVE  IInv'
<1> DEFINE r == [poll[p] EXCEPT !.phase = "account"]
<1>1. Typed(r) /\ PollOK(r)
  BY PollTyped DEF RemoveExpired, Goes, Typed, PollOK, PollRecord, Phase, Answered,
                   HasMessages
<1>2. cache' = None /\ CacheOK(None)
  BY DEF RemoveExpired, CacheOK
<1> QED BY <1>1, <1>2, OnePollStep DEF RemoveExpired, Goes

LEMMA AnswerFromCacheOK ==
    ASSUME IInv, NEW p \in Polls, AnswerFromCache(p), UNCHANGED <<now, back, account, leftAt>>
    PROVE  IInv'
<1> DEFINE r == Answer(p, "answered", poll[p].entry.messages)
<1>1. poll[p].phase = "hit" /\ poll' = [poll EXCEPT ![p] = r] /\ cache' = Touched(p)
  BY DEF AnswerFromCache, Goes
<1>2. poll[p].entry \in CacheEntry /\ Honest(poll[p].entry.messages, poll[p].entry.fetchedAt)
  BY <1>1, PollTyped DEF Typed, PollOK
<1>3. Typed(r)
  <2>1. poll[p] \in PollRecord /\ poll[p].entry.messages \in Messages
    BY <1>2, PollTyped DEF Typed, CacheEntry
  <2>2. r \in PollRecord
    BY <2>1 DEF Answer, PollRecord, Phase, Answered
  <2>3. r.phase = "answered" /\ r.messages = poll[p].entry.messages
    BY <2>1 DEF Answer, PollRecord
  <2>4. QED
    BY <2>1, <2>2, <2>3 DEF Typed
<1>4. PollOK(r)
  <2>1. /\ r.messages.asOf > r.began - back - Ttl /\ ~r.force
        /\ r.start <= r.began /\ r.began <= Elapsed
    <3>1. Typed(poll[p]) /\ PollOK(poll[p]) /\ back \in Nat
      BY PollTyped DEF IInv, TypeOK
    <3>2. /\ r.messages = poll[p].entry.messages /\ r.start = 0
          /\ r.began = poll[p].began /\ r.force = poll[p].force
      BY <3>1 DEF Answer, Typed, PollRecord
    <3>3. /\ poll[p].began <= Elapsed /\ ~poll[p].force
          /\ poll[p].began - poll[p].start <= back
          /\ poll[p].start - poll[p].entry.fetchedAt < Ttl
      BY <1>1, <3>1 DEF PollOK
    <3>4. poll[p].entry.fetchedAt <= poll[p].entry.messages.asOf
      BY <1>2 DEF Honest
    <3>5. /\ poll[p].entry.fetchedAt \in Int /\ poll[p].entry.messages.asOf \in Int
          /\ poll[p].start \in Int /\ poll[p].began \in Nat
      BY <1>2, <3>1 DEF Typed, PollRecord, CacheEntry, Messages
    <3>6. QED
      BY <3>1, <3>2, <3>3, <3>4, <3>5, AgesAreIntegers
  <2>2. Honest(r.messages, 0)
    BY <1>2, PollTyped DEF Answer, Typed, Honest, PollRecord, CacheEntry, Messages
  <2>3. r.phase = "answered"
    BY PollTyped DEF Answer, Typed, PollRecord
  <2> QED BY <2>1, <2>2, <2>3 DEF PollOK
<1> QED BY <1>1, <1>3, <1>4, OnePollStep, TouchedOK

LEMMA ReadAccountOK ==
    ASSUME IInv, NEW p \in Polls, ReadAccount(p), UNCHANGED <<now, back, account, leftAt>>
    PROVE  IInv'
<1>1. CASE Goes(p, "account", NoMessages("unbound"))
  <2>1. Typed(NoMessages("unbound")) /\ PollOK(NoMessages("unbound"))
    BY NoMessagesOK, ElapsedIsNat DEF IInv
  <2> QED BY <1>1, <2>1, OnePollStep DEF Goes, ReadAccount, IInv, TypeOK
<1>2. CASE account # None
  <2> DEFINE v == [mailbox |-> account, asOf |-> Elapsed, empty |-> FALSE]
             r == [poll[p] EXCEPT !.phase = "provider", !.messages = v]
  <2>1. poll' = [poll EXCEPT ![p] = r] /\ UNCHANGED cache
    BY <1>2 DEF ReadAccount, Goes
  <2>2. v \in Messages /\ Elapsed \in Nat
    BY <1>2, ElapsedIsNat DEF IInv, TypeOK, Messages
  <2>3. Typed(r)
    BY <2>2, PollTyped DEF Typed, PollRecord, Phase, Answered, HasMessages
  <2>4. PollOK(r)
    <3>1. /\ r.phase = "provider" /\ r.messages = v
          /\ r.start = poll[p].start /\ r.began = poll[p].began
      BY PollTyped DEF Typed, PollRecord
    <3>2. Honest(v, poll[p].began) /\ poll[p].start <= poll[p].began
          /\ poll[p].began <= Elapsed
      BY <2>2, PollTyped DEF Typed, PollOK, Honest, PollRecord
    <3> QED BY <3>1, <3>2 DEF PollOK
  <2> QED BY <2>1, <2>3, <2>4, OnePollStep DEF IInv, TypeOK
<1> QED BY <1>1, <1>2 DEF ReadAccount

LEMMA FetchedOK ==
    ASSUME IInv, NEW p \in Polls, Fetched(p), UNCHANGED <<now, back, account, leftAt>>
    PROVE  IInv'
<1>1. PICK empty \in BOOLEAN :
          Goes(p, "provider", [poll[p] EXCEPT !.phase = "store", !.messages.empty = empty])
  BY DEF Fetched
<1> DEFINE r == [poll[p] EXCEPT !.phase = "store", !.messages.empty = empty]
<1>2. /\ poll[p].messages \in Messages /\ Honest(poll[p].messages, poll[p].began)
      /\ poll[p] \in PollRecord
      /\ poll[p].start <= poll[p].began /\ poll[p].began <= Elapsed
  BY <1>1, PollTyped DEF Goes, Typed, PollOK, HasMessages
<1>3. Typed(r)
  BY <1>2 DEF Typed, PollRecord, Messages, Phase, Answered, HasMessages
<1>4. PollOK(r)
  BY <1>2 DEF PollOK, Honest, PollRecord, Messages
<1> QED BY <1>1, <1>3, <1>4, OnePollStep DEF Goes, Fetched, IInv, TypeOK

LEMMA FetchEndsOK ==
    ASSUME IInv, NEW p \in Polls,
           FetchFails(p) \/ MarkThrows(p) \/ FetchTimesOut(p) \/ ClientLeaves(p),
           UNCHANGED <<now, back, account, leftAt>>
    PROVE  IInv'
<1> DEFINE r == [poll[p] EXCEPT !.phase = "failed", !.messages = None]
<1>1. Typed(r) /\ PollOK(r)
  BY PollTyped DEF Typed, PollOK, PollRecord, Phase, Answered, HasMessages
<1>2. Typed(NoMessages("exception")) /\ PollOK(NoMessages("exception"))
  BY NoMessagesOK, ElapsedIsNat DEF IInv
<1>3. Typed(Idle) /\ PollOK(Idle)
  BY IdleOK, ElapsedIsNat DEF IInv
<1>4. /\ UNCHANGED cache
      /\ \/ poll' = [poll EXCEPT ![p] = r]
         \/ poll' = [poll EXCEPT ![p] = NoMessages("exception")]
         \/ poll' = [poll EXCEPT ![p] = Idle]
  BY DEF FetchFails, MarkThrows, FetchTimesOut, ClientLeaves, Goes
<1> QED BY <1>1, <1>2, <1>3, <1>4, OnePollStep DEF IInv, TypeOK

LEMMA StoreOK ==
    ASSUME IInv, NEW p \in Polls, Store(p), UNCHANGED <<now, back, account, leftAt>>
    PROVE  IInv'
<1>1. /\ poll[p].phase = "store" /\ poll[p] \in PollRecord
      /\ poll[p].messages \in Messages /\ Honest(poll[p].messages, poll[p].began)
      /\ poll[p].start <= poll[p].began /\ poll[p].began <= Elapsed
  BY PollTyped DEF Store, Typed, PollOK, HasMessages
<1>2. cache' \in CacheEntry /\ CacheOK(cache')
  <2>1. Honest(poll[p].messages, poll[p].start)
    BY <1>1 DEF Honest, PollRecord, Messages
  <2> QED BY <1>1, <2>1 DEF Store, NewEntry, CacheEntry, CacheOK, PollRecord
<1>3. Typed(poll'[p]) /\ PollOK(poll'[p])
  <2> DEFINE r == Answer(p, "answered", poll[p].messages)
  <2>1. /\ poll'[p] = r /\ r \in PollRecord /\ r.phase = "answered"
        /\ r.start = 0 /\ r.began = poll[p].began /\ r.messages = poll[p].messages
    BY <1>1 DEF Store, Answer, PollRecord, Phase, Answered
  <2>2. /\ Honest(r.messages, 0) /\ r.messages.asOf >= r.began
        /\ r.start <= r.began /\ r.began <= Elapsed
    BY <1>1, <2>1 DEF Honest, PollRecord, Messages
  <2> QED BY <1>1, <2>1, <2>2 DEF Typed, PollOK, HasMessages
<1>4. ASSUME NEW q \in Polls, q # p PROVE Typed(poll'[q]) /\ PollOK(poll'[q])
  <2>1. poll'[q] = [poll[q] EXCEPT !.intact = FALSE]
    BY <1>4 DEF Store
  <2> QED BY <2>1, PollTyped DEF Typed, PollOK, PollRecord
<1>5. poll' = [q \in Polls |-> poll'[q]]
  BY DEF Store
<1>6. TypeOK'
  BY <1>2, <1>3, <1>4, <1>5 DEF Typed, IInv, TypeOK
<1>7. ASSUME NEW q \in Polls PROVE PollOK(poll[q])'
  BY <1>3, <1>4 DEF PollOK, Honest, Elapsed
<1> QED BY <1>2, <1>6, <1>7 DEF IInv, CacheOK, Honest, Elapsed

LEMMA DegradedOK ==
    ASSUME IInv, NEW p \in Polls, Degraded(p), UNCHANGED <<now, back, account, leftAt>>
    PROVE  IInv'
<1>1. CASE cache # None /\ Goes(p, "failed", Found(p, "degrading"))
  <2>1. cache \in CacheEntry
    BY <1>1 DEF IInv, TypeOK
  <2>2. Typed(Found(p, "degrading")) /\ PollOK(Found(p, "degrading"))
    BY <2>1, PollTyped DEF Found, Typed, PollOK, PollRecord, Phase, Answered, HasMessages
  <2> QED BY <1>1, <2>2, OnePollStep DEF Goes, Degraded, IInv, TypeOK
<1>2. CASE Goes(p, "failed", NoMessages("error"))
  <2>1. Typed(NoMessages("error")) /\ PollOK(NoMessages("error"))
    BY NoMessagesOK, ElapsedIsNat DEF IInv
  <2> QED BY <1>2, <2>1, OnePollStep DEF Goes, Degraded, IInv, TypeOK
<1> QED BY <1>1, <1>2 DEF Degraded

LEMMA AnswerLastResultOK ==
    ASSUME IInv, NEW p \in Polls, AnswerLastResult(p),
           UNCHANGED <<now, back, account, leftAt>>
    PROVE  IInv'
<1> DEFINE r == Answer(p, "degraded", poll[p].entry.messages)
<1>1. poll[p].phase = "degrading" /\ poll' = [poll EXCEPT ![p] = r] /\ cache' = Touched(p)
  BY DEF AnswerLastResult, Goes
<1>2. poll[p].entry \in CacheEntry
  BY <1>1, PollTyped DEF Typed
<1>3. Typed(r) /\ PollOK(r)
  <2>1. /\ r \in PollRecord /\ r.phase = "degraded" /\ r.messages \in Messages
        /\ r.start = 0 /\ r.began = poll[p].began
    BY <1>2, PollTyped DEF Answer, Typed, PollRecord, CacheEntry, Phase, Answered
  <2>2. 0 <= poll[p].began /\ poll[p].began <= Elapsed
    BY PollTyped DEF Typed, PollOK, PollRecord
  <2> QED BY <2>1, <2>2 DEF Typed, PollOK
<1> QED BY <1>1, <1>3, OnePollStep, TouchedOK

LEMMA StepOK ==
    ASSUME IInv, NEW p \in Polls, Step(p)
    PROVE  IInv'
BY BeginOK, LookupOK, RemoveExpiredOK, AnswerFromCacheOK, ReadAccountOK, FetchedOK,
   FetchEndsOK, StoreOK, DegradedOK, AnswerLastResultOK DEF Step

----------------------------------------------------------------------------
(* The surroundings *)

Surroundings == \/ \E m \in Mailboxes \cup {None} : Rebind(m)
                \/ Tick
                \/ \E t \in 0 .. now : SetBack(t)

(* A clock that is set back does not turn back time. *)
LEMMA TimePasses ==
    ASSUME TypeOK, Surroundings
    PROVE  /\ now' \in Nat /\ back' \in Nat /\ back <= back'
           /\ Elapsed \in Nat /\ Elapsed' \in Nat /\ Elapsed <= Elapsed'
BY DEF Surroundings, Rebind, Tick, SetBack, TypeOK, Elapsed

(* Time passes and the mailbox changes: what was honest stays honest,      *)
(* because the mailbox that is given up was the buyer's until now.         *)
LEMMA HonestForEver ==
    ASSUME IInv, Surroundings,
           NEW v \in Messages, NEW stamp \in Nat, Honest(v, stamp)
    PROVE  Honest(v, stamp)'
<1>1. CASE UNCHANGED <<account, leftAt>>
  BY <1>1, TimePasses DEF Honest, IInv, Messages
<1>2. ASSUME NEW m \in Mailboxes \cup {None}, Rebind(m) PROVE Honest(v, stamp)'
  <2>1. v.mailbox \in Mailboxes /\ v.asOf \in Nat
    BY DEF Messages
  <2>2. CASE v.mailbox = account
    <3>1. leftAt'[v.mailbox] = Elapsed
      BY <1>2, <2>1, <2>2, NoneIsNoMailbox DEF Rebind, IInv, TypeOK
    <3> QED BY <1>2, <2>1, <3>1 DEF Rebind, Honest, Elapsed
  <2>3. CASE v.mailbox # account
    <3>1. leftAt'[v.mailbox] = leftAt[v.mailbox]
      BY <1>2, <2>1, <2>3 DEF Rebind, IInv, TypeOK
    <3> QED BY <1>2, <2>1, <2>3, <3>1 DEF Rebind, Honest, Elapsed
  <2> QED BY <2>2, <2>3
<1> QED BY <1>1, <1>2 DEF Surroundings, Tick, SetBack

LEMMA SurroundingsOK ==
    ASSUME IInv, Surroundings
    PROVE  IInv'
<1>1. UNCHANGED <<cache, poll>>
  BY DEF Surroundings, Rebind, Tick, SetBack
<1>2. account' \in Mailboxes \cup {None} /\ leftAt' \in [Mailboxes -> Nat]
  BY ElapsedIsNat DEF Surroundings, Rebind, Tick, SetBack, IInv, TypeOK
<1>3. TypeOK'
  BY <1>1, <1>2, TimePasses DEF IInv, TypeOK
<1>4. CacheOK(cache)'
  BY <1>1, HonestForEver DEF CacheOK, IInv, TypeOK, CacheEntry
<1>5. ASSUME NEW p \in Polls PROVE PollOK(poll[p])'
  <2>1. Typed(poll[p]) /\ PollOK(poll[p]) /\ poll'[p] = poll[p] /\ poll[p] \in PollRecord
    BY <1>1, PollTyped DEF Typed
  <2>2. /\ poll[p].began <= Elapsed'
        /\ poll[p].phase \in {"lookup", "hit"} => poll[p].began - poll[p].start <= back'
    BY <2>1, TimePasses DEF PollOK, PollRecord, IInv, TypeOK
  <2>3. poll[p].phase \in {"provider", "store"} => Honest(poll[p].messages, poll[p].began)'
    BY <2>1, HonestForEver DEF PollOK, Typed, PollRecord, HasMessages
  <2>4. poll[p].phase = "hit" =>
            Honest(poll[p].entry.messages, poll[p].entry.fetchedAt)'
    BY <2>1, HonestForEver DEF PollOK, Typed, CacheEntry
  <2>5. poll[p].phase = "answered" =>
            /\ Honest(poll[p].messages, 0)'
            /\ \/ poll[p].messages.asOf >= poll[p].began
               \/ ~poll[p].force /\ poll[p].messages.asOf > poll[p].began - back' - Ttl
    <3>1. ASSUME poll[p].phase = "answered" PROVE poll[p].messages \in Messages
      BY <2>1, <3>1 DEF Typed, HasMessages
    <3> QED BY <2>1, <3>1, HonestForEver, TimePasses, AgesAreIntegers
            DEF PollOK, PollRecord, Messages, IInv, TypeOK
  <2> QED BY <2>1, <2>2, <2>3, <2>4, <2>5 DEF PollOK
<1> QED BY <1>3, <1>4, <1>5 DEF IInv

LEMMA RestartOK == ASSUME IInv, Restart PROVE IInv'
<1>1. Typed(Idle) /\ PollOK(Idle)
  BY IdleOK, ElapsedIsNat DEF IInv
<1>2. TypeOK'
  BY <1>1 DEF Restart, Typed, IInv, TypeOK
<1>3. ASSUME NEW p \in Polls PROVE PollOK(poll[p])'
  <2>1. poll'[p] = Idle
    BY DEF Restart
  <2> QED BY <1>1, <2>1 DEF Restart, PollOK, Honest, Elapsed
<1>4. CacheOK(cache)'
  BY DEF Restart, CacheOK
<1> QED BY <1>2, <1>3, <1>4 DEF IInv

----------------------------------------------------------------------------
(* No reachable state has a list of messages that is older than its stamp, *)
(* in the cache or in the hands of a poll.                                 *)
THEOREM Invariance == Spec => []IInv
<1>1. Init => IInv
  <2> SUFFICES ASSUME Init PROVE IInv
    OBVIOUS
  <2>1. Typed(Idle) /\ PollOK(Idle)
    BY IdleOK DEF Init, Elapsed
  <2>2. TypeOK
    BY <2>1 DEF Init, TypeOK, Typed
  <2> QED BY <2>1, <2>2 DEF Init, IInv, CacheOK
<1>2. IInv /\ [Next]_vars => IInv'
  <2> SUFFICES ASSUME IInv, [Next]_vars PROVE IInv'
    OBVIOUS
  <2>1. CASE UNCHANGED vars
    BY <2>1 DEF vars, IInv, TypeOK, CacheOK, PollOK, Honest, Elapsed
  <2>2. CASE Next
    BY <2>2, StepOK, SurroundingsOK, RestartOK DEF Next, Surroundings
  <2> QED BY <2>1, <2>2
<1> QED BY <1>1, <1>2, PTL DEF Spec

(* The types of the clock, the cache and the polls. *)
THEOREM TypeCorrect == Spec => []TypeOK
BY Invariance, PTL DEF IInv

(* An answer without a warning is recent, and of a mailbox that is or was  *)
(* recently the buyer's.                                                   *)
THEOREM Recent == Spec => []FreshAnswer
<1>1. IInv => FreshAnswer
  <2> SUFFICES ASSUME IInv, NEW p \in Polls, poll[p].phase = "answered"
               PROVE  LET shown == poll[p].messages
                      IN  /\ RecentEnough(p, shown.asOf)
                          /\ shown.mailbox = account \/ RecentEnough(p, leftAt[shown.mailbox])
    BY DEF FreshAnswer
  <2> DEFINE shown == poll[p].messages
  <2>1. /\ shown \in Messages /\ poll[p].began \in Nat /\ back \in Nat
        /\ Honest(shown, 0) /\ RecentEnough(p, shown.asOf)
    BY PollTyped DEF Typed, PollOK, PollRecord, HasMessages, RecentEnough, IInv, TypeOK
  <2>2. CASE shown.mailbox # account
    <3>1. /\ shown.asOf \in Nat /\ leftAt[shown.mailbox] \in Nat
          /\ shown.asOf <= leftAt[shown.mailbox]
      BY <2>1, <2>2 DEF Honest, Messages, IInv, TypeOK
    <3> QED BY <2>1, <3>1, AgesAreIntegers DEF RecentEnough
  <2> QED BY <2>1, <2>2
<1> QED BY <1>1, Invariance, PTL

(* The messages of an entry are replaced by a successful fetch alone. *)
THEOREM Replacement == Spec => OnlyFetchesReplace
<1> DEFINE Replaced == /\ cache # None /\ cache' # None
                       /\ <<cache'.messages, cache'.fetchedAt>>
                              # <<cache.messages, cache.fetchedAt>>
           Stored(p) == /\ poll[p].phase = "store"
                        /\ poll'[p].phase = "answered"
                        /\ cache'.messages = poll[p].messages
<1>1. ASSUME IInv, [Next]_vars, Replaced PROVE \E p \in Polls : Stored(p)
  <2>1. PICK p \in Polls : Step(p)
    BY <1>1 DEF Next, Rebind, Restart, Tick, SetBack, vars
  <2>2. cache' # cache /\ cache' # Touched(p) /\ cache' # None
    BY <1>1, TouchedOK
  <2>3. Store(p)
    BY <2>1, <2>2 DEF Step, Begin, Lookup, RemoveExpired, AnswerFromCache, ReadAccount,
                      Fetched, FetchFails, MarkThrows, FetchTimesOut, Degraded, AnswerLastResult,
                      ClientLeaves
  <2>4. poll'[p] = Answer(p, "answered", poll[p].messages) /\ poll[p] \in PollRecord
    BY <1>1, <2>3, PollTyped DEF Store, Typed
  <2>5. Stored(p)
    BY <2>3, <2>4 DEF Store, Answer, NewEntry, PollRecord
  <2> QED BY <2>5
<1>2. IInv /\ [Next]_vars => [Replaced => \E p \in Polls : Stored(p)]_vars
  BY <1>1
<1> QED BY <1>2, Invariance, PTL DEF Spec, OnlyFetchesReplace
=============================================================================
