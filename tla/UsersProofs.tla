----------------------------- MODULE UsersProofs -----------------------------
(****************************************************************************)
(* Of Users: the type invariant, TwinsOverlap, OwnerSignsIn, AdminStands,   *)
(* and that Users implements Accounts, for any callers, names, roles and    *)
(* passwords and any pair of lowerings of which one undoes the other.       *)
(*                                                                          *)
(* The argument: a call that waits for its save still has the ground on     *)
(* which its check let it pass (CallsHold): rows are never removed and keep *)
(* their role, and a creation's name was like none of the names it saw.     *)
(****************************************************************************)
EXTENDS Users, TLAPS

Ground(k) ==
    /\ k.wish.op \in {"create", "reset", "setActive"}
    /\ IF k.wish.op = "create"
       THEN /\ k.saw \subseteq Rows
            /\ \A m \in k.saw : LowerSql[m] # Lower[k.wish.name]
       ELSE Manages(k.wish) /\ k.read \in User

CallsHold == \A c \in Callers : call[c].phase = "save" => Ground(call[c])

SeenAreRows == \A n \in Names : seen[n] \subseteq Rows

AdministrationAnswers ==
    \A c \in Callers : call[c].phase = "done" /\ call[c].wish.op # "login"
                          => call[c].answer \in {"ok", "refused"}

IInv ==
    /\ TypeOK
    /\ CallsHold
    /\ SeenAreRows
    /\ AdministrationAnswers
    /\ TwinsOverlap
    /\ OwnerSignsIn
    /\ AdminStands

(* Rows stay and keep their role.                                          *)
RowsKept ==
    /\ Rows \subseteq Rows'
    /\ \A n \in Rows : user'[n].role = user[n].role

LEMMA CallIs ==
    ASSUME TypeOK, NEW c \in Callers, call[c].phase # "idle"
    PROVE  /\ call[c] \in Call
           /\ call[c].wish \in Wish
           /\ call[c].wish.name \in Names
           /\ call[c].phase \in {"called", "save", "done"}
  <1>1. call[c] \in Call /\ call[c] # Idle
    BY DEF TypeOK, Idle
  <1>2. call[c].wish \in Wish /\ call[c].phase \in {"called", "save", "done"}
    BY <1>1 DEF Call
  <1>3. QED
    BY <1>1, <1>2 DEF Wish

LEMMA GroundKept ==
    ASSUME RowsKept, NEW k, Ground(k)
    PROVE  Ground(k)'
  BY DEF RowsKept, Ground, Manages

LEMMA InitOK == ASSUME Init PROVE IInv
  <1>a. Admin \in User
    BY AdminIsGiven DEF Admin, User
  <1>1. Admin \in User /\ Admin # None
    BY <1>a, NoneIsNoUser
  <1>2. TypeOK
    BY <1>1, AdminIsGiven DEF Init, TypeOK, Call
  <1>3. Rows = {AdminName} /\ user[AdminName] = Admin
    BY <1>1, AdminIsGiven DEF Init, Rows
  <1>4. CallsHold /\ AdministrationAnswers /\ OwnerSignsIn
    BY DEF Init, CallsHold, AdministrationAnswers, OwnerSignsIn, Is, Idle
  <1>5. SeenAreRows
    BY DEF Init, SeenAreRows
  <1>6. TwinsOverlap
    BY <1>3 DEF TwinsOverlap
  <1>7. AdminStands
    BY <1>3 DEF Init, AdminStands
  <1>8. QED
    BY <1>2, <1>4, <1>5, <1>6, <1>7 DEF IInv

(* A step that changes one call only, to one that holds what is asked of   *)
(* calls, keeps the invariant.                                             *)
Holds(k) ==
    /\ k \in Call
    /\ k.phase = "save" => Ground(k)
    /\ k.phase = "done" /\ k.wish.op # "login" => k.answer \in {"ok", "refused"}
    /\ k.phase = "done" /\ k.wish.op = "login" =>
          IF k.answer = "refused"
          THEN \A n \in k.owners :
                  \/ LowerSql[n] # Lower[n]
                  \/ \E m \in Rows \ {n} : Lower[m] = Lower[n]
          ELSE k.answer \in k.owners

LEMMA CallsGoOn ==
    ASSUME IInv, NEW c \in Callers, NEW k, Holds(k),
           call' = [call EXCEPT ![c] = k], UNCHANGED <<user, seen, serving>>
    PROVE  IInv'
  <1>1. \A d \in Callers : call'[d] = IF d = c THEN k ELSE call[d]
    BY DEF IInv, TypeOK
  <1>2. TypeOK'
    BY DEF IInv, TypeOK, Holds
  <1>3. CallsHold'
    BY <1>1 DEF IInv, CallsHold, Holds, Ground, Manages, Rows
  <1>4. SeenAreRows' /\ TwinsOverlap' /\ AdminStands'
    BY DEF IInv, SeenAreRows, TwinsOverlap, AdminStands, Rows
  <1>5. AdministrationAnswers'
    BY <1>1 DEF IInv, AdministrationAnswers, Holds
  <1>6. OwnerSignsIn'
    BY <1>1 DEF IInv, OwnerSignsIn, Holds, Is, Rows
  <1>7. QED
    BY <1>2, <1>3, <1>4, <1>5, <1>6 DEF IInv

LEMMA IdleHolds == Holds(Idle)
  BY DEF Holds, Idle, Call

LEMMA CallsOK ==
    ASSUME IInv, NEW c \in Callers, NEW wish \in Wish, Calls(c, wish)
    PROVE  IInv'
  <1> DEFINE k == [phase |-> "called", wish |-> wish]
  <1>1. Holds(k)
    BY DEF Holds, Call
  <1>2. QED
    BY <1>1, CallsGoOn DEF Calls, Goes

LEMMA CheckOK == ASSUME IInv, NEW c \in Callers, Check(c) PROVE IInv'
  <1> DEFINE w == call[c].wish
             refused == [phase |-> "done", wish |-> w, answer |-> "refused", owners |-> {}]
             saving == [phase |-> "save", wish |-> w, read |-> None, saw |-> Rows]
  <1>1. w \in Wish /\ w.op = "create"
    BY CallIs DEF IInv, Check, Is
  <1>2. CASE Taken(w.name)
    <2>1. Holds(refused)
      BY <1>1 DEF Holds, Call
    <2>2. QED
      BY <1>2, <2>1, CallsGoOn DEF Check, Done, Goes
  <1>3. CASE ~Taken(w.name)
    <2>1. saving \in Call
      BY <1>1 DEF Call, Rows
    <2>2. Ground(saving)
      BY <1>1, <1>3 DEF Ground, Taken, Found
    <2>3. Holds(saving)
      BY <2>1, <2>2 DEF Holds
    <2>4. QED
      BY <1>3, <2>3, CallsGoOn DEF Check, Goes
  <1>4. QED
    BY <1>2, <1>3

LEMMA ReadOK == ASSUME IInv, NEW c \in Callers, Read(c) PROVE IInv'
  <1> DEFINE w == call[c].wish
             refused == [phase |-> "done", wish |-> w, answer |-> "refused", owners |-> {}]
             saving == [phase |-> "save", wish |-> w, read |-> user[w.name], saw |-> {}]
  <1>1. w \in Wish /\ w.op \in {"reset", "setActive"}
    BY CallIs DEF IInv, Read, Is
  <1>2. CASE Manages(w)
    <2>1. user[w.name] \in User
      BY <1>2 DEF IInv, TypeOK, Manages, Rows
    <2>2. saving \in Call
      BY <1>1, <2>1 DEF Call
    <2>3. Ground(saving)
      BY <1>1, <1>2, <2>1 DEF Ground
    <2>4. Holds(saving)
      BY <2>2, <2>3 DEF Holds
    <2>5. QED
      BY <1>2, <2>4, CallsGoOn DEF Read, Goes
  <1>3. CASE ~Manages(w)
    <2>1. Holds(refused)
      BY <1>1 DEF Holds, Call
    <2>2. QED
      BY <1>3, <2>1, CallsGoOn DEF Read, Done, Goes
  <1>4. QED
    BY <1>2, <1>3

LEMMA FailsOK == ASSUME IInv, NEW c \in Callers, Fails(c) PROVE IInv'
  BY IdleHolds, CallsGoOn DEF Fails, Goes

LEMMA ReturnOK == ASSUME IInv, NEW c \in Callers, Return(c) PROVE IInv'
  BY IdleHolds, CallsGoOn DEF Return, Goes

(* A name that is found is meant by what was typed; one that is meant and   *)
(* not found has a letter that SQLite does not lower.                      *)
LEMMA FoundAreMeant ==
    ASSUME NEW typed \in Names
    PROVE  /\ \A n \in Found(typed) : n \in Rows /\ Lower[n] = Lower[typed]
           /\ \A n \in Rows : Lower[n] = Lower[typed] /\ n \notin Found(typed)
                                => LowerSql[n] # Lower[n]
  BY LowerIsLower DEF Found, Rows

LEMMA LoginOK == ASSUME IInv, NEW c \in Callers, Login(c) PROVE IInv'
  <1> DEFINE w == call[c].wish
             answered(a) == [phase |-> "done", wish |-> w, answer |-> a, owners |-> Owners(w)]
  <1>1. w \in Wish /\ w.op = "login" /\ w.name \in Names
    BY CallIs DEF IInv, Login, Is
  <1>2. Owners(w) \subseteq Rows /\ \A n \in Owners(w) : Lower[n] = Lower[w.name]
    BY DEF Owners
  <1>3. CASE Found(w.name) = {}
    <2>1. answered("refused") \in Call
      BY <1>1, <1>2 DEF Call, Rows
    <2>2. Holds(answered("refused"))
      BY <1>1, <1>2, <1>3, <2>1, FoundAreMeant DEF Holds
    <2>3. QED
      BY <1>3, <2>2, CallsGoOn DEF Login, Done, Goes
  <1>4. CASE Found(w.name) # {}
    <2>1. PICK n \in Found(w.name) :
              call' = [call EXCEPT ![c] =
                          answered(IF Welcome(n, w.password) THEN n ELSE "refused")]
      BY <1>4 DEF Login, Done, Goes
    <2>2. n \in Rows /\ n \in Names /\ Lower[n] = Lower[w.name]
      BY <1>1, FoundAreMeant DEF Rows
    <2>3. CASE Welcome(n, w.password)
      <3>1. n \in Owners(w) /\ n # "refused"
        BY <2>2, <2>3, AnswersAreNoNames DEF Owners, Welcome
      <3>2. answered(n) \in Call
        BY <1>1, <1>2, <2>2 DEF Call, Rows
      <3>3. Holds(answered(n))
        BY <1>1, <3>1, <3>2 DEF Holds
      <3>4. QED
        BY <2>1, <2>3, <3>3, CallsGoOn DEF Login
    <2>4. CASE ~Welcome(n, w.password)
      <3>1. answered("refused") \in Call
        BY <1>1, <1>2 DEF Call, Rows
      <3>2. n \notin Owners(w)
        BY <2>4 DEF Owners, Welcome
      <3>3. Holds(answered("refused"))
        BY <1>1, <1>2, <2>2, <3>1, <3>2 DEF Holds
      <3>4. QED
        BY <2>1, <2>4, <3>3, CallsGoOn DEF Login
    <2>5. QED
      BY <2>3, <2>4
  <1>5. QED
    BY <1>3, <1>4

(* What a save that adds a row, or changes columns of one, leaves.         *)
LEMMA SaveOK == ASSUME IInv, NEW c \in Callers, Save(c) PROVE IInv'
  <1> DEFINE w == call[c].wish
             k == [phase |-> "done", wish |-> w, answer |-> "ok", owners |-> {}]
             row == Saved(w, call[c].read, user[w.name])
  <1>1. /\ call[c] \in Call /\ call[c].phase = "save" /\ Ground(call[c])
        /\ w \in Wish /\ w.name \in Names
        /\ user[w.name] \in User \cup {None}
    BY CallIs DEF IInv, CallsHold, Save, TypeOK
  <1>2. call' = [call EXCEPT ![c] = k] /\ k \in Call
    BY <1>1 DEF Save, Done, Goes, Call
  <1>3. \A d \in Callers : call'[d] = IF d = c THEN k ELSE call[d]
    BY <1>2 DEF IInv, TypeOK
  <1>4. /\ row \in User
        /\ w.op = "create" => w.name \notin Rows /\ user[w.name] = None
        /\ w.op # "create" => /\ w.name \in Rows
                              /\ row.role = user[w.name].role
                              /\ row.role = w.role /\ w.role \in Roles
    <2>1. CASE w.op = "create"
      <3>1. w.role \in Roles /\ w.password \in Passwords
        BY <1>1, <2>1 DEF Wish
      <3>2. QED
        BY <1>1, <2>1, <3>1 DEF Saved, User, Save, Rows
    <2>2. CASE w.op # "create"
      <3>1. /\ w.op \in {"reset", "setActive"}
            /\ w.name \in Rows /\ user[w.name] \in User /\ user[w.name].role = w.role
            /\ w.role \in Roles
        BY <1>1, <2>2 DEF Ground, Manages, Rows, Wish
      <3>2. CASE w.op = "reset"
        <4>1. w.password \in Passwords
          BY <1>1, <3>2 DEF Wish
        <4>2. QED
          BY <3>1, <3>2, <4>1 DEF Saved, User
      <3>3. CASE w.op = "setActive"
        <4>1. w.active \in BOOLEAN
          BY <1>1, <3>3 DEF Wish
        <4>2. QED
          BY <3>1, <3>3, <4>1 DEF Saved, User
      <3>4. QED
        BY <3>1, <3>2, <3>3
    <2>3. QED
      BY <2>1, <2>2
  <1>5. /\ user' = [user EXCEPT ![w.name] = row]
        /\ seen' = IF w.op = "create" THEN [seen EXCEPT ![w.name] = call[c].saw] ELSE seen
        /\ serving' = serving
    BY DEF Save
  <1> HIDE DEF row
  <1>6. row # None /\ Rows' = Rows \cup {w.name} /\ RowsKept
    <2>1. row # None
      BY <1>4, NoneIsNoUser
    <2>2. Rows' = Rows \cup {w.name}
      BY <1>1, <1>5, <2>1 DEF IInv, TypeOK, Rows
    <2>3. QED
      BY <1>1, <1>4, <1>5, <2>1, <2>2 DEF IInv, TypeOK, RowsKept, Rows
  <1>7. w.op = "create" => call[c].saw \subseteq Rows
    BY <1>1 DEF Ground
  <1>8. TypeOK'
    BY <1>1, <1>2, <1>4, <1>5, <1>7 DEF IInv, TypeOK, Rows
  <1>9. CallsHold'
    BY <1>3, <1>6, GroundKept DEF IInv, CallsHold
  <1>10. SeenAreRows'
    BY <1>1, <1>5, <1>6, <1>7 DEF IInv, TypeOK, SeenAreRows
  <1>11. AdministrationAnswers'
    BY <1>3 DEF IInv, AdministrationAnswers
  <1>12. TwinsOverlap'
    <2> SUFFICES ASSUME NEW m \in Rows', NEW n \in Rows',
                        m # n, Lower[m] = Lower[n], m \in seen'[n]
                 PROVE  LowerSql[m] # Lower[m]
      BY DEF TwinsOverlap
    <2>1. CASE w.op = "create" /\ n = w.name
      <3>1. m \in call[c].saw
        BY <1>1, <1>5, <2>1 DEF IInv, TypeOK
      <3>2. QED
        BY <1>1, <2>1, <3>1 DEF Ground
    <2>2. CASE ~(w.op = "create" /\ n = w.name)
      <3>1. n \in Rows /\ n \in Names /\ m \in seen[n]
        BY <1>1, <1>4, <1>5, <1>6, <2>2 DEF IInv, TypeOK, Rows
      <3>2. m \in Rows
        BY <3>1 DEF IInv, SeenAreRows
      <3>3. QED
        BY <3>1, <3>2 DEF IInv, TwinsOverlap
    <2>3. QED
      BY <2>1, <2>2
  <1>13. OwnerSignsIn'
    <2>1. w.op # "login"
      BY <1>1 DEF Ground
    <2>2. QED
      BY <1>3, <1>6, <2>1 DEF IInv, OwnerSignsIn, Is
  <1>14. AdminStands'
    <2>1. AdminName \in Rows /\ user[AdminName].role = "Administrator"
      <3>1. Admin \in User
        BY AdminIsGiven DEF Admin, User
      <3>2. QED
        BY <3>1, AdminIsGiven, NoneIsNoUser DEF IInv, AdminStands, Rows, Admin
    <2>2. w.name # AdminName
      BY <1>4, <2>1, AdminIsGiven
    <2>3. QED
      BY <1>1, <1>5, <2>2, AdminIsGiven DEF IInv, AdminStands, TypeOK
  <1>15. QED
    BY <1>8, <1>9, <1>10, <1>11, <1>12, <1>13, <1>14 DEF IInv

LEMMA RestartOK == ASSUME IInv, Restart PROVE IInv'
  <1>1. \A c \in Callers : call'[c] = Idle
    BY DEF Restart
  <1>2. Rows' = Rows /\ UNCHANGED <<user, seen>>
    BY DEF Restart, Rows
  <1>3. TypeOK'
    BY DEF IInv, TypeOK, Restart, Call, Taken
  <1>4. CallsHold' /\ AdministrationAnswers' /\ OwnerSignsIn'
    BY <1>1 DEF CallsHold, AdministrationAnswers, OwnerSignsIn, Is, Idle
  <1>5. SeenAreRows' /\ TwinsOverlap'
    BY <1>2 DEF IInv, SeenAreRows, TwinsOverlap
  <1>6. AdminStands'
    <2>1. Admin \in User
      BY AdminIsGiven DEF Admin, User
    <2>2. AdminName \in Rows
      BY <2>1, AdminIsGiven, NoneIsNoUser DEF IInv, AdminStands, Rows
    <2>3. QED
      BY <2>2 DEF IInv, AdminStands, Restart, Taken, Found
  <1>7. QED
    BY <1>3, <1>4, <1>5, <1>6 DEF IInv

LEMMA StutterOK == ASSUME IInv, UNCHANGED vars PROVE IInv'
  <1>1. Rows' = Rows /\ UNCHANGED <<user, seen, serving, call>>
    BY DEF vars, Rows
  <1>2. TypeOK' /\ SeenAreRows' /\ AdministrationAnswers' /\ TwinsOverlap' /\ AdminStands'
    BY <1>1 DEF IInv, TypeOK, SeenAreRows, AdministrationAnswers, TwinsOverlap, AdminStands
  <1>3. CallsHold' /\ OwnerSignsIn'
    BY <1>1 DEF IInv, CallsHold, Ground, Manages, OwnerSignsIn, Is
  <1>4. QED
    BY <1>2, <1>3 DEF IInv

LEMMA NextOK == ASSUME IInv, [Next]_vars PROVE IInv'
  BY CallsOK, CheckOK, ReadOK, SaveOK, FailsOK, LoginOK, ReturnOK, RestartOK, StutterOK DEF Next

(* The inductive invariant: what holds of the table holds together with     *)
(* the ground of every call that waits for its save.                       *)
THEOREM Invariance == Spec => []IInv
  BY InitOK, NextOK, PTL DEF Spec

(* Every variable keeps its type.                                          *)
THEOREM TypeCorrect == Spec => []TypeOK
  <1>1. IInv => TypeOK
    BY DEF IInv
  <1>2. QED
    BY <1>1, Invariance, PTL

(* Twin names only come from creations that overlapped, or from a letter    *)
(* that SQLite does not lower (CreateAsync).                                *)
THEOREM Twins == Spec => []TwinsOverlap
  <1>1. IInv => TwinsOverlap
    BY DEF IInv
  <1>2. QED
    BY <1>1, Invariance, PTL

(* A login lets in whom the name means, and refuses the owner of name and   *)
(* password for the two reasons only (Login's OnPostAsync).                 *)
THEOREM OwnersSignIn == Spec => []OwnerSignsIn
  <1>1. IInv => OwnerSignsIn
    BY DEF IInv
  <1>2. QED
    BY <1>1, Invariance, PTL

(* No call of the administration pages touches the seeded administrator,    *)
(* and every later start finds it (EnsureAdminSeededAsync).                 *)
THEOREM Administrator == Spec => []AdminStands
  <1>1. IInv => AdminStands
    BY DEF IInv
  <1>2. QED
    BY <1>1, Invariance, PTL

(*************************** Users implements Accounts *********************)
(* What the callers of Accounts wait for.                                  *)
P == [c \in Callers |-> PendingOf(call[c])]

Abstract == A!AccountsNext \/ UNCHANGED A!accountsVars

LEMMA PendingIs ==
    ASSUME NEW k
    PROVE  /\ k.phase = "idle" => PendingOf(k) = [phase |-> "idle"]
           /\ k.phase # "idle" /\ k.wish.op = "login" => PendingOf(k) = [phase |-> "idle"]
           /\ k.phase = "called" /\ k.wish.op # "login"
                 => PendingOf(k) = [phase |-> "called", wish |-> k.wish]
           /\ k.phase = "save" /\ k.wish.op # "login" /\ ~Settled(k)
                 => PendingOf(k) = [phase |-> "called", wish |-> k.wish]
           /\ k.phase = "save" /\ k.wish.op # "login" /\ Settled(k)
                 => PendingOf(k) = [phase |-> "done", wish |-> k.wish, answer |-> "ok"]
           /\ k.phase = "done" /\ k.wish.op # "login"
                 => PendingOf(k) = [phase |-> "done", wish |-> k.wish, answer |-> k.answer]
  BY DEF PendingOf

LEMMA PendingNext ==
    ASSUME TypeOK, NEW c \in Callers, NEW k, call' = [call EXCEPT ![c] = k]
    PROVE  P' = [P EXCEPT ![c] = PendingOf(k)]
  <1>1. \A d \in Callers : call'[d] = IF d = c THEN k ELSE call[d]
    BY DEF TypeOK
  <1>2. P' = [d \in Callers |-> PendingOf(call'[d])]
    BY DEF P, PendingOf, Settled
  <1>3. \A d \in Callers : PendingOf(call'[d]) = IF d = c THEN PendingOf(k) ELSE PendingOf(call[d])
    BY <1>1
  <1>4. P = [d \in Callers |-> PendingOf(call[d])]
    BY DEF P
  <1>5. QED
    BY <1>2, <1>3, <1>4

(* The actions of Accounts, on the table and on what the callers wait for. *)
LEMMA AbstractIs ==
    ASSUME NEW c \in Callers,
           \/ \E wish \in Wish :
                 /\ wish.op # "login"
                 /\ P[c] = [phase |-> "idle"]
                 /\ P' = [P EXCEPT ![c] = [phase |-> "called", wish |-> wish]]
                 /\ user' = user
           \/ /\ P[c].phase = "called"
              /\ A!MayBeGranted(user[P[c].wish.name], P[c].wish)
              /\ user' = [user EXCEPT ![P[c].wish.name] = A!Granted(user[P[c].wish.name], P[c].wish)]
              /\ P' = [P EXCEPT ![c] = [phase |-> "done", wish |-> P[c].wish, answer |-> "ok"]]
           \/ /\ P[c].phase = "called"
              /\ P[c].wish.op # "create" => ~A!MayBeGranted(user[P[c].wish.name], P[c].wish)
              /\ P' = [P EXCEPT ![c] = [phase |-> "done", wish |-> P[c].wish, answer |-> "refused"]]
              /\ user' = user
           \/ /\ P[c].phase \in {"called", "done"}
              /\ P' = [P EXCEPT ![c] = [phase |-> "idle"]]
              /\ user' = user
           \/ P' = P /\ user' = user
    PROVE  Abstract
  BY DEF Abstract, P, A!AccountsNext, A!Call, A!Grant, A!Refuse, A!Fail, A!Return, A!Asked,
     A!Answered, A!Nobody, A!accountsVars

LEMMA CallsImplement ==
    ASSUME IInv, NEW c \in Callers, NEW wish \in Wish, Calls(c, wish)
    PROVE  Abstract
  <1> DEFINE k == [phase |-> "called", wish |-> wish]
  <1>1. /\ call[c].phase = "idle" /\ P[c] = [phase |-> "idle"]
        /\ P' = [P EXCEPT ![c] = PendingOf(k)] /\ user' = user
    <2>1. call[c].phase = "idle" /\ call' = [call EXCEPT ![c] = k] /\ user' = user
      BY DEF Calls, Goes, Idle
    <2>2. P' = [P EXCEPT ![c] = PendingOf(k)]
      BY <2>1, PendingNext DEF IInv
    <2>3. P[c] = PendingOf(call[c])
      BY DEF P
    <2>4. QED
      BY <2>1, <2>2, <2>3, PendingIs
  <1>2. CASE wish.op = "login"
    <2>1. PendingOf(k) = [phase |-> "idle"]
      BY <1>2, PendingIs
    <2>2. P' = P
      BY <1>1, <2>1 DEF P
    <2>3. QED
      BY <1>1, <2>2, AbstractIs
  <1>3. CASE wish.op # "login"
    <2>1. PendingOf(k) = [phase |-> "called", wish |-> wish]
      BY <1>3, PendingIs
    <2>2. QED
      BY <1>1, <1>3, <2>1, AbstractIs
  <1>4. QED
    BY <1>2, <1>3

LEMMA GrantSteps ==
    ASSUME NEW c \in Callers, NEW wish, P[c] = [phase |-> "called", wish |-> wish],
           A!MayBeGranted(user[wish.name], wish),
           user' = [user EXCEPT ![wish.name] = A!Granted(user[wish.name], wish)],
           P' = [P EXCEPT ![c] = [phase |-> "done", wish |-> wish, answer |-> "ok"]]
    PROVE  Abstract
  <1>1. P[c].phase = "called" /\ P[c].wish = wish
    OBVIOUS
  <1>2. QED
    BY <1>1, AbstractIs

LEMMA RefuseSteps ==
    ASSUME NEW c \in Callers, NEW wish, P[c] = [phase |-> "called", wish |-> wish],
           wish.op # "create" => ~A!MayBeGranted(user[wish.name], wish),
           user' = user,
           P' = [P EXCEPT ![c] = [phase |-> "done", wish |-> wish, answer |-> "refused"]]
    PROVE  Abstract
  <1>1. P[c].phase = "called" /\ P[c].wish = wish
    OBVIOUS
  <1>2. QED
    BY <1>1, AbstractIs

(* A step of one call that leaves the table alone.                         *)
LEMMA CallSteps ==
    ASSUME IInv, NEW c \in Callers, NEW k, call' = [call EXCEPT ![c] = k]
    PROVE  P[c] = PendingOf(call[c]) /\ P' = [P EXCEPT ![c] = PendingOf(k)]
  BY PendingNext DEF IInv, P

LEMMA SameSteps ==
    ASSUME NEW c \in Callers, NEW p, P[c] = p, P' = [P EXCEPT ![c] = p], user' = user
    PROVE  Abstract
  <1>1. P' = P
    BY DEF P
  <1>2. QED
    BY <1>1, AbstractIs

LEMMA CheckImplements ==
    ASSUME IInv, NEW c \in Callers, Check(c)
    PROVE  Abstract
  <1> DEFINE w == call[c].wish
             refused == [phase |-> "done", wish |-> w, answer |-> "refused", owners |-> {}]
             saving == [phase |-> "save", wish |-> w, read |-> None, saw |-> Rows]
  <1>1. /\ w.op = "create" /\ call[c].phase = "called" /\ user' = user
        /\ call' = [call EXCEPT ![c] = IF Taken(w.name) THEN refused ELSE saving]
    BY DEF Check, Is, Done, Goes
  <1>2. P[c] = [phase |-> "called", wish |-> w]
    BY <1>1, CallSteps, PendingIs
  <1>3. CASE Taken(w.name)
    <2>1. P' = [P EXCEPT ![c] = PendingOf(refused)]
      BY <1>1, <1>3, CallSteps
    <2>2. PendingOf(refused) = [phase |-> "done", wish |-> w, answer |-> "refused"]
      BY <1>1, PendingIs
    <2>3. QED
      BY <1>1, <1>2, <2>1, <2>2, RefuseSteps
  <1>4. CASE ~Taken(w.name)
    <2>1. P' = [P EXCEPT ![c] = PendingOf(saving)]
      BY <1>1, <1>4, CallSteps
    <2>2. PendingOf(saving) = [phase |-> "called", wish |-> w]
      BY <1>1, PendingIs DEF Settled
    <2>3. QED
      BY <1>1, <1>2, <2>1, <2>2, SameSteps
  <1>5. QED
    BY <1>3, <1>4

LEMMA ReadImplements ==
    ASSUME IInv, NEW c \in Callers, Read(c)
    PROVE  Abstract
  <1> DEFINE w == call[c].wish
             old == user[w.name]
             refused == [phase |-> "done", wish |-> w, answer |-> "refused", owners |-> {}]
             saving == [phase |-> "save", wish |-> w, read |-> old, saw |-> {}]
  <1>1. /\ w.op \in {"reset", "setActive"} /\ call[c].phase = "called" /\ user' = user
        /\ call' = [call EXCEPT ![c] = IF Manages(w) THEN saving ELSE refused]
    BY DEF Read, Is, Done, Goes
  <1>2. w.name \in Names
    BY <1>1, CallIs DEF IInv
  <1>3. P[c] = [phase |-> "called", wish |-> w]
    BY <1>1, CallSteps, PendingIs
  <1>4. Manages(w) <=> A!MayBeGranted(old, w)
    BY <1>1, <1>2 DEF Manages, Rows, A!MayBeGranted
  <1>5. CASE ~Manages(w)
    <2>1. P' = [P EXCEPT ![c] = PendingOf(refused)]
      BY <1>1, <1>5, CallSteps
    <2>2. PendingOf(refused) = [phase |-> "done", wish |-> w, answer |-> "refused"]
      BY <1>1, PendingIs
    <2>3. QED
      BY <1>1, <1>3, <1>4, <1>5, <2>1, <2>2, RefuseSteps
  <1>6. CASE Manages(w)
    <2>1. P' = [P EXCEPT ![c] = PendingOf(saving)]
      BY <1>1, <1>6, CallSteps
    <2>2. CASE Settled(saving)
      <3>1. PendingOf(saving) = [phase |-> "done", wish |-> w, answer |-> "ok"]
        BY <1>1, <2>2, PendingIs
      <3>2. w.op = "setActive" /\ w.active = old.active
        BY <2>2 DEF Settled
      <3>3. A!Granted(old, w) = old
        <4>1. old \in User
          BY <1>6 DEF IInv, TypeOK, Manages, Rows
        <4>2. QED
          BY <3>2, <4>1 DEF A!Granted, User
      <3>4. user' = [user EXCEPT ![w.name] = A!Granted(old, w)]
        BY <1>1, <1>2, <3>3 DEF IInv, TypeOK
      <3>5. QED
        BY <1>1, <1>3, <1>4, <1>6, <2>1, <3>1, <3>4, GrantSteps
    <2>3. CASE ~Settled(saving)
      <3>1. PendingOf(saving) = [phase |-> "called", wish |-> w]
        BY <1>1, <2>3, PendingIs
      <3>2. QED
        BY <1>1, <1>3, <2>1, <3>1, SameSteps
    <2>4. QED
      BY <2>2, <2>3
  <1>7. QED
    BY <1>5, <1>6

LEMMA SaveImplements ==
    ASSUME IInv, NEW c \in Callers, Save(c)
    PROVE  Abstract
  <1> DEFINE w == call[c].wish
             old == user[w.name]
             k == [phase |-> "done", wish |-> w, answer |-> "ok", owners |-> {}]
  <1>1. /\ call[c].phase = "save" /\ Ground(call[c])
        /\ w.op \in {"create", "reset", "setActive"} /\ w.name \in Names
        /\ w.op = "create" => w.name \notin Rows
        /\ user' = [user EXCEPT ![w.name] = Saved(w, call[c].read, old)]
        /\ call' = [call EXCEPT ![c] = k]
    BY CallIs DEF IInv, CallsHold, Save, Done, Goes, Ground
  <1>2. /\ P' = [P EXCEPT ![c] = PendingOf(k)]
        /\ PendingOf(k) = [phase |-> "done", wish |-> w, answer |-> "ok"]
        /\ P[c] = PendingOf(call[c])
    BY <1>1, CallSteps, PendingIs
  <1>3. CASE Settled(call[c])
    <2>1. P[c] = [phase |-> "done", wish |-> w, answer |-> "ok"]
      BY <1>1, <1>2, <1>3, PendingIs
    <2>2. Saved(w, call[c].read, old) = old
      BY <1>3 DEF Saved, Settled
    <2>3. user' = user
      BY <1>1, <2>2 DEF IInv, TypeOK
    <2>4. QED
      BY <1>2, <2>1, <2>3, SameSteps
  <1>4. CASE ~Settled(call[c])
    <2>1. P[c] = [phase |-> "called", wish |-> w]
      BY <1>1, <1>2, <1>4, PendingIs
    <2>2. Saved(w, call[c].read, old) = A!Granted(old, w)
      BY <1>1, <1>4 DEF Saved, Settled, A!Granted
    <2>3. A!MayBeGranted(old, w)
      BY <1>1 DEF Ground, Manages, Rows, A!MayBeGranted
    <2>4. user' = [user EXCEPT ![w.name] = A!Granted(old, w)]
      BY <1>1, <2>2
    <2>5. QED
      BY <1>2, <2>1, <2>3, <2>4, GrantSteps
  <1>5. QED
    BY <1>3, <1>4

LEMMA EndsImplement ==
    ASSUME IInv, NEW c \in Callers, Fails(c) \/ Return(c)
    PROVE  Abstract
  <1>1. /\ call[c].phase \in {"called", "save", "done"} /\ user' = user
        /\ call' = [call EXCEPT ![c] = Idle]
    BY DEF Fails, Return, Goes
  <1>2. P' = [P EXCEPT ![c] = [phase |-> "idle"]] /\ P[c] = PendingOf(call[c])
    <2>1. PendingOf(Idle) = [phase |-> "idle"]
      BY PendingIs DEF Idle
    <2>2. QED
      BY <1>1, <2>1, CallSteps
  <1>3. CASE call[c].wish.op = "login"
    <2>1. P[c] = [phase |-> "idle"]
      BY <1>1, <1>2, <1>3, PendingIs
    <2>2. QED
      BY <1>1, <1>2, <2>1, SameSteps
  <1>4. CASE call[c].wish.op # "login"
    <2>1. P[c].phase \in {"called", "done"}
      BY <1>1, <1>2, <1>4, PendingIs
    <2>2. QED
      BY <1>1, <1>2, <2>1, AbstractIs
  <1>5. QED
    BY <1>3, <1>4

LEMMA LoginImplements ==
    ASSUME IInv, NEW c \in Callers, Login(c)
    PROVE  Abstract
  <1>1. PICK a : /\ call' = [call EXCEPT ![c] = [phase |-> "done", wish |-> call[c].wish,
                                                answer |-> a, owners |-> Owners(call[c].wish)]]
                 /\ call[c].phase = "called" /\ call[c].wish.op = "login" /\ user' = user
    BY DEF Login, Is, Done, Goes
  <1> DEFINE k == [phase |-> "done", wish |-> call[c].wish, answer |-> a,
                   owners |-> Owners(call[c].wish)]
  <1>2. PendingOf(k) = [phase |-> "idle"] /\ PendingOf(call[c]) = [phase |-> "idle"]
    BY <1>1, PendingIs
  <1>3. P[c] = PendingOf(call[c]) /\ P' = [P EXCEPT ![c] = PendingOf(k)]
    BY <1>1, CallSteps
  <1>4. QED
    BY <1>1, <1>2, <1>3, SameSteps

LEMMA RestartImplements == ASSUME Restart PROVE Abstract
  <1>1. P' = [c \in Callers |-> [phase |-> "idle"]] /\ user' = user
    BY DEF Restart, P, PendingOf, Idle
  <1>2. QED
    BY <1>1 DEF Abstract, P, A!AccountsNext, A!Restart, A!Nobody

LEMMA NextImplements ==
    ASSUME IInv, [Next]_vars
    PROVE  [A!AccountsNext]_A!accountsVars
  <1>1. UNCHANGED vars => UNCHANGED A!accountsVars
    BY DEF vars, A!accountsVars, PendingOf, Settled
  <1>2. Next => Abstract
    BY CallsImplement, CheckImplements, ReadImplements, SaveImplements, EndsImplement,
       LoginImplements, RestartImplements DEF Next
  <1>3. QED
    BY <1>1, <1>2 DEF Abstract

LEMMA InitImplements == ASSUME Init PROVE A!AccountsInit
  BY DEF Init, A!AccountsInit, A!Nobody, PendingOf, Idle

(* The calls of UserAdminService, which read, hash and save in their own    *)
(* time, are those of the atomic administration: each takes effect at once  *)
(* between its call and its answer, or not at all.                         *)
THEOREM Atomic == Spec => Administered
  <1>1. Init => A!AccountsInit
    BY InitImplements
  <1>2. IInv /\ [Next]_vars => [A!AccountsNext]_A!accountsVars
    BY NextImplements
  <1>3. QED
    BY <1>1, <1>2, Invariance, PTL DEF Spec, Administered, A!AccountsSpec
=============================================================================
