-------------------------------- MODULE Users --------------------------------
(****************************************************************************)
(* Users: the administrator who is seeded when the process starts, the      *)
(* calls of UserAdminService by which administrators create, disable and    *)
(* enable salespeople and suppliers and reset their passwords, and the      *)
(* login.  Calls overlap: each reads in its own DbContext, hashes, and      *)
(* saves the columns it changed.                                            *)
(*                                                                          *)
(* Names are compared ignoring case in two ways that differ: the program    *)
(* lowers what was typed with .NET's ToLower, and the query lowers the      *)
(* stored name with SQLite's lower(), which knows the letters of ASCII      *)
(* only.  The unique index on UserName compares names as they are, so that  *)
(* a name stands for its row: users are never renamed nor deleted.          *)
(****************************************************************************)

CONSTANTS
    Callers,        \* requests that may be under way together
    Names,
    Lower,          \* string.ToLower
    LowerSql,       \* lower()
    Roles,          \* what the pages Sales and Suppliers create
    Passwords,
    AdminName,      \* Seed:AdminUserName
    AdminPassword,  \* Seed:AdminPassword
    None

ASSUME LowerIsLower ==
    /\ Lower \in [Names -> Names] /\ LowerSql \in [Names -> Names]
    /\ \A n \in Names : Lower[LowerSql[n]] = Lower[n] /\ Lower[Lower[n]] = Lower[n]
ASSUME AdminIsGiven ==
    AdminName \in Names /\ AdminPassword \in Passwords /\ "Administrator" \notin Roles

User == [role : Roles \cup {"Administrator"}, active : BOOLEAN, password : Passwords]

ASSUME NoneIsNoUser == None \notin User
ASSUME AnswersAreNoNames == "ok" \notin Names /\ "refused" \notin Names

VARIABLES
    user,       \* the table Users, by name
    seen,       \* names there were when a user's own name was checked (history)
    serving,    \* the process has started
    call        \* what each request is doing

vars == <<user, seen, serving, call>>

Wish == [op : {"create", "reset"}, name : Names, role : Roles, password : Passwords]
            \cup [op : {"setActive"}, name : Names, role : Roles, active : BOOLEAN]
            \cup [op : {"login"}, name : Names, password : Passwords]

Idle == [phase |-> "idle"]

(* A call before its query, before its save, and answered.  owners: the    *)
(* active users whom a login could mean (history).                         *)
Call ==
    {Idle} \cup [phase : {"called"}, wish : Wish]
           \cup [phase : {"save"}, wish : Wish, read : User \cup {None}, saw : SUBSET Names]
           \cup [phase : {"done"}, wish : Wish, answer : {"ok", "refused"} \cup Names,
                 owners : SUBSET Names]

TypeOK ==
    /\ user \in [Names -> User \cup {None}]
    /\ seen \in [Names -> SUBSET Names]
    /\ serving \in BOOLEAN
    /\ call \in [Callers -> Call]

Rows == {n \in Names : user[n] # None}

(* What the query finds for a name that was typed.                         *)
Found(typed) == {n \in Rows : LowerSql[n] = Lower[typed]}

Admin == [role |-> "Administrator", active |-> TRUE, password |-> AdminPassword]

(* The first start, on an empty table.                                     *)
Init ==
    /\ user = [n \in Names |-> IF n = AdminName THEN Admin ELSE None]
    /\ seen = [n \in Names |-> {}]
    /\ serving = TRUE
    /\ call = [c \in Callers |-> Idle]

Is(c, phase, ops) == call[c].phase = phase /\ call[c].wish.op \in ops

Goes(c, next) == call' = [call EXCEPT ![c] = next]

Done(c, answer, owners) ==
    Goes(c, [phase |-> "done", wish |-> call[c].wish, answer |-> answer, owners |-> owners])

Calls(c, wish) ==
    /\ serving
    /\ call[c] = Idle
    /\ Goes(c, [phase |-> "called", wish |-> wish])
    /\ UNCHANGED <<user, seen, serving>>

(****************************** CreateAsync *******************************)
(* Mutant of Taken: names are compared as they are.                        *)
TakenExactly(typed) == typed \in Rows

Taken(typed) == Found(typed) # {}

Check(c) ==
    /\ Is(c, "called", {"create"})
    /\ IF Taken(call[c].wish.name)
       THEN Done(c, "refused", {})
       ELSE Goes(c, [phase |-> "save", wish |-> call[c].wish, read |-> None, saw |-> Rows])
    /\ UNCHANGED <<user, seen, serving>>

(******************** ResetPasswordAsync, SetActiveAsync ******************)
Manages(wish) == wish.name \in Rows /\ user[wish.name].role = wish.role

Read(c) ==
    /\ Is(c, "called", {"reset", "setActive"})
    /\ IF Manages(call[c].wish)
       THEN Goes(c, [phase |-> "save", wish |-> call[c].wish,
                     read |-> user[call[c].wish.name], saw |-> {}])
       ELSE Done(c, "refused", {})
    /\ UNCHANGED <<user, seen, serving>>

(******************************** The save ********************************)
(* Mutants of Saved: a new user has no hash; the whole row that was read is *)
(* written back.                                                           *)
SavedUnhashed(w, read, now) ==
    CASE w.op = "create" -> [role |-> w.role, active |-> TRUE, password |-> None]
      [] w.op = "reset" -> [now EXCEPT !.password = w.password]
      [] w.op = "setActive" /\ w.active # read.active -> [now EXCEPT !.active = w.active]
      [] OTHER -> now

SavedWhole(w, read, now) ==
    CASE w.op = "create" -> [role |-> w.role, active |-> TRUE, password |-> w.password]
      [] w.op = "reset" -> [read EXCEPT !.password = w.password]
      [] w.op = "setActive" -> [read EXCEPT !.active = w.active]

(* The row after the columns that were changed are written: a hash always  *)
(* changes, IsActive may not.                                              *)
Saved(w, read, now) ==
    CASE w.op = "create" -> [role |-> w.role, active |-> TRUE, password |-> w.password]
      [] w.op = "reset" -> [now EXCEPT !.password = w.password]
      [] w.op = "setActive" /\ w.active # read.active -> [now EXCEPT !.active = w.active]
      [] OTHER -> now

Save(c) ==
    /\ call[c].phase = "save"
    /\ LET w == call[c].wish
       IN  /\ w.op = "create" => w.name \notin Rows
           /\ user' = [user EXCEPT ![w.name] = Saved(w, call[c].read, @)]
           /\ seen' = IF w.op = "create" THEN [seen EXCEPT ![w.name] = call[c].saw] ELSE seen
    /\ Done(c, "ok", {})
    /\ UNCHANGED serving

(* The unique index refuses the name, the database fails, or the client is *)
(* gone.                                                                   *)
Fails(c) ==
    /\ call[c].phase \in {"called", "save"}
    /\ Goes(c, Idle)
    /\ UNCHANGED <<user, seen, serving>>

(********************************* Login **********************************)
(* The users who could be meant by the name, with that password.           *)
Owners(w) == {n \in Rows : Lower[n] = Lower[w.name] /\ user[n].active
                                /\ user[n].password = w.password}

(* Mutant of Welcome: a disabled user is let in.                           *)
WelcomeDisabled(n, password) == user[n].password = password

Welcome(n, password) == user[n].password = password /\ user[n].active

(* One of the rows found, in no particular order.                          *)
Login(c) ==
    /\ Is(c, "called", {"login"})
    /\ LET w == call[c].wish
       IN  \/ /\ Found(w.name) = {}
              /\ Done(c, "refused", Owners(w))
           \/ \E n \in Found(w.name) :
                  Done(c, IF Welcome(n, w.password) THEN n ELSE "refused", Owners(w))
    /\ UNCHANGED <<user, seen, serving>>

Return(c) ==
    /\ call[c].phase = "done"
    /\ Goes(c, Idle)
    /\ UNCHANGED <<user, seen, serving>>

(******************************** The process *****************************)
(* A later start: EnsureAdminSeededAsync, before any request is served.    *)
(* Where it does not find the name it inserts it, and the unique index     *)
(* stops the start.  Mutant: it inserts without looking.                   *)
RestartInserts ==
    /\ serving' = (AdminName \notin Rows)
    /\ call' = [c \in Callers |-> Idle]
    /\ UNCHANGED <<user, seen>>

Restart ==
    /\ serving' = Taken(AdminName)
    /\ call' = [c \in Callers |-> Idle]
    /\ UNCHANGED <<user, seen>>

Next ==
    \/ \E c \in Callers, wish \in Wish : Calls(c, wish)
    \/ \E c \in Callers : Check(c) \/ Read(c) \/ Save(c) \/ Fails(c) \/ Login(c) \/ Return(c)
    \/ Restart

Spec == Init /\ [][Next]_vars

(**************************** What must hold ******************************)
(* Two users whose names differ in case only come from creations that      *)
(* overlapped, so that neither name was there when the other was checked,  *)
(* unless the one that was there has a letter that SQLite does not lower.  *)
TwinsOverlap ==
    \A m, n \in Rows :
        m # n /\ Lower[m] = Lower[n] /\ m \in seen[n] => LowerSql[m] # Lower[m]

(* Whoever signs in is meant by the name typed, active, and has the         *)
(* password; and a user who types name and password is refused for two     *)
(* reasons only: SQLite does not lower the name as the program does, or     *)
(* there is another user whose name differs in case only.                  *)
OwnerSignsIn ==
    \A c \in Callers : Is(c, "done", {"login"}) =>
        LET owners == call[c].owners
        IN  IF call[c].answer = "refused"
            THEN \A n \in owners :
                    \/ LowerSql[n] # Lower[n]
                    \/ \E m \in Rows \ {n} : Lower[m] = Lower[n]
            ELSE call[c].answer \in owners

(* The seeded administrator stays as it was seeded, whatever the pages for *)
(* salespeople and suppliers are asked to do, and every later start finds  *)
(* it, if SQLite lowers its name.                                          *)
AdminStands ==
    /\ user[AdminName] = Admin
    /\ LowerSql[AdminName] = Lower[AdminName] => serving

(* The calls are atomic to who waits for their answers: a reset and a      *)
(* disabling of the same user that overlap do not undo one another.  A     *)
(* SetActive that finds the user as wanted takes effect when it reads, all *)
(* others when they save.                                                  *)
Settled(k) == k.wish.op = "setActive" /\ k.wish.active = k.read.active

PendingOf(k) ==
    IF k.phase = "idle" \/ k.wish.op = "login"
    THEN [phase |-> "idle"]
    ELSE CASE k.phase = "done" -> [phase |-> "done", wish |-> k.wish, answer |-> k.answer]
           [] k.phase = "save" /\ Settled(k) ->
                  [phase |-> "done", wish |-> k.wish, answer |-> "ok"]
           [] OTHER -> [phase |-> "called", wish |-> k.wish]

A == INSTANCE Accounts WITH
        account <- user, pending <- [c \in Callers |-> PendingOf(call[c])],
        First <- [n \in Names |-> IF n = AdminName THEN Admin ELSE None],
        Wishes <- {w \in Wish : w.op # "login"}

Administered == A!AccountsSpec
=============================================================================
