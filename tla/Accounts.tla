------------------------------ MODULE Accounts ------------------------------
(****************************************************************************)
(* What the administration of users promises: every call that is answered   *)
(* took effect at one instant between the call and its answer, on the       *)
(* account it names and on what it is about, and no call that fails, or is  *)
(* never answered, did half of its work.                                    *)
(****************************************************************************)
CONSTANTS
    Callers, Names, None,
    First,      \* the accounts there are at the beginning
    Wishes      \* what a caller may ask for

VARIABLES
    account,    \* of each user name: role, active and password, or None
    pending     \* what each caller waits for

accountsVars == <<account, pending>>

Nobody == [phase |-> "idle"]

AccountsInit ==
    /\ account = First
    /\ pending = [c \in Callers |-> Nobody]

Asked(c) == pending[c].phase = "called"

Answered(c, answer) ==
    pending' = [pending EXCEPT ![c] = [phase |-> "done", wish |-> pending[c].wish,
                                       answer |-> answer]]

Call(c, wish) ==
    /\ pending[c] = Nobody
    /\ pending' = [pending EXCEPT ![c] = [phase |-> "called", wish |-> wish]]
    /\ UNCHANGED account

(* The account after a wish was granted.                                   *)
Granted(old, wish) ==
    CASE wish.op = "create" -> [role |-> wish.role, active |-> TRUE, password |-> wish.password]
      [] wish.op = "reset" -> [old EXCEPT !.password = wish.password]
      [] wish.op = "setActive" -> [old EXCEPT !.active = wish.active]

MayBeGranted(old, wish) ==
    IF wish.op = "create" THEN old = None ELSE old # None /\ old.role = wish.role

Grant(c) ==
    /\ Asked(c)
    /\ LET wish == pending[c].wish
           old == account[wish.name]
       IN  /\ MayBeGranted(old, wish)
           /\ account' = [account EXCEPT ![wish.name] = Granted(old, wish)]
    /\ Answered(c, "ok")

(* A creation may also be refused because of a name like the one it asks    *)
(* for.                                                                    *)
Refuse(c) ==
    /\ Asked(c)
    /\ LET wish == pending[c].wish
       IN  wish.op # "create" => ~MayBeGranted(account[wish.name], wish)
    /\ Answered(c, "refused")
    /\ UNCHANGED account

Fail(c) ==
    /\ Asked(c)
    /\ pending' = [pending EXCEPT ![c] = Nobody]
    /\ UNCHANGED account

Return(c) ==
    /\ pending[c].phase = "done"
    /\ pending' = [pending EXCEPT ![c] = Nobody]
    /\ UNCHANGED account

(* The process dies: nobody is answered any more.                          *)
Restart ==
    /\ pending' = [c \in Callers |-> Nobody]
    /\ UNCHANGED account

AccountsNext ==
    \/ \E c \in Callers : Grant(c) \/ Refuse(c) \/ Fail(c) \/ Return(c)
    \/ \E c \in Callers, wish \in Wishes : Call(c, wish)
    \/ Restart

AccountsSpec == AccountsInit /\ [][AccountsNext]_accountsVars
=============================================================================
