------------------------------ MODULE Adapters -------------------------------
(****************************************************************************)
(* How the data-val-* attributes of a text input become rules of jQuery     *)
(* Validate, and what the rules say of its value.  A value is its length.   *)
(* The adapters modelled are required and length; the others without a      *)
(* pair of bounds give rules of the same two sorts.                         *)
(****************************************************************************)
EXTENDS Integers

CONSTANT None       \* an attribute that is not there

(* data-val-required, data-val-length-min and data-val-length-max; the     *)
(* adapter length runs for data-val-length, with one bound or both or none. *)
Attributes == [required : BOOLEAN, min : Nat \cup {None}, max : Nat \cup {None}]

Rule ==
    [method : {"required", "__dummy__"}, param : {TRUE}]
        \cup [method : {"minlength", "maxlength"}, param : Nat]
        \cup [method : {"rangelength"}, param : Nat \X Nat]

(* setValidationValues                                                     *)
Rules(method, param) == {[method |-> method, param |-> param]}

RequiredRules(a) == IF a.required THEN Rules("required", TRUE) ELSE {}

(* Mutants of MinMaxRules: the rules for one bound are exchanged; both      *)
(* bounds are taken to be there as soon as one is.                         *)
MinMaxRulesExchanged(a) ==
    CASE a.min # None /\ a.max # None -> Rules("rangelength", <<a.min, a.max>>)
      [] a.min # None /\ a.max = None -> Rules("maxlength", a.min)
      [] a.min = None /\ a.max # None -> Rules("minlength", a.max)
      [] OTHER -> {}

MinMaxRulesOfEither(a) ==
    IF a.min # None \/ a.max # None THEN Rules("rangelength", <<a.min, a.max>>) ELSE {}

(* addMinMax, for length.                                                  *)
MinMaxRules(a) ==
    CASE a.min # None /\ a.max # None -> Rules("rangelength", <<a.min, a.max>>)
      [] a.min # None /\ a.max = None -> Rules("minlength", a.min)
      [] a.min = None /\ a.max # None -> Rules("maxlength", a.max)
      [] OTHER -> {}

(* Mutant of RulesOf: no rule is added that holds of everything.           *)
RulesWithoutDummy(a) == RequiredRules(a) \cup MinMaxRules(a)

(* What parseElement collects.                                             *)
RulesOf(a) == RequiredRules(a) \cup MinMaxRules(a) \cup Rules("__dummy__", TRUE)

(* The methods.  All but required and __dummy__ let an empty value pass,   *)
(* with "dependency-mismatch".                                             *)
Breaks(r, length) ==
    \/ r.method = "required" /\ length = 0
    \/ r.method = "minlength" /\ length > 0 /\ length < r.param
    \/ r.method = "maxlength" /\ length > 0 /\ length > r.param
    \/ r.method = "rangelength" /\ length > 0 /\ ~(r.param[1] <= length /\ length <= r.param[2])

Mismatch(r, length) == length = 0 /\ r.method \notin {"required", "__dummy__"}

(* check: a lone rule that was not applied leaves the field out of both    *)
(* the error list and the success list.                                    *)
Check(rules, length) ==
    IF \E r \in rules : Breaks(r, length) THEN "broken"
    ELSE IF \E r \in rules : rules = {r} /\ Mismatch(r, length) THEN "skipped" ELSE "ok"

(* What the attributes ask of a value.                                     *)
Meets(a, length) ==
    /\ a.required => length > 0
    /\ a.min # None => length = 0 \/ length >= a.min
    /\ a.max # None => length <= a.max
=============================================================================
