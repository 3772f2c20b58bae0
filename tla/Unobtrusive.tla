----------------------------- MODULE Unobtrusive -----------------------------
(****************************************************************************)
(* Client-side validation of one form: jquery.validate.unobtrusive reads    *)
(* the data-val-* attributes of its text inputs, attaches a validator of    *)
(* jQuery Validate to it, and shows what the validator finds in the         *)
(* containers data-valmsg-for and data-valmsg-summary.                      *)
(*                                                                          *)
(* Two actors: the user, who types, leaves fields, submits and resets, and  *)
(* scripts of the page, which change attributes, parse again, validate and  *)
(* destroy the validator.  Handlers run to their end: an action is an       *)
(* event with all its handlers, or a call.                                  *)
(****************************************************************************)
EXTENDS Adapters

CONSTANTS
    Fields,
    Replacing,      \* fields whose container has data-valmsg-replace=true
    Decorations,    \* attributes that scripts and pages put on a field
    MaxLength       \* bound of a value's length

ASSUME ReplacingAreFields == Replacing \subseteq Fields
ASSUME DecorationsAreAttributes == Decorations \subseteq Attributes
ASSUME MaxLengthIsNat == MaxLength \in Nat

VARIABLES
    attrs,          \* data-val-* of each field, or None without data-val=true
    value,
    rules,          \* options.rules of the form's validationInfo
    asked,          \* the attributes each of them was made from (history)
    validator,      \* $.data(form, "validator"), or None
    promised,       \* asked when the validator in place was made (history)
    enabled,        \* asked when it was last attached (history)
    container,      \* data-valmsg-for of each field
    summary,        \* fields listed in data-valmsg-summary while it shows errors
    verdict,        \* the last judgement on each field since a reset (history)
    resetHandlers,  \* handlers bound to reset.unobtrusiveValidation
    resetting,      \* __jquery_unobtrusive_validation_form_reset
    outcome         \* "sent" or "held" right after a submit (history)

infoVars == <<rules, asked>>
shown == <<container, summary, verdict>>
vars == <<attrs, value, rules, asked, validator, promised, enabled, container, summary, verdict,
          resetHandlers, resetting, outcome>>

Validator == [rules : [Fields -> SUBSET Rule], invalid : SUBSET Fields, submitted : SUBSET Fields]

ASSUME NoneIsNoValidator == None \notin Validator

Container == [marked : BOOLEAN, labels : Nat]

TypeOK ==
    /\ attrs \in [Fields -> Decorations \cup {None}]
    /\ value \in [Fields -> 0..MaxLength]
    /\ rules \in [Fields -> SUBSET Rule]
    /\ asked \in [Fields -> Decorations \cup {None}]
    /\ validator \in Validator \cup {None}
    /\ promised \in [Fields -> Decorations \cup {None}]
    /\ enabled \in [Fields -> Decorations \cup {None}]
    /\ container \in [Fields -> Container]
    /\ summary \subseteq Fields
    /\ verdict \in [Fields -> {"none", "ok", "broken"}]
    /\ resetHandlers \in Nat
    /\ resetting \in BOOLEAN
    /\ outcome \in {"none", "sent", "held"}

Nothing == [f \in Fields |-> None]
NoRules == [f \in Fields |-> {}]
Unmarked == [marked |-> FALSE, labels |-> 0]

Init ==
    /\ attrs \in [Fields -> Decorations \cup {None}]
    /\ value = [f \in Fields |-> 0]
    /\ rules = NoRules
    /\ asked = Nothing
    /\ validator = None
    /\ promised = Nothing /\ enabled = Nothing
    /\ container = [f \in Fields |-> Unmarked]
    /\ summary = {}
    /\ verdict = [f \in Fields |-> "none"]
    /\ resetHandlers = 0
    /\ resetting = FALSE
    /\ outcome = "none"

(******************************* Containers *******************************)
(* Mutant of OnError: the container is not emptied.                        *)
OnErrorAdds(f, c) == [marked |-> TRUE, labels |-> IF f \in Replacing THEN c.labels + 1 ELSE c.labels]

(* The label is moved into an emptied container, or stays outside the page. *)
OnError(f, c) == [marked |-> TRUE, labels |-> IF f \in Replacing THEN 1 ELSE c.labels]

OnSuccess(f, c) == [marked |-> FALSE, labels |-> IF f \in Replacing THEN 0 ELSE c.labels]

(* showLabel never finds an earlier label, which lost its class in OnError: *)
(* also for a success it makes one, places it with OnError and hands it to  *)
(* OnSuccess.  A field in neither list is left alone.                       *)
Shown(f, result) ==
    CASE result = "broken" -> OnError(f, container[f])
      [] result = "ok" -> OnSuccess(f, OnError(f, container[f]))
      [] OTHER -> container[f]

(******************************* Judgements *******************************)
Result(w, f) == Check(w.rules[f], value[f])

WithRules(w) == {f \in Fields : w.rules[f] # {}}

(* defaultShowErrors for the fields F that w has judged.                   *)
Show(w, F) ==
    /\ container' = [f \in Fields |-> IF f \in F THEN Shown(f, Result(w, f)) ELSE container[f]]
    /\ verdict' = [f \in Fields |-> IF f \notin F THEN verdict[f]
                                    ELSE IF Result(w, f) = "broken" THEN "broken" ELSE "ok"]

BrokenFor(w) == {f \in WithRules(w) : Result(w, f) = "broken"}

(* What the summary lists once something was broken.                       *)
OnErrors(broken) == IF broken # {} THEN broken ELSE summary

(* form: every field with rules.                                           *)
Form(w) ==
    /\ validator' = [w EXCEPT !.submitted = w.submitted \cup BrokenFor(w), !.invalid = BrokenFor(w)]
    /\ Show(w, WithRules(w))
    /\ summary' = OnErrors(BrokenFor(w))

(* element: one field; its name is kept in invalid whatever the result.    *)
Element(w, f) ==
    /\ validator' = [w EXCEPT !.submitted = w.submitted \cup ({f} \cap BrokenFor(w)),
                              !.invalid = w.invalid \cup {f}]
    /\ Show(w, {f} \cap WithRules(w))
    /\ UNCHANGED summary

(********************************* Parsing ********************************)
(* parseElement for the fields of F, before the validator is attached.     *)
Parsed(F) ==
    /\ rules' = [f \in Fields |-> IF f \in F THEN RulesOf(attrs[f]) ELSE rules[f]]
    /\ asked' = [f \in Fields |-> IF f \in F THEN attrs[f] ELSE asked[f]]

(* off and on: the proxies of onReset share one guid, so that off removes  *)
(* the one that an earlier validationInfo bound.                           *)
Bound(handlers) == 1

Fresh(r) == [rules |-> r, invalid |-> {}, submitted |-> {}]

(* attachValidation: validate returns a validator that is there already;   *)
(* otherwise it makes one with a deep copy of the options.                 *)
Attach ==
    /\ resetHandlers' = Bound(resetHandlers)
    /\ enabled' = asked'
    /\ IF validator = None
       THEN validator' = Fresh(rules') /\ promised' = asked'
       ELSE UNCHANGED <<validator, promised>>

Decorated == {f \in Fields : attrs[f] # None}

(* parse of a part of the page that holds the fields F, or is inside the   *)
(* form.                                                                   *)
Parse(F) ==
    /\ Decorated # {}
    /\ Parsed(F \cap Decorated)
    /\ Attach
    /\ outcome' = "none"
    /\ UNCHANGED <<attrs, value, container, summary, verdict, resetting>>

ParseElement(f, skipAttach) ==
    /\ f \in Decorated
    /\ Parsed({f})
    /\ IF skipAttach THEN UNCHANGED <<validator, promised, enabled, resetHandlers>> ELSE Attach
    /\ outcome' = "none"
    /\ UNCHANGED <<attrs, value, container, summary, verdict, resetting>>

(* A field is added, removed or changed.                                   *)
Decorate(f, a) ==
    /\ attrs' = [attrs EXCEPT ![f] = a]
    /\ outcome' = "none"
    /\ UNCHANGED <<value, infoVars, validator, promised, enabled, shown, resetHandlers, resetting>>

(* validate of validationInfo: without a validator, it makes one that has   *)
(* no rules.                                                               *)
Validate ==
    /\ resetHandlers > 0 \/ rules # NoRules
    /\ Form(IF validator = None THEN Fresh(NoRules) ELSE validator)
    /\ outcome' = "none"
    /\ UNCHANGED <<attrs, value, infoVars, promised, enabled, resetHandlers, resetting>>

(* destroy of jQuery Validate: the validator's handlers go with it, that    *)
(* of reset and the marks stay.                                            *)
Destroy ==
    /\ validator # None
    /\ validator' = None
    /\ promised' = Nothing /\ enabled' = Nothing
    /\ outcome' = "none"
    /\ UNCHANGED <<attrs, value, infoVars, shown, resetHandlers, resetting>>

(********************************* The user *******************************)
(* Without the keyboard (paste, autofill, a script): no event is handled.  *)
Fill(f, length) ==
    /\ value' = [value EXCEPT ![f] = length]
    /\ outcome' = "none"
    /\ UNCHANGED <<attrs, infoVars, validator, promised, enabled, shown, resetHandlers, resetting>>

(* onkeyup: a field already judged is judged again.                        *)
KeyUp(f) ==
    /\ validator # None
    /\ f \in validator.submitted \cup validator.invalid
    /\ Element(validator, f)
    /\ outcome' = "none"
    /\ UNCHANGED <<attrs, value, infoVars, promised, enabled, resetHandlers, resetting>>

(* onfocusout                                                              *)
Leave(f) ==
    /\ validator # None
    /\ f \in validator.submitted \/ value[f] > 0
    /\ Element(validator, f)
    /\ outcome' = "none"
    /\ UNCHANGED <<attrs, value, infoVars, promised, enabled, resetHandlers, resetting>>

Submit ==
    /\ IF validator = None
       THEN outcome' = "sent" /\ UNCHANGED <<validator, shown>>
       ELSE /\ Form(validator)
            /\ outcome' = IF BrokenFor(validator) = {} THEN "sent" ELSE "held"
    /\ UNCHANGED <<attrs, value, infoVars, promised, enabled, resetHandlers, resetting>>

(* Mutant of AfterThrow: the flag is removed on the normal way out only.   *)
AfterThrowKept == TRUE

(* The flag, after resetForm was called on no validator: finally.          *)
AfterThrow == FALSE

(* The handler, then the browser.  resetForm forgets the judgements, but    *)
(* it does not find the labels: they stay in the containers.               *)
Reset ==
    /\ value' = [f \in Fields |-> 0]
    /\ outcome' = "none"
    /\ IF resetHandlers = 0 \/ resetting
       THEN UNCHANGED <<validator, shown, resetting>>
       ELSE IF validator = None
            THEN resetting' = AfterThrow /\ UNCHANGED <<validator, shown>>
            ELSE /\ validator' = Fresh(validator.rules)
                 /\ container' = [f \in Fields |-> [container[f] EXCEPT !.marked = FALSE]]
                 /\ summary' = {}
                 /\ verdict' = [f \in Fields |-> "none"]
                 /\ resetting' = FALSE
    /\ UNCHANGED <<attrs, infoVars, promised, enabled, resetHandlers>>

User ==
    \/ \E f \in Fields, length \in 0..MaxLength : Fill(f, length)
    \/ \E f \in Fields : KeyUp(f) \/ Leave(f)
    \/ Submit
    \/ Reset

Script ==
    \/ \E F \in SUBSET Fields : Parse(F)
    \/ \E f \in Fields, skipAttach \in BOOLEAN : ParseElement(f, skipAttach)
    \/ \E f \in Fields, a \in Decorations \cup {None} : Decorate(f, a)
    \/ Validate
    \/ Destroy

Next == User \/ Script

Spec == Init /\ [][Next]_vars

(**************************** What must hold ******************************)
(* A field is marked exactly when the last validator that judged it, since *)
(* the form was reset, found it broken: also when it was emptied, parsed   *)
(* again, or judged by another validator in between.                       *)
MarksAreVerdicts == \A f \in Fields : container[f].marked <=> verdict[f] = "broken"

(* A marked field has one message where messages are put, never two; where *)
(* they are not, it has none.                                              *)
OneMessage ==
    \A f \in Fields :
        /\ container[f].labels <= 1
        /\ container[f].marked /\ f \in Replacing => container[f].labels = 1
        /\ f \notin Replacing => container[f].labels = 0

(* However often the form was parsed, one handler answers its reset, and   *)
(* one does whenever the validator in place was attached.                  *)
OneResetHandler == resetHandlers <= 1 /\ (promised # Nothing => resetHandlers = 1)

(* While the form was not parsed again with other attributes, a submit is   *)
(* held exactly when some value does not meet the attributes from which    *)
(* the validator was made; without such a validator all is sent.           *)
HeldIffAsked ==
    outcome # "none" /\ enabled = promised =>
        (outcome = "held" <=> \E f \in Fields : promised[f] # None /\ ~Meets(promised[f], value[f]))

(* "parse enables validation according to the data-val-* attribute values": *)
(* not when a validator is there already, which keeps its own rules.       *)
HeldIffParsed ==
    outcome # "none" =>
        (outcome = "held" <=> \E f \in Fields : enabled[f] # None /\ ~Meets(enabled[f], value[f]))

(* A reset leaves nothing marked or listed once a validator was attached,  *)
(* whatever went wrong in earlier resets.                                  *)
ResetClears ==
    [][Reset /\ promised # Nothing
         => summary' = {} /\ \A f \in Fields : ~container'[f].marked]_vars
=============================================================================
