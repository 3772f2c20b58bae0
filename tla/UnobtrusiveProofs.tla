-------------------------- MODULE UnobtrusiveProofs --------------------------
(****************************************************************************)
(* Of Unobtrusive: the type invariant and every property that its run       *)
(* checks, for any fields, attributes and lengths; and of Adapters, that    *)
(* the rules ask neither more nor less than the attributes.                 *)
(****************************************************************************)
EXTENDS Unobtrusive, TLAPS

(*************************** Attributes and rules *************************)
(* When each rule breaks, and that it is one.                              *)
LEMMA RequiredIs ==
    ASSUME NEW length \in Nat
    PROVE  LET r == [method |-> "required", param |-> TRUE]
           IN  r \in Rule /\ (Breaks(r, length) <=> length = 0)
  BY DEF Rule, Breaks

LEMMA DummyIs ==
    ASSUME NEW length \in Nat
    PROVE  LET r == [method |-> "__dummy__", param |-> TRUE]
           IN  r \in Rule /\ ~Breaks(r, length) /\ ~Mismatch(r, length)
  BY DEF Rule, Breaks, Mismatch

LEMMA MinlengthIs ==
    ASSUME NEW min \in Nat, NEW length \in Nat
    PROVE  LET r == [method |-> "minlength", param |-> min]
           IN  r \in Rule /\ (Breaks(r, length) <=> length > 0 /\ length < min)
  BY DEF Rule, Breaks

LEMMA MaxlengthIs ==
    ASSUME NEW max \in Nat, NEW length \in Nat
    PROVE  LET r == [method |-> "maxlength", param |-> max]
           IN  r \in Rule /\ (Breaks(r, length) <=> length > max)
  BY DEF Rule, Breaks

LEMMA RangelengthIs ==
    ASSUME NEW min \in Nat, NEW max \in Nat, NEW length \in Nat
    PROVE  LET r == [method |-> "rangelength", param |-> <<min, max>>]
           IN  r \in Rule /\ (Breaks(r, length) <=> length > 0 /\ (length < min \/ length > max))
  <1> DEFINE p == <<min, max>>
             r == [method |-> "rangelength", param |-> p]
  <1>1. p \in Nat \X Nat /\ p[1] = min /\ p[2] = max
    OBVIOUS
  <1> HIDE DEF p
  <1>2. r \in [method : {"rangelength"}, param : Nat \X Nat]
    BY <1>1
  <1>3. r.method = "rangelength" /\ r.param = p
    OBVIOUS
  <1> HIDE DEF r
  <1>4. r \in Rule
    BY <1>2 DEF Rule
  <1>5. Breaks(r, length) <=> length > 0 /\ (length < min \/ length > max)
    BY <1>1, <1>3 DEF Breaks
  <1>6. QED
    BY <1>4, <1>5 DEF r, p

(* What addMinMax makes of the bounds.                                     *)
LEMMA MinMaxIs ==
    ASSUME NEW a \in Attributes, NEW length \in Nat
    PROVE  /\ MinMaxRules(a) \in SUBSET Rule
           /\ (\E r \in MinMaxRules(a) : Breaks(r, length))
                 <=> \/ a.min # None /\ length > 0 /\ length < a.min
                     \/ a.max # None /\ length > a.max
  <1>1. a.min \in Nat \cup {None} /\ a.max \in Nat \cup {None}
    BY DEF Attributes
  <1>2. CASE a.min # None /\ a.max # None
    <2>1. MinMaxRules(a) = {[method |-> "rangelength", param |-> <<a.min, a.max>>]}
      BY <1>2 DEF MinMaxRules, Rules
    <2>2. QED
      BY <1>1, <1>2, <2>1, RangelengthIs
  <1>3. CASE a.min # None /\ a.max = None
    <2>1. MinMaxRules(a) = {[method |-> "minlength", param |-> a.min]}
      BY <1>3 DEF MinMaxRules, Rules
    <2>2. QED
      BY <1>1, <1>3, <2>1, MinlengthIs
  <1>4. CASE a.min = None /\ a.max # None
    <2>1. MinMaxRules(a) = {[method |-> "maxlength", param |-> a.max]}
      BY <1>4 DEF MinMaxRules, Rules
    <2>2. QED
      BY <1>1, <1>4, <2>1, MaxlengthIs
  <1>5. CASE a.min = None /\ a.max = None
    BY <1>5 DEF MinMaxRules
  <1>6. QED
    BY <1>2, <1>3, <1>4, <1>5

LEMMA RequiredRulesAre ==
    ASSUME NEW a, NEW length \in Nat
    PROVE  /\ RequiredRules(a) \in SUBSET Rule
           /\ (\E r \in RequiredRules(a) : Breaks(r, length)) <=> (a.required /\ length = 0)
  BY RequiredIs DEF RequiredRules, Rules

LEMMA DummyRulesAre ==
    ASSUME NEW length \in Nat
    PROVE  /\ Rules("__dummy__", TRUE) \in SUBSET Rule
           /\ ~\E r \in Rules("__dummy__", TRUE) : Breaks(r, length)
  BY DummyIs DEF Rules

LEMMA RulesTyped ==
    ASSUME NEW a \in Attributes
    PROVE  RulesOf(a) \in SUBSET Rule
  <1>1. 0 \in Nat
    OBVIOUS
  <1>2. QED
    BY <1>1, MinMaxIs, RequiredRulesAre, DummyRulesAre DEF RulesOf

(* The rules made by addMinMax and the adapter required refuse exactly the *)
(* values outside the bounds, for all bounds and lengths.                  *)
THEOREM RulesExact ==
    ASSUME NEW a \in Attributes, NEW length \in Nat
    PROVE  Check(RulesOf(a), length) = "broken" <=> ~Meets(a, length)
  <1>1. (Check(RulesOf(a), length) = "broken") <=> \E r \in RulesOf(a) : Breaks(r, length)
    BY DEF Check
  <1>2. (\E r \in RulesOf(a) : Breaks(r, length))
           <=> \/ a.required /\ length = 0
               \/ a.min # None /\ length > 0 /\ length < a.min
               \/ a.max # None /\ length > a.max
    BY MinMaxIs, RequiredRulesAre, DummyRulesAre DEF RulesOf
  <1>3. a.min \in Nat \cup {None} /\ a.max \in Nat \cup {None}
    BY DEF Attributes
  <1>4. QED
    BY <1>1, <1>2, <1>3 DEF Meets

(* With the rule __dummy__ no field is left out of both lists.             *)
LEMMA NeverSkipped ==
    ASSUME NEW a \in Attributes, NEW length \in Nat
    PROVE  Check(RulesOf(a), length) \in {"broken", "ok"}
  <1>1. [method |-> "__dummy__", param |-> TRUE] \in RulesOf(a)
    BY DEF RulesOf, Rules
  <1>2. ASSUME NEW r \in RulesOf(a), RulesOf(a) = {r}
        PROVE  ~Mismatch(r, length)
    BY <1>1, <1>2, DummyIs
  <1>3. QED
    BY <1>2 DEF Check

(****************************** The invariant *****************************)
MadeOf(r, a) == \A f \in Fields : r[f] = IF a[f] = None THEN {} ELSE RulesOf(a[f])

(* The options hold the rules of what was parsed last, a validator those of *)
(* what had been parsed when it was attached, and none has promised         *)
(* anything when there is none.                                             *)
RulesAreMadeOf ==
    /\ MadeOf(rules, asked)
    /\ validator # None => MadeOf(validator.rules, promised)
    /\ validator = None => promised = Nothing

IInv ==
    /\ TypeOK
    /\ RulesAreMadeOf
    /\ resetting = FALSE
    /\ MarksAreVerdicts
    /\ OneMessage
    /\ OneResetHandler
    /\ HeldIffAsked

LEMMA ResultIs ==
    ASSUME TypeOK, NEW w, NEW p \in [Fields -> Decorations \cup {None}], MadeOf(w.rules, p),
           NEW f \in WithRules(w)
    PROVE  /\ Result(w, f) \in {"broken", "ok"}
           /\ p[f] # None
           /\ Result(w, f) = "broken" <=> ~Meets(p[f], value[f])
  <1>1. f \in Fields /\ w.rules[f] # {}
    BY DEF WithRules
  <1>2. p[f] # None /\ p[f] \in Attributes /\ w.rules[f] = RulesOf(p[f])
    BY <1>1, DecorationsAreAttributes DEF MadeOf
  <1>3. value[f] \in Nat
    BY <1>1, MaxLengthIsNat DEF TypeOK
  <1>4. QED
    BY <1>2, <1>3, RulesExact, NeverSkipped DEF Result

(* Showing judgements of a validator made from the attributes p keeps marks *)
(* and verdicts together, and one message at most.                         *)
LEMMA ShowOK ==
    ASSUME IInv, NEW w, NEW p \in [Fields -> Decorations \cup {None}], MadeOf(w.rules, p),
           NEW F, F \subseteq WithRules(w), Show(w, F)
    PROVE  /\ container' \in [Fields -> Container]
           /\ verdict' \in [Fields -> {"none", "ok", "broken"}]
           /\ MarksAreVerdicts' /\ OneMessage'
  <1>1. ASSUME NEW f \in Fields
        PROVE  /\ container'[f] \in Container
               /\ verdict'[f] \in {"none", "ok", "broken"}
               /\ container'[f].marked <=> verdict'[f] = "broken"
               /\ container'[f].labels <= 1
               /\ container'[f].marked /\ f \in Replacing => container'[f].labels = 1
               /\ f \notin Replacing => container'[f].labels = 0
    <2>1. container[f] \in Container /\ verdict[f] \in {"none", "ok", "broken"}
      BY DEF IInv, TypeOK
    <2>2. /\ container[f].marked <=> verdict[f] = "broken"
          /\ container[f].labels <= 1
          /\ container[f].marked /\ f \in Replacing => container[f].labels = 1
          /\ f \notin Replacing => container[f].labels = 0
      BY DEF IInv, MarksAreVerdicts, OneMessage
    <2>3. CASE f \notin F
      <3>1. container'[f] = container[f] /\ verdict'[f] = verdict[f]
        BY <2>3 DEF Show
      <3>2. QED
        BY <2>1, <2>2, <3>1
    <2>4. CASE f \in F
      <3>1. Result(w, f) \in {"broken", "ok"}
        BY <2>4, ResultIs DEF IInv
      <3>2. /\ container'[f] = Shown(f, Result(w, f))
            /\ verdict'[f] = IF Result(w, f) = "broken" THEN "broken" ELSE "ok"
        BY <2>4 DEF Show
      <3>3. CASE Result(w, f) = "broken"
        BY <2>1, <2>2, <3>2, <3>3 DEF Shown, OnError, Container
      <3>4. CASE Result(w, f) = "ok"
        BY <2>1, <2>2, <3>2, <3>4 DEF Shown, OnError, OnSuccess, Container
      <3>5. QED
        BY <3>1, <3>3, <3>4
    <2>5. QED
      BY <2>3, <2>4
  <1>2. /\ container' = [f \in Fields |-> container'[f]]
        /\ verdict' = [f \in Fields |-> verdict'[f]]
    BY DEF Show
  <1>3. QED
    BY <1>1, <1>2 DEF MarksAreVerdicts, OneMessage

(* The same of form, which also keeps the type of the validator.           *)
LEMMA FormOK ==
    ASSUME IInv, NEW w \in Validator, NEW p \in [Fields -> Decorations \cup {None}],
           MadeOf(w.rules, p), Form(w)
    PROVE  /\ container' \in [Fields -> Container]
           /\ verdict' \in [Fields -> {"none", "ok", "broken"}]
           /\ summary' \subseteq Fields
           /\ validator' \in Validator /\ validator'.rules = w.rules
           /\ MarksAreVerdicts' /\ OneMessage'
  <1>1. Show(w, WithRules(w)) /\ BrokenFor(w) \subseteq Fields
    BY DEF Form, BrokenFor, WithRules
  <1>2. validator' \in Validator /\ validator'.rules = w.rules
    BY <1>1 DEF Form, Validator
  <1>3. summary' \subseteq Fields
    BY <1>1 DEF Form, OnErrors, IInv, TypeOK
  <1>4. QED
    BY <1>1, <1>2, <1>3, ShowOK

(* The same of element.                                                    *)
LEMMA ElementOK ==
    ASSUME IInv, validator # None, NEW f \in Fields, Element(validator, f)
    PROVE  /\ container' \in [Fields -> Container]
           /\ verdict' \in [Fields -> {"none", "ok", "broken"}]
           /\ summary' \subseteq Fields
           /\ validator' \in Validator /\ validator'.rules = validator.rules
           /\ MarksAreVerdicts' /\ OneMessage'
  <1>1. validator \in Validator /\ promised \in [Fields -> Decorations \cup {None}]
        /\ MadeOf(validator.rules, promised) /\ summary \subseteq Fields
    BY DEF IInv, TypeOK, RulesAreMadeOf
  <1>2. Show(validator, {f} \cap WithRules(validator)) /\ UNCHANGED summary
    BY DEF Element
  <1>3. validator' \in Validator /\ validator'.rules = validator.rules
    BY <1>1 DEF Element, Validator
  <1>4. QED
    BY <1>1, <1>2, <1>3, ShowOK

LEMMA FreshIs ==
    ASSUME NEW r \in [Fields -> SUBSET Rule]
    PROVE  Fresh(r) \in Validator /\ Fresh(r).rules = r
  BY DEF Fresh, Validator

LEMMA InitOK == ASSUME Init PROVE IInv
  <1>1. TypeOK
    <2>1. value \in [Fields -> 0..MaxLength]
      BY MaxLengthIsNat DEF Init
    <2>2. Unmarked \in Container
      BY DEF Unmarked, Container
    <2>3. container \in [Fields -> Container]
      BY <2>2 DEF Init
    <2>4. rules \in [Fields -> SUBSET Rule]
      BY DEF Init, NoRules
    <2>5. /\ asked \in [Fields -> Decorations \cup {None}]
          /\ promised \in [Fields -> Decorations \cup {None}]
          /\ enabled \in [Fields -> Decorations \cup {None}]
      BY DEF Init, Nothing
    <2>6. QED
      BY <2>1, <2>3, <2>4, <2>5 DEF Init, TypeOK
  <1>2. RulesAreMadeOf
    BY DEF Init, RulesAreMadeOf, MadeOf, NoRules, Nothing
  <1>3. resetting = FALSE /\ MarksAreVerdicts /\ OneMessage /\ OneResetHandler /\ HeldIffAsked
    BY DEF Init, MarksAreVerdicts, OneMessage, OneResetHandler, HeldIffAsked, Unmarked
  <1>4. QED
    BY <1>1, <1>2, <1>3 DEF IInv

(* Parsing, and attaching after it.                                        *)
LEMMA ParsedOK ==
    ASSUME IInv, NEW F, F \subseteq Decorated, Parsed(F)
    PROVE  /\ rules' \in [Fields -> SUBSET Rule]
           /\ asked' \in [Fields -> Decorations \cup {None}]
           /\ MadeOf(rules', asked')
  <1>1. ASSUME NEW f \in F
        PROVE  f \in Fields /\ attrs[f] \in Decorations /\ attrs[f] # None
               /\ RulesOf(attrs[f]) \in SUBSET Rule
    BY <1>1, DecorationsAreAttributes, RulesTyped DEF IInv, TypeOK, Decorated
  <1>2. rules \in [Fields -> SUBSET Rule] /\ asked \in [Fields -> Decorations \cup {None}]
        /\ MadeOf(rules, asked)
    BY DEF IInv, TypeOK, RulesAreMadeOf
  <1>3. QED
    BY <1>1, <1>2 DEF Parsed, MadeOf

LEMMA AttachOK ==
    ASSUME IInv, rules' \in [Fields -> SUBSET Rule],
           asked' \in [Fields -> Decorations \cup {None}], MadeOf(rules', asked'), Attach
    PROVE  /\ resetHandlers' = 1
           /\ validator' \in Validator /\ validator' # None
           /\ promised' \in [Fields -> Decorations \cup {None}]
           /\ enabled' \in [Fields -> Decorations \cup {None}]
           /\ MadeOf(validator'.rules, promised')
  BY FreshIs, NoneIsNoValidator DEF Attach, Bound, IInv, TypeOK, RulesAreMadeOf

LEMMA ParseOK == ASSUME IInv, NEW F \in SUBSET Fields, Parse(F) PROVE IInv'
  <1>1. Parsed(F \cap Decorated) /\ Attach /\ outcome' = "none"
        /\ UNCHANGED <<attrs, value, container, summary, verdict, resetting>>
    BY DEF Parse
  <1>2. /\ rules' \in [Fields -> SUBSET Rule]
        /\ asked' \in [Fields -> Decorations \cup {None}]
        /\ MadeOf(rules', asked')
    BY <1>1, ParsedOK
  <1>3. /\ resetHandlers' = 1
        /\ validator' \in Validator /\ validator' # None
        /\ promised' \in [Fields -> Decorations \cup {None}]
        /\ enabled' \in [Fields -> Decorations \cup {None}]
        /\ MadeOf(validator'.rules, promised')
    BY <1>1, <1>2, AttachOK
  <1>4. TypeOK' /\ RulesAreMadeOf' /\ OneResetHandler'
    BY <1>1, <1>2, <1>3 DEF IInv, TypeOK, RulesAreMadeOf, OneResetHandler
  <1>5. QED
    BY <1>1, <1>4 DEF IInv, MarksAreVerdicts, OneMessage, HeldIffAsked

LEMMA ParseElementOK ==
    ASSUME IInv, NEW f \in Fields, NEW skipAttach \in BOOLEAN, ParseElement(f, skipAttach)
    PROVE  IInv'
  <1>1. /\ rules' \in [Fields -> SUBSET Rule]
        /\ asked' \in [Fields -> Decorations \cup {None}]
        /\ MadeOf(rules', asked')
    BY ParsedOK DEF ParseElement
  <1>2. outcome' = "none" /\ UNCHANGED <<attrs, value, container, summary, verdict, resetting>>
    BY DEF ParseElement
  <1>3. CASE Attach
    <2>1. /\ resetHandlers' = 1
          /\ validator' \in Validator /\ validator' # None
          /\ promised' \in [Fields -> Decorations \cup {None}]
          /\ enabled' \in [Fields -> Decorations \cup {None}]
          /\ MadeOf(validator'.rules, promised')
      BY <1>1, <1>3, AttachOK
    <2>2. TypeOK' /\ RulesAreMadeOf' /\ OneResetHandler'
      BY <1>1, <1>2, <2>1 DEF IInv, TypeOK, RulesAreMadeOf, OneResetHandler
    <2>3. QED
      BY <1>2, <2>2 DEF IInv, MarksAreVerdicts, OneMessage, HeldIffAsked
  <1>4. CASE UNCHANGED <<validator, promised, enabled, resetHandlers>>
    BY <1>1, <1>2, <1>4
    DEF IInv, TypeOK, RulesAreMadeOf, MarksAreVerdicts, OneMessage, OneResetHandler, HeldIffAsked
  <1>5. QED
    BY <1>3, <1>4 DEF ParseElement

LEMMA DecorateOK ==
    ASSUME IInv, NEW f \in Fields, NEW a \in Decorations \cup {None}, Decorate(f, a)
    PROVE  IInv'
  BY DEF Decorate, infoVars, shown, IInv, TypeOK, RulesAreMadeOf, MarksAreVerdicts, OneMessage,
         OneResetHandler, HeldIffAsked

LEMMA ValidateOK == ASSUME IInv, Validate PROVE IInv'
  <1>1. outcome' = "none" /\ UNCHANGED <<attrs, value, rules, asked, promised, enabled, resetHandlers, resetting>>
    BY DEF Validate, infoVars
  <1>2. PICK w : w = IF validator = None THEN Fresh(NoRules) ELSE validator
    OBVIOUS
  <1>3. Form(w)
    BY <1>2 DEF Validate
  <1>4. w \in Validator /\ promised \in [Fields -> Decorations \cup {None}]
        /\ MadeOf(w.rules, promised)
    <2>1. NoRules \in [Fields -> SUBSET Rule] /\ MadeOf(NoRules, Nothing)
      BY DEF NoRules, Nothing, MadeOf
    <2>2. QED
      BY <1>2, <2>1, FreshIs DEF IInv, TypeOK, RulesAreMadeOf
  <1>5. QED
    BY <1>1, <1>3, <1>4, FormOK, NoneIsNoValidator
    DEF IInv, TypeOK, RulesAreMadeOf, OneResetHandler, HeldIffAsked

LEMMA DestroyOK == ASSUME IInv, Destroy PROVE IInv'
  <1>1. Nothing \in [Fields -> Decorations \cup {None}]
    BY DEF Nothing
  <1>2. QED
    BY <1>1
    DEF Destroy, infoVars, shown, IInv, TypeOK, RulesAreMadeOf, MarksAreVerdicts, OneMessage,
        OneResetHandler, HeldIffAsked

LEMMA FillOK == ASSUME IInv, NEW f \in Fields, NEW length \in 0..MaxLength, Fill(f, length) PROVE IInv'
  BY DEF Fill, infoVars, shown, IInv, TypeOK, RulesAreMadeOf, MarksAreVerdicts, OneMessage,
         OneResetHandler, HeldIffAsked

LEMMA KeyUpOK == ASSUME IInv, NEW f \in Fields, KeyUp(f) PROVE IInv'
  BY ElementOK, NoneIsNoValidator
  DEF KeyUp, infoVars, IInv, TypeOK, RulesAreMadeOf, OneResetHandler, HeldIffAsked

LEMMA LeaveOK == ASSUME IInv, NEW f \in Fields, Leave(f) PROVE IInv'
  BY ElementOK, NoneIsNoValidator
  DEF Leave, infoVars, IInv, TypeOK, RulesAreMadeOf, OneResetHandler, HeldIffAsked

LEMMA SubmitOK == ASSUME IInv, Submit PROVE IInv'
  <1>1. UNCHANGED <<attrs, value, rules, asked, promised, enabled, resetHandlers, resetting>>
    BY DEF Submit, infoVars
  <1>2. CASE validator = None
    <2>1. promised = Nothing /\ outcome' = "sent" /\ UNCHANGED <<validator, container, summary, verdict>>
      BY <1>2 DEF Submit, shown, IInv, RulesAreMadeOf
    <2>2. QED
      BY <1>1, <1>2, <2>1
      DEF IInv, TypeOK, RulesAreMadeOf, MarksAreVerdicts, OneMessage, OneResetHandler, HeldIffAsked, Nothing
  <1>3. CASE validator # None
    <2>1. /\ Form(validator)
          /\ outcome' = IF BrokenFor(validator) = {} THEN "sent" ELSE "held"
      BY <1>3 DEF Submit
    <2>2. validator \in Validator /\ promised \in [Fields -> Decorations \cup {None}]
          /\ MadeOf(validator.rules, promised)
      BY <1>3 DEF IInv, TypeOK, RulesAreMadeOf
    <2>3. ASSUME NEW f \in Fields
          PROVE  f \in BrokenFor(validator) <=> promised[f] # None /\ ~Meets(promised[f], value[f])
      <3>1. CASE promised[f] = None
        BY <2>2, <3>1 DEF MadeOf, BrokenFor, WithRules
      <3>2. CASE promised[f] # None
        <4>1. [method |-> "__dummy__", param |-> TRUE] \in validator.rules[f]
          BY <2>2, <3>2 DEF MadeOf, RulesOf, Rules
        <4>2. f \in WithRules(validator)
          BY <4>1 DEF WithRules
        <4>3. QED
          BY <2>2, <3>2, <4>2, ResultIs DEF BrokenFor, IInv
      <3>3. QED
        BY <3>1, <3>2
    <2>4. BrokenFor(validator) \subseteq Fields
      BY DEF BrokenFor, WithRules
    <2>5. HeldIffAsked'
      BY <1>1, <2>1, <2>3, <2>4 DEF HeldIffAsked
    <2>6. QED
      BY <1>1, <2>1, <2>2, <2>5, FormOK, NoneIsNoValidator
      DEF IInv, TypeOK, RulesAreMadeOf, OneResetHandler
  <1>4. QED
    BY <1>2, <1>3

LEMMA ResetOK == ASSUME IInv, Reset PROVE IInv'
  <1>1. /\ UNCHANGED <<attrs, rules, asked, promised, enabled, resetHandlers>> /\ outcome' = "none"
        /\ value' \in [Fields -> 0..MaxLength]
    BY MaxLengthIsNat DEF Reset, infoVars
  <1>2. CASE UNCHANGED <<validator, shown>> /\ resetting' = FALSE
    BY <1>1, <1>2
    DEF shown, IInv, TypeOK, RulesAreMadeOf, MarksAreVerdicts, OneMessage, OneResetHandler, HeldIffAsked
  <1>3. CASE /\ validator # None
             /\ validator' = Fresh(validator.rules)
             /\ container' = [f \in Fields |-> [container[f] EXCEPT !.marked = FALSE]]
             /\ summary' = {}
             /\ verdict' = [f \in Fields |-> "none"]
             /\ resetting' = FALSE
    <2>1. validator \in Validator /\ validator.rules \in [Fields -> SUBSET Rule]
      BY <1>3 DEF IInv, TypeOK, Validator
    <2>2. validator' \in Validator /\ validator'.rules = validator.rules /\ validator' # None
      BY <1>3, <2>1, FreshIs, NoneIsNoValidator
    <2>3. ASSUME NEW f \in Fields
          PROVE  /\ container'[f] \in Container
                 /\ ~container'[f].marked /\ container'[f].labels = container[f].labels
      BY <1>3 DEF IInv, TypeOK, Container
    <2>4. container' \in [Fields -> Container]
      BY <1>3, <2>3
    <2>5. MarksAreVerdicts' /\ OneMessage'
      BY <1>3, <2>3 DEF IInv, MarksAreVerdicts, OneMessage
    <2>6. QED
      BY <1>1, <1>3, <2>2, <2>4, <2>5
      DEF IInv, TypeOK, RulesAreMadeOf, OneResetHandler, HeldIffAsked
  <1>4. QED
    BY <1>2, <1>3 DEF Reset, AfterThrow, IInv

(* IInv is inductive.                                                      *)
THEOREM Invariance == Spec => []IInv
  <1>1. Init => IInv
    BY InitOK
  <1>2. IInv /\ [Next]_vars => IInv'
    <2> SUFFICES ASSUME IInv, [Next]_vars PROVE IInv'
      OBVIOUS
    <2>1. CASE User
      BY <2>1, FillOK, KeyUpOK, LeaveOK, SubmitOK, ResetOK DEF User
    <2>2. CASE Script
      BY <2>2, ParseOK, ParseElementOK, DecorateOK, ValidateOK, DestroyOK DEF Script
    <2>3. CASE UNCHANGED vars
      BY <2>3
      DEF vars, IInv, TypeOK, RulesAreMadeOf, MarksAreVerdicts, OneMessage, OneResetHandler, HeldIffAsked
    <2>4. QED
      BY <2>1, <2>2, <2>3 DEF Next
  <1>3. QED
    BY <1>1, <1>2, PTL DEF Spec

(* Every variable keeps its type.                                          *)
THEOREM TypeCorrect == Spec => []TypeOK
  <1>1. IInv => TypeOK
    BY DEF IInv
  <1>2. QED
    BY <1>1, Invariance, PTL

(* Marks and verdicts agree, onError and onSuccess with check.             *)
THEOREM Marks == Spec => []MarksAreVerdicts
  <1>1. IInv => MarksAreVerdicts
    BY DEF IInv
  <1>2. QED
    BY <1>1, Invariance, PTL

(* No container ever holds two messages.                                   *)
THEOREM Messages == Spec => []OneMessage
  <1>1. IInv => OneMessage
    BY DEF IInv
  <1>2. QED
    BY <1>1, Invariance, PTL

(* One handler of reset, however often attachValidation ran.               *)
THEOREM Handlers == Spec => []OneResetHandler
  <1>1. IInv => OneResetHandler
    BY DEF IInv
  <1>2. QED
    BY <1>1, Invariance, PTL

(* What is held back and what is sent by a form that was not parsed again   *)
(* with other attributes, for all attributes and values: with RulesExact,  *)
(* the adapters and the life of the validator together.                    *)
THEOREM Gate == Spec => []HeldIffAsked
  <1>1. IInv => HeldIffAsked
    BY DEF IInv
  <1>2. QED
    BY <1>1, Invariance, PTL

(* Reset clears what is shown, whatever failed before (finally of onReset). *)
THEOREM Resets == Spec => ResetClears
  <1>1. ASSUME IInv, Reset, promised # Nothing
        PROVE  summary' = {} /\ \A f \in Fields : ~container'[f].marked
    <2>1. resetHandlers = 1 /\ ~resetting /\ validator # None
      BY <1>1 DEF IInv, OneResetHandler, RulesAreMadeOf
    <2>2. summary' = {} /\ container' = [f \in Fields |-> [container[f] EXCEPT !.marked = FALSE]]
      BY <1>1, <2>1 DEF Reset
    <2>3. QED
      BY <1>1, <2>2 DEF IInv, TypeOK, Container
  <1>2. IInv /\ [Next]_vars
          => [Reset /\ promised # Nothing
                => summary' = {} /\ \A f \in Fields : ~container'[f].marked]_vars
    BY <1>1
  <1>3. QED
    BY <1>2, Invariance, PTL DEF Spec, ResetClears
=============================================================================
