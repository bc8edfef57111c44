--------------------- MODULE UnobtrusiveValidation_proofs ---------------------
(* Proofs about UnobtrusiveValidation, for any page and any values.           *)
EXTENDS UnobtrusiveValidation, SequenceTheorems, WellFoundedInduction, TLAPS

\* Every input the form has rules for has the rule that every value satisfies.
Dummies(rules) == \A f \in DOMAIN rules : "__dummy__" \in DOMAIN rules[f]

\* The removal of an input leaves every rule; only the element of an equalTo
\* is another.
LEMMA DetachedDomain ==
  ASSUME NEW rules, NEW g, NEW value
  PROVE  /\ DOMAIN Detach(rules, g, value) = DOMAIN rules
         /\ \A rule \in DOMAIN rules : rule # "equalTo" => Detach(rules, g, value)[rule] = rules[rule]
BY DEF Detach

LEMMA RulesHaveDummy ==
  ASSUME NEW f, NEW S
  PROVE  "__dummy__" \in DOMAIN RulesOf(f, S)
<1>1. "__dummy__" \in DOMAIN Single("__dummy__", TRUE)
  BY DEF Single
<1>2. \A rules : "__dummy__" \in DOMAIN Extend(rules, Single("__dummy__", TRUE))
  BY <1>1 DEF Extend
<1>3. PICK rules : RulesOf(f, S) = Extend(rules, Single("__dummy__", TRUE))
  BY DEF RulesOf
<1> QED
  BY <1>2, <1>3

\* What parsing adds to the options has it too.
LEMMA ParsedHasDummies ==
  ASSUME Dummies(options), NEW S
  PROVE  /\ Dummies(Parsed(S))
         /\ DOMAIN Parsed(S) = DOMAIN options \cup S
<1> DEFINE parsed == [f \in S |-> RulesOf(f, present)]
<1>1. DOMAIN parsed = S /\ \A f \in S : "__dummy__" \in DOMAIN parsed[f]
  BY RulesHaveDummy
<1>2. Parsed(S) = Extend(options, parsed)
  BY DEF Parsed
<1> HIDE DEF parsed
<1> QED
  BY <1>1, <1>2 DEF Extend, Dummies

\* With it, an input that does not fail succeeds: it is never its only rule's
\* dependency that is missing.
LEMMA FailsOrSucceeds ==
  ASSUME Dummies(settings), NEW f \in DOMAIN settings
  PROVE  Succeeds(f) = ~Fails(f)
<1>1. "__dummy__" \in DOMAIN settings[f] /\ ~Optional("__dummy__")
  BY DEF Dummies, Optional
<1> QED
  BY <1>1 DEF Succeeds

\* A validation puts the boxes of the inputs it checks in the state of their values.
LEMMA ShownValue ==
  ASSUME Dummies(settings), NEW S \in SUBSET DOMAIN settings, S \subseteq Fields,
         box \in [Fields -> Classes]
  PROVE  /\ Shown(S) \in [Fields -> Classes]
         /\ \A f \in S : Shown(S)[f] = "error" <=> Fails(f)
<1> DEFINE failed == {f \in S : Fails(f)}
           succeeded == {f \in S : Succeeds(f)}
<1>1. ASSUME NEW f \in S
      PROVE  f \in succeeded <=> ~(f \in failed)
  <2>1. f \in DOMAIN settings
    OBVIOUS
  <2>2. Succeeds(f) = ~Fails(f)
    BY <2>1, FailsOrSucceeds
  <2>3. Succeeds(f) <=> ~Fails(f)
    BY <2>2, Zenon DEF Succeeds, Fails
  <2>4. f \in succeeded <=> Succeeds(f)
    OBVIOUS
  <2>5. f \in failed <=> Fails(f)
    OBVIOUS
  <2> QED
    BY <2>3, <2>4, <2>5
<1>2. /\ failed \subseteq S /\ succeeded \subseteq S
      /\ \A f \in failed : Fails(f)
      /\ \A f \in S : Fails(f) => f \in failed
  OBVIOUS
<1>3. Shown(S) = OnSuccess(OnError(box, failed \cup succeeded), succeeded)
  BY DEF Shown
<1> HIDE DEF failed, succeeded
<1> DEFINE boxes == OnError(box, failed \cup succeeded)
<1>4. /\ boxes \in [Fields -> Classes]
      /\ \A f \in failed \cup succeeded : boxes[f] = "error"
  BY <1>2 DEF OnError, Classes
<1> HIDE DEF boxes
<1>5. /\ OnSuccess(boxes, succeeded) \in [Fields -> Classes]
      /\ \A f \in Fields : OnSuccess(boxes, succeeded)[f]
                              = IF f \in succeeded THEN "valid" ELSE boxes[f]
  BY <1>4 DEF OnSuccess, Classes
<1>6. Shown(S) = OnSuccess(boxes, succeeded)
  BY <1>3 DEF boxes
<1>7. ASSUME NEW f \in S
      PROVE  Shown(S)[f] = "error" <=> Fails(f)
  <2>1. Shown(S)[f] = IF f \in succeeded THEN "valid" ELSE boxes[f]
    BY <1>5, <1>6
  <2>2. CASE f \in failed
    BY <1>1, <1>2, <1>4, <2>1, <2>2
  <2>3. CASE f \notin failed
    <3>1. Shown(S)[f] = "valid"
      BY <1>1, <2>1, <2>3
    <3>2. ~Fails(f)
      BY <1>2, <2>3, Zenon
    <3> QED
      BY <3>1, <3>2
  <2> QED
    BY <2>2, <2>3
<1> QED
  BY <1>5, <1>6, <1>7

Inv ==
  /\ TypeOK
  /\ ~resetting
  /\ Dummies(options) /\ Dummies(settings)
  /\ SummaryNamesFailures
  /\ ResetClears

LEMMA InitInv == Init => Inv
<1> SUFFICES ASSUME Init PROVE Inv
  OBVIOUS
<1>1. DOMAIN options = {} /\ DOMAIN settings = {}
  BY DEF Init, NoFields
<1>2. Blank \in Values
  BY DEF Values
<1>3. TypeOK
  <2>1. values \in [Fields -> Values]
    BY <1>2 DEF Init
  <2>2. box \in [Fields -> Classes] /\ summary \in Classes \cup {"none"}
    BY DEF Init, Classes
  <2>3. last \in [event : Events, fields : SUBSET Fields]
    BY DEF Init, Event, Events
  <2>4. DOMAIN options \subseteq Fields /\ DOMAIN settings \subseteq DOMAIN options
    BY <1>1
  <2>5. /\ markup \in Forms /\ present \subseteq Fields /\ listed \subseteq Fields
    BY DEF Init
  <2>6. info \in BOOLEAN /\ validator \in BOOLEAN /\ resetting \in BOOLEAN
    BY Zenon DEF Init
  <2>7. handlers \in 0..1
    BY DEF Init
  <2> QED
    BY <2>1, <2>2, <2>3, <2>4, <2>5, <2>6, <2>7 DEF TypeOK
<1> QED
  BY <1>1, <1>3 DEF Init, Inv, Dummies, SummaryNamesFailures, ResetClears, Event

\* A step whose event is none the properties speak of.
LEMMA OtherEvent ==
  ASSUME TypeOK', resetting' = resetting, ~resetting,
         Dummies(options)', Dummies(settings)', last'.event \in {"other", "checked"}
  PROVE  Inv'
BY DEF Inv, SummaryNamesFailures, ResetClears

\* A validation of the whole form, by a submit or by Ajax.
LEMMA FormStep ==
  ASSUME Inv, Form, UNCHANGED <<formVars, options, info, settings, handlers, resetting>>,
         validator' \in BOOLEAN
  PROVE  Inv'
<1> DEFINE failed == {f \in Checkable : Fails(f)}
<1>1. /\ Checkable \subseteq Fields /\ Checkable \subseteq DOMAIN settings
      /\ Dummies(settings) /\ box \in [Fields -> Classes]
  BY DEF Inv, TypeOK, Checkable
<1>2. /\ box' \in [Fields -> Classes]
      /\ \A f \in Checkable : box'[f] = "error" <=> f \in failed
  BY <1>1, ShownValue DEF Form
<1>3. /\ last'.event = (IF failed = {} THEN "sent" ELSE "rejected") /\ last'.fields = Checkable
      /\ last' \in [event : Events, fields : SUBSET Fields]
  BY <1>1 DEF Form, Event, Events
<1>4. IF failed = {} \/ summary = "none" THEN summary' = summary /\ listed' = listed
      ELSE summary' = "error" /\ listed' = failed
  BY DEF Form, OnErrors
<1>5. failed \subseteq Checkable
  OBVIOUS
<1> HIDE DEF failed
<1>6. TypeOK'
  BY <1>1, <1>2, <1>3, <1>4, <1>5 DEF Inv, TypeOK, formVars, Classes
<1>7. SummaryNamesFailures'
  BY <1>2, <1>3, <1>4, <1>5 DEF SummaryNamesFailures
<1>8. ResetClears'
  BY <1>3 DEF ResetClears
<1>9. resetting' = resetting /\ options' = options /\ settings' = settings
  OBVIOUS
<1> QED
  BY <1>6, <1>7, <1>8, <1>9 DEF Inv, Dummies

LEMMA InvStep == Inv /\ [Next]_vars => Inv'
<1> SUFFICES ASSUME Inv, [Next]_vars
             PROVE  Inv'
  OBVIOUS
<1>0. TypeOK /\ ~resetting /\ Dummies(options) /\ Dummies(settings)
  BY DEF Inv
<1>1. ASSUME NEW S \in SUBSET present, Parse(S)
      PROVE  Inv'
  <2>1. /\ options' = Parsed(S) /\ info' = TRUE /\ handlers' = 1 /\ validator' = TRUE
        /\ settings' = settings \/ settings' = Parsed(S)
        /\ validator => settings' = settings
        /\ last' = Event("other", {})
        /\ UNCHANGED <<formVars, shownVars, resetting>>
    BY <1>1 DEF Parse, AttachValidation
  <2>2. Dummies(Parsed(S)) /\ DOMAIN Parsed(S) = DOMAIN options \cup S
    BY <1>0, ParsedHasDummies
  <2>3. TypeOK'
    BY <1>0, <2>1, <2>2 DEF TypeOK, formVars, shownVars, Event, Events
  <2>4. Dummies(options)' /\ Dummies(settings)'
    BY <1>0, <2>1, <2>2 DEF Dummies
  <2>5. last'.event = "other" /\ resetting' = resetting
    BY <2>1 DEF Event
  <2> QED
    BY <1>0, <2>3, <2>4, <2>5, OtherEvent
<1>2. ASSUME NEW f \in Fields, ParseElement(f)
      PROVE  Inv'
  <2>1. /\ f \in present /\ options' = Parsed({f}) /\ info' = TRUE
        /\ last' = Event("other", {})
        /\ UNCHANGED <<formVars, shownVars, validator, settings, handlers, resetting>>
    BY <1>2 DEF ParseElement
  <2>2. Dummies(Parsed({f})) /\ DOMAIN Parsed({f}) = DOMAIN options \cup {f}
    BY <1>0, ParsedHasDummies
  <2>3. TypeOK'
    BY <1>0, <2>1, <2>2 DEF TypeOK, formVars, shownVars, Event, Events
  <2>4. Dummies(options)' /\ Dummies(settings)'
    BY <1>0, <2>1, <2>2 DEF Dummies
  <2>5. last'.event = "other" /\ resetting' = resetting
    BY <2>1 DEF Event
  <2> QED
    BY <1>0, <2>3, <2>4, <2>5, OtherEvent
<1>3. ASSUME NEW f \in Fields,
             InsertField(f) \/ \E v \in Values : Type(f, v)
      PROVE  Inv'
  <2>1. Blank \in Values
    BY DEF Values
  <2>2. /\ present' \subseteq Fields
        /\ values' \in [Fields -> Values]
        /\ box' \in [Fields -> Classes]
        /\ last' = Event("other", {})
        /\ UNCHANGED <<markup, rulesVars, resetting, summary, listed>>
    BY <1>0, <1>3, <2>1 DEF InsertField, Type, shownVars, TypeOK, Classes
  <2>3. TypeOK'
    BY <1>0, <2>2 DEF TypeOK, rulesVars, Event, Events
  <2>4. Dummies(options)' /\ Dummies(settings)'
    BY <1>0, <2>2 DEF Dummies, rulesVars
  <2>5. last'.event = "other" /\ resetting' = resetting
    BY <2>2 DEF Event
  <2> QED
    BY <1>0, <2>3, <2>4, <2>5, OtherEvent
<1>4. ASSUME NEW f \in Fields, CheckField(f)
      PROVE  Inv'
  <2>1. /\ f \in DOMAIN settings /\ box' = Shown({f}) /\ last' = Event("checked", {f})
        /\ UNCHANGED <<formVars, rulesVars, resetting, summary, listed>>
    BY <1>4 DEF CheckField, Checkable
  <2>2. box' \in [Fields -> Classes]
    BY <1>0, <2>1, ShownValue DEF TypeOK
  <2>3. TypeOK'
    BY <1>0, <2>1, <2>2 DEF TypeOK, formVars, rulesVars, Event, Events
  <2>4. Dummies(options)' /\ Dummies(settings)'
    BY <1>0, <2>1 DEF Dummies, rulesVars
  <2>5. last'.event = "checked" /\ resetting' = resetting
    BY <2>1 DEF Event
  <2> QED
    BY <1>0, <2>3, <2>4, <2>5, OtherEvent
<1>5. ASSUME Destroy
      PROVE  Inv'
  <2>1. /\ validator' = FALSE /\ DOMAIN settings' = {} /\ last' = Event("other", {})
        /\ UNCHANGED <<formVars, options, info, handlers, resetting, shownVars>>
    BY <1>5 DEF Destroy, NoFields
  <2>2. TypeOK'
    BY <1>0, <2>1 DEF TypeOK, formVars, shownVars, Event, Events
  <2>3. Dummies(options)' /\ Dummies(settings)'
    BY <1>0, <2>1 DEF Dummies
  <2>4. last'.event = "other" /\ resetting' = resetting
    BY <2>1 DEF Event
  <2> QED
    BY <1>0, <2>2, <2>3, <2>4, OtherEvent
<1>6. ASSUME Submit
      PROVE  Inv'
  BY <1>0, <1>6, FormStep DEF Submit, rulesVars, TypeOK
<1>7. ASSUME AjaxValidate
      PROVE  Inv'
  BY <1>0, <1>7, FormStep DEF AjaxValidate
<1>8. ASSUME Reset
      PROVE  Inv'
  <2>1. Blank \in Values
    BY DEF Values
  <2>2. values' \in [Fields -> Values] /\ UNCHANGED <<markup, present, rulesVars>>
        /\ last' = Event("reset", {})
    BY <1>8, <2>1 DEF Reset, Cleared
  <2>3. CASE handlers > 0 /\ validator
    <3>1. ResetForm /\ resetting' = FALSE
      BY <1>0, <1>8, <2>3 DEF Reset, OnReset
    <3>2. /\ box' \in [Fields -> Classes] /\ summary' \in {"valid", "none"} /\ listed' = listed
          /\ \A f \in present : box'[f] = "valid"
      BY <1>0, <3>1 DEF ResetForm, TypeOK, Classes
    <3>3. TypeOK'
      BY <1>0, <2>2, <3>1, <3>2 DEF TypeOK, rulesVars, Event, Events, Classes
    <3> QED
      BY <1>0, <2>2, <3>1, <3>2, <3>3
         DEF Inv, Dummies, SummaryNamesFailures, ResetClears, rulesVars, Event
  <2>4. CASE ~(handlers > 0 /\ validator)
    <3>1. resetting' = FALSE /\ UNCHANGED shownVars
      BY <1>0, <1>8, <2>4 DEF Reset, OnReset, ResetThrows
    <3>2. TypeOK'
      BY <1>0, <2>2, <3>1 DEF TypeOK, rulesVars, shownVars, Event, Events
    <3> QED
      BY <1>0, <2>2, <2>4, <3>1, <3>2
         DEF Inv, Dummies, SummaryNamesFailures, ResetClears, rulesVars, Event
  <2> QED
    BY <2>3, <2>4
<1>9. ASSUME NEW f \in Fields, RemoveField(f)
       PROVE  Inv'
  <2>1. /\ present' \subseteq Fields /\ last' = Event("other", {})
        /\ DOMAIN options' = DOMAIN options /\ DOMAIN settings' = DOMAIN settings
        /\ UNCHANGED <<markup, values, info, validator, handlers, resetting, shownVars>>
    BY <1>0, <1>9 DEF RemoveField, TypeOK
  <2>2. TypeOK'
    BY <1>0, <2>1 DEF TypeOK, shownVars, Event, Events
  <2>3. Dummies(options)' /\ Dummies(settings)'
    <3>1. \A rules, value : DOMAIN Detach(rules, f, value) = DOMAIN rules
      BY DetachedDomain
    <3> QED
      BY <1>0, <1>9, <3>1 DEF RemoveField, Dummies
  <2>4. last'.event = "other" /\ resetting' = resetting
    BY <2>1 DEF Event
  <2> QED
    BY <1>0, <2>2, <2>3, <2>4, OtherEvent
<1>10. CASE UNCHANGED vars
  BY <1>10 DEF vars, Inv, TypeOK, Dummies, SummaryNamesFailures, ResetClears
<1> QED
  BY <1>1, <1>2, <1>3, <1>4, <1>5, <1>6, <1>7, <1>8, <1>9, <1>10 DEF Next

LEMMA Invariance == Spec => []Inv
BY InitInv, InvStep, PTL DEF Spec

\* The form, its rules, its handlers and its classes keep their types: in
\* particular it never has a second reset handler.
THEOREM TypeCorrect == Spec => []TypeOK
<1>1. Inv => TypeOK
  BY DEF Inv
<1> QED
  BY <1>1, Invariance, PTL

\* The summary of a form kept back names exactly the inputs shown in error.
THEOREM SummaryIsExact == Spec => []SummaryNamesFailures
<1>1. Inv => SummaryNamesFailures
  BY DEF Inv
<1> QED
  BY <1>1, Invariance, PTL

\* A reset clears every error, whatever failed before.
THEOREM ResetAlwaysClears == Spec => []ResetClears
<1>1. Inv => ResetClears
  BY DEF Inv
<1> QED
  BY <1>1, Invariance, PTL

----------------------------------------------------------------------------
(* What the rules of an input ask of a value, adapter by adapter.          *)

Satisfies(rules, value, vals) == \A rule \in DOMAIN rules : Accepts(rules, rule, value, vals)

\* The verdict of a method depends on the parameter of its own rule only.
LEMMA AcceptsByParam ==
  ASSUME NEW rules, NEW more, NEW rule, NEW value, NEW vals, rules[rule] = more[rule]
  PROVE  Accepts(rules, rule, value, vals) <=> Accepts(more, rule, value, vals)
BY DEF Accepts

LEMMA SatisfiesNone ==
  ASSUME NEW value, NEW vals
  PROVE  Satisfies(NoRules, value, vals)
BY DEF Satisfies, NoRules

LEMMA SatisfiesSingle ==
  ASSUME NEW rule, NEW param, NEW value, NEW vals
  PROVE  Satisfies(Single(rule, param), value, vals) <=> Accepts(Single(rule, param), rule, value, vals)
BY DEF Satisfies, Single

LEMMA SatisfiesExtend ==
  ASSUME NEW rules, NEW more, DOMAIN rules \cap DOMAIN more = {}, NEW value, NEW vals
  PROVE  Satisfies(Extend(rules, more), value, vals)
            <=> Satisfies(rules, value, vals) /\ Satisfies(more, value, vals)
<1> DEFINE both == Extend(rules, more)
<1>1. /\ DOMAIN both = DOMAIN rules \cup DOMAIN more
      /\ \A r \in DOMAIN rules : both[r] = rules[r]
      /\ \A r \in DOMAIN more : both[r] = more[r]
  BY DEF Extend
<1> HIDE DEF both
<1>2. ASSUME NEW r \in DOMAIN rules
      PROVE  Accepts(both, r, value, vals) <=> Accepts(rules, r, value, vals)
  BY <1>1, AcceptsByParam
<1>3. ASSUME NEW r \in DOMAIN more
      PROVE  Accepts(both, r, value, vals) <=> Accepts(more, r, value, vals)
  BY <1>1, AcceptsByParam
<1>4. Satisfies(both, value, vals) <=> Satisfies(rules, value, vals) /\ Satisfies(more, value, vals)
  BY <1>1, <1>2, <1>3, Zenon DEF Satisfies
<1> QED
  BY <1>4 DEF both

\* The rules of the places that are not about lengths ask for a format.
Formats == {"accept", "extension", "regex", "min", "max", "range", "remote"} \cup Bools
Format(value) == value.length = 0 \/ ~value.malformed

LEMMA FormatRule ==
  ASSUME NEW rule \in Formats, NEW param, NEW value, NEW vals
  PROVE  Satisfies(Single(rule, param), value, vals) <=> Format(value)
<1>1. Accepts(Single(rule, param), rule, value, vals) <=> Format(value)
  BY DEF Accepts, Formats, Bools, Format
<1> QED
  BY <1>1, SatisfiesSingle

LEMMA LengthRules ==
  ASSUME NEW p \in Nat, NEW q \in Nat, NEW value \in Values, NEW vals
  PROVE  /\ Satisfies(Single("minlength", p), value, vals) <=> (value.length > 0 => value.length >= p)
         /\ Satisfies(Single("maxlength", p), value, vals) <=> value.length <= p
         /\ Satisfies(Single("rangelength", <<p, q>>), value, vals)
               <=> (value.length > 0 => value.length >= p) /\ value.length <= q
<1>1. value.length \in Nat
  BY FormsAssumption DEF Values, Blank
<1>2. \A rules : /\ Accepts(rules, "minlength", value, vals)
                       <=> value.length = 0 \/ value.length >= rules["minlength"]
                 /\ Accepts(rules, "maxlength", value, vals)
                       <=> value.length <= rules["maxlength"]
                 /\ Accepts(rules, "rangelength", value, vals)
                       <=> \/ value.length = 0
                           \/ value.length \in rules["rangelength"][1]..rules["rangelength"][2]
  BY DEF Accepts
<1>3. \A rule, param : Single(rule, param)[rule] = param
  BY DEF Single
<1>4. Satisfies(Single("minlength", p), value, vals) <=> value.length = 0 \/ value.length >= p
  BY <1>2, <1>3, SatisfiesSingle
<1>5. Satisfies(Single("maxlength", p), value, vals) <=> value.length <= p
  BY <1>2, <1>3, SatisfiesSingle
<1>6. Satisfies(Single("rangelength", <<p, q>>), value, vals) <=> value.length = 0 \/ value.length \in p..q
  BY <1>2, <1>3, SatisfiesSingle
<1> QED
  BY <1>1, <1>4, <1>5, <1>6

\* A rule that is there when its parameter is.
LEMMA RuleOfParam ==
  ASSUME NEW name, NEW params, NEW param, NEW value, NEW vals
  PROVE  /\ Satisfies(Rule(name, params, param), value, vals)
               <=> (param \in DOMAIN params => Satisfies(Single(name, params[param]), value, vals))
         /\ DOMAIN Rule(name, params, param) \subseteq {name}
<1>1. CASE param \in DOMAIN params
  BY <1>1 DEF Rule, Single
<1>2. CASE param \notin DOMAIN params
  BY <1>2, SatisfiesNone DEF Rule, NoRules
<1> QED
  BY <1>1, <1>2

\* One rule for both bounds, or for the one there is.
LEMMA MinMaxOfParams ==
  ASSUME NEW params, NEW minRule, NEW maxRule, minRule # maxRule, NEW bothRule, NEW value, NEW vals
  PROVE  Satisfies(MinMax(params, minRule, maxRule, bothRule), value, vals)
           <=> /\ "min" \in DOMAIN params /\ "max" \in DOMAIN params =>
                     Satisfies(Single(bothRule, <<params["min"], params["max"]>>), value, vals)
               /\ "min" \in DOMAIN params /\ "max" \notin DOMAIN params =>
                     Satisfies(Single(minRule, params["min"]), value, vals)
               /\ "min" \notin DOMAIN params /\ "max" \in DOMAIN params =>
                     Satisfies(Single(maxRule, params["max"]), value, vals)
<1>1. CASE "min" \in DOMAIN params /\ "max" \in DOMAIN params
  BY <1>1 DEF MinMax
<1>2. CASE ~("min" \in DOMAIN params /\ "max" \in DOMAIN params)
  <2>1. MinMax(params, minRule, maxRule, bothRule)
          = Extend(Rule(minRule, params, "min"), Rule(maxRule, params, "max"))
    BY <1>2 DEF MinMax
  <2>2. DOMAIN Rule(minRule, params, "min") \cap DOMAIN Rule(maxRule, params, "max") = {}
    <3>1. DOMAIN Rule(minRule, params, "min") \subseteq {minRule}
      BY RuleOfParam
    <3>2. DOMAIN Rule(maxRule, params, "max") \subseteq {maxRule}
      BY RuleOfParam
    <3> QED
      BY <3>1, <3>2
  <2>3. Satisfies(MinMax(params, minRule, maxRule, bothRule), value, vals)
          <=> /\ "min" \in DOMAIN params => Satisfies(Single(minRule, params["min"]), value, vals)
              /\ "max" \in DOMAIN params => Satisfies(Single(maxRule, params["max"]), value, vals)
    BY <2>1, <2>2, SatisfiesExtend, RuleOfParam
  <2> QED
    BY <1>2, <2>3
<1> QED
  BY <1>1, <1>2

\* Those that ask for a format.
LEMMA FormatAdapters ==
  ASSUME NEW f, NEW params, NEW S, NEW value, NEW vals
  PROVE  /\ Satisfies(Adapt("accept", f, params, S), value, vals)
               <=> ("mimtype" \in DOMAIN params => Format(value))
         /\ Satisfies(Adapt("extension", f, params, S), value, vals)
               <=> ("extension" \in DOMAIN params => Format(value))
         /\ Satisfies(Adapt("regex", f, params, S), value, vals)
               <=> ("pattern" \in DOMAIN params => Format(value))
         /\ \A adapter \in Bools : Satisfies(Adapt(adapter, f, params, S), value, vals) <=> Format(value)
         /\ Satisfies(Adapt("range", f, params, S), value, vals)
               <=> ("min" \in DOMAIN params \/ "max" \in DOMAIN params => Format(value))
         /\ Satisfies(Adapt("remote", f, params, S), value, vals) <=> Format(value)
         /\ Satisfies(Adapt("fileextensions", f, params, S), value, vals)
               <=> ("extensions" \in DOMAIN params => Format(value))
<1>1. ASSUME NEW name \in Formats, NEW param
      PROVE  Satisfies(Rule(name, params, param), value, vals)
               <=> (param \in DOMAIN params => Format(value))
  BY RuleOfParam, FormatRule
<1>2. {"accept", "extension", "regex", "min", "max", "range", "remote"} \subseteq Formats /\ Bools \subseteq Formats
  BY DEF Formats
<1>3. Satisfies(MinMax(params, "min", "max", "range"), value, vals)
        <=> ("min" \in DOMAIN params \/ "max" \in DOMAIN params => Format(value))
  <2>1. \A param : /\ Satisfies(Single("min", param), value, vals) <=> Format(value)
                   /\ Satisfies(Single("max", param), value, vals) <=> Format(value)
                   /\ Satisfies(Single("range", param), value, vals) <=> Format(value)
    BY <1>2, FormatRule
  <2>2. "min" # "max"
    OBVIOUS
  <2>3. Satisfies(MinMax(params, "min", "max", "range"), value, vals)
           <=> /\ "min" \in DOMAIN params /\ "max" \in DOMAIN params =>
                     Satisfies(Single("range", <<params["min"], params["max"]>>), value, vals)
               /\ "min" \in DOMAIN params /\ "max" \notin DOMAIN params =>
                     Satisfies(Single("min", params["min"]), value, vals)
               /\ "min" \notin DOMAIN params /\ "max" \in DOMAIN params =>
                     Satisfies(Single("max", params["max"]), value, vals)
    BY <2>2, MinMaxOfParams
  <2> QED
    BY <2>1, <2>3, Zenon
<1> DEFINE Adaptation(adapter) == Adapt(adapter, f, params, S)
<1> HIDE DEF Adaptation
<1>4. /\ Adaptation("accept") = Rule("accept", params, "mimtype")
      /\ \/ Adaptation("extension") = Rule("extension", params, "extension")
         \/ Adaptation("extension") = Rule("accept", params, "extension")
      /\ Adaptation("regex") = Rule("regex", params, "pattern")
      /\ Adaptation("fileextensions") = Rule("extension", params, "extensions")
      /\ \A adapter \in Bools : Adaptation(adapter) = Single(adapter, TRUE)
      /\ Adaptation("remote") = Single("remote", TRUE)
      /\ Adaptation("range") = MinMax(params, "min", "max", "range")
  BY DEF Adaptation, Adapt, Bools
<1>5. /\ Satisfies(Adaptation("accept"), value, vals) <=> ("mimtype" \in DOMAIN params => Format(value))
      /\ Satisfies(Adaptation("extension"), value, vals) <=> ("extension" \in DOMAIN params => Format(value))
      /\ Satisfies(Adaptation("regex"), value, vals) <=> ("pattern" \in DOMAIN params => Format(value))
      /\ Satisfies(Adaptation("fileextensions"), value, vals)
            <=> ("extensions" \in DOMAIN params => Format(value))
  BY <1>1, <1>2, <1>4
<1>6. /\ \A adapter \in Bools : Satisfies(Adaptation(adapter), value, vals) <=> Format(value)
      /\ Satisfies(Adaptation("remote"), value, vals) <=> Format(value)
  BY <1>2, <1>4, FormatRule
<1>7. Satisfies(Adaptation("range"), value, vals)
        <=> ("min" \in DOMAIN params \/ "max" \in DOMAIN params => Format(value))
  BY <1>3, <1>4
<1> QED
  BY <1>5, <1>6, <1>7 DEF Adaptation

\* Those that bound the length, where the bounds are numbers and each has a method.
LEMMA LengthAdapters ==
  ASSUME NEW f, NEW params, NEW S, NEW value \in Values, NEW vals,
         "min" \in DOMAIN params => params["min"] \in Nat,
         "max" \in DOMAIN params => params["max"] \in Nat
  PROVE  /\ Satisfies(Adapt("length", f, params, S), value, vals)
               <=> /\ "min" \in DOMAIN params => (value.length > 0 => value.length >= params["min"])
                   /\ "max" \in DOMAIN params => value.length <= params["max"]
         /\ "max" \notin DOMAIN params =>
               (Satisfies(Adapt("minlength", f, params, S), value, vals)
                  <=> ("min" \in DOMAIN params => (value.length > 0 => value.length >= params["min"])))
         /\ ~("min" \in DOMAIN params /\ "max" \in DOMAIN params) =>
               (Satisfies(Adapt("maxlength", f, params, S), value, vals)
                  <=> /\ "min" \in DOMAIN params => (value.length > 0 => value.length >= params["min"])
                      /\ "max" \in DOMAIN params => value.length <= params["max"])
         /\ Satisfies(Adapt("password", f, params, S), value, vals)
               <=> /\ "min" \in DOMAIN params => (value.length > 0 => value.length >= params["min"])
                   /\ "nonalphamin" \in DOMAIN params => value.length > 0 /\ ~value.malformed
                   /\ "regex" \in DOMAIN params => Format(value)
<1>1. ASSUME "min" \in DOMAIN params
      PROVE  Satisfies(Single("minlength", params["min"]), value, vals)
               <=> (value.length > 0 => value.length >= params["min"])
  BY <1>1, LengthRules
<1>2. ASSUME "max" \in DOMAIN params
      PROVE  Satisfies(Single("maxlength", params["max"]), value, vals) <=> value.length <= params["max"]
  BY <1>2, LengthRules
<1>3. ASSUME "min" \in DOMAIN params, "max" \in DOMAIN params
      PROVE  Satisfies(Single("rangelength", <<params["min"], params["max"]>>), value, vals)
               <=> (value.length > 0 => value.length >= params["min"]) /\ value.length <= params["max"]
  BY <1>3, LengthRules
<1>4. /\ "minlength" # "maxlength" /\ "minlength" # "undefined" /\ "maxlength" # "undefined"
  OBVIOUS
<1>5. Satisfies(Adapt("length", f, params, S), value, vals)
        <=> /\ "min" \in DOMAIN params => (value.length > 0 => value.length >= params["min"])
            /\ "max" \in DOMAIN params => value.length <= params["max"]
  <2>1. Satisfies(Adapt("length", f, params, S), value, vals)
          <=> Satisfies(MinMax(params, "minlength", "maxlength", "rangelength"), value, vals)
    <3>1. Adapt("length", f, params, S) = MinMax(params, "minlength", "maxlength", "rangelength")
      BY DEF Adapt, Bools
    <3> QED
      BY <3>1
  <2> QED
    BY <1>1, <1>2, <1>3, <1>4, <2>1, MinMaxOfParams
<1>6. ASSUME "max" \notin DOMAIN params
      PROVE  Satisfies(Adapt("minlength", f, params, S), value, vals)
               <=> ("min" \in DOMAIN params => (value.length > 0 => value.length >= params["min"]))
  <2>1. Satisfies(Adapt("minlength", f, params, S), value, vals)
          <=> Satisfies(MinMax(params, "minlength", "undefined", "undefined"), value, vals)
    <3>1. Adapt("minlength", f, params, S) = MinMax(params, "minlength", "undefined", "undefined")
      BY DEF Adapt, Bools
    <3> QED
      BY <3>1
  <2> QED
    BY <1>1, <1>4, <1>6, <2>1, MinMaxOfParams
<1>7. ASSUME ~("min" \in DOMAIN params /\ "max" \in DOMAIN params)
      PROVE  Satisfies(Adapt("maxlength", f, params, S), value, vals)
               <=> /\ "min" \in DOMAIN params => (value.length > 0 => value.length >= params["min"])
                   /\ "max" \in DOMAIN params => value.length <= params["max"]
  <2>1. Satisfies(Adapt("maxlength", f, params, S), value, vals)
          <=> Satisfies(MinMax(params, "minlength", "maxlength", "undefined"), value, vals)
    <3>1. Adapt("maxlength", f, params, S) = MinMax(params, "minlength", "maxlength", "undefined")
      BY DEF Adapt, Bools
    <3> QED
      BY <3>1
  <2> QED
    BY <1>1, <1>2, <1>4, <1>7, <2>1, MinMaxOfParams
<1>8. Satisfies(Adapt("password", f, params, S), value, vals)
        <=> /\ "min" \in DOMAIN params => (value.length > 0 => value.length >= params["min"])
            /\ "nonalphamin" \in DOMAIN params => value.length > 0 /\ ~value.malformed
            /\ "regex" \in DOMAIN params => Format(value)
  <2> DEFINE short == Rule("minlength", params, "min")
             alpha == Rule("nonalphamin", params, "nonalphamin")
             regex == Rule("regex", params, "regex")
  <2>1. DOMAIN short \subseteq {"minlength"} /\ DOMAIN alpha \subseteq {"nonalphamin"} /\ DOMAIN regex \subseteq {"regex"}
    BY RuleOfParam
  <2>2. /\ Satisfies(short, value, vals)
             <=> ("min" \in DOMAIN params => Satisfies(Single("minlength", params["min"]), value, vals))
        /\ Satisfies(alpha, value, vals)
             <=> ("nonalphamin" \in DOMAIN params =>
                     Satisfies(Single("nonalphamin", params["nonalphamin"]), value, vals))
        /\ Satisfies(regex, value, vals)
             <=> ("regex" \in DOMAIN params => Satisfies(Single("regex", params["regex"]), value, vals))
    BY RuleOfParam
  <2>3. Adapt("password", f, params, S) = Extend(short, Extend(alpha, regex))
    BY DEF Adapt, Bools
  <2> HIDE DEF short, alpha, regex
  <2>4. DOMAIN Extend(alpha, regex) = DOMAIN alpha \cup DOMAIN regex
    BY DEF Extend
  <2>5. /\ DOMAIN alpha \cap DOMAIN regex = {}
        /\ DOMAIN short \cap DOMAIN Extend(alpha, regex) = {}
    BY <2>1, <2>4
  <2>6. Satisfies(Extend(alpha, regex), value, vals) <=> Satisfies(alpha, value, vals) /\ Satisfies(regex, value, vals)
    BY <2>5, SatisfiesExtend
  <2>7. Satisfies(Extend(short, Extend(alpha, regex)), value, vals)
          <=> Satisfies(short, value, vals) /\ Satisfies(Extend(alpha, regex), value, vals)
    BY <2>5, SatisfiesExtend
  <2>8. \A param : Satisfies(Single("nonalphamin", param), value, vals) <=> value.length > 0 /\ ~value.malformed
    <3>1. \A rules : Accepts(rules, "nonalphamin", value, vals) <=> value.length > 0 /\ ~value.malformed
      BY DEF Accepts
    <3> QED
      BY <3>1, SatisfiesSingle
  <2>9. \A param : Satisfies(Single("regex", param), value, vals) <=> Format(value)
    BY FormatRule DEF Formats
  <2> QED
    BY <1>1, <2>2, <2>3, <2>6, <2>7, <2>8, <2>9
<1> QED
  BY <1>5, <1>6, <1>7, <1>8

\* Those that ask for a value, or for that of another input.
LEMMA PresenceAdapters ==
  ASSUME markup \in Forms, NEW f, NEW params, NEW S \in SUBSET Fields, NEW value, NEW vals
  PROVE  /\ Satisfies(Adapt("required", f, params, S), value, vals)
               <=> (~markup[f].checkbox => value.length > 0)
         /\ Satisfies(Adapt("equalto", f, params, S), value, vals)
               <=> \A g \in Other(f, params, S) : vals[g] = value
<1>1. Satisfies(Adapt("required", f, params, S), value, vals) <=> (~markup[f].checkbox => value.length > 0)
  <2>1. Adapt("required", f, params, S) = IF markup[f].checkbox THEN NoRules ELSE Single("required", TRUE)
    BY DEF Adapt, Bools
  <2>2. Satisfies(Single("required", TRUE), value, vals) <=> value.length > 0
    <3>1. \A rules : Accepts(rules, "required", value, vals) <=> value.length > 0
      BY DEF Accepts
    <3> QED
      BY <3>1, SatisfiesSingle
  <2>3. Satisfies(NoRules, value, vals)
    BY SatisfiesNone
  <2> QED
    BY <2>1, <2>2, <2>3
<1>2. Satisfies(Adapt("equalto", f, params, S), value, vals)
        <=> \A g \in Other(f, params, S) : vals[g] = value
  <2> DEFINE others == Other(f, params, S)
             chosen == CHOOSE g \in others : TRUE
  <2>1. \A g, h \in others : g = h
    BY FormsAssumption DEF Other
  <2>2. Adapt("equalto", f, params, S) = IF others = {} THEN NoRules ELSE Single("equalTo", Element(chosen))
    BY DEF Adapt, Bools
  <2>3. others # {} => chosen \in others
    OBVIOUS
  <2> HIDE DEF others, chosen
  <2>4. Satisfies(Single("equalTo", Element(chosen)), value, vals) <=> value = vals[chosen]
    <3>1. \A rules : Accepts(rules, "equalTo", value, vals) <=> value = Held(rules["equalTo"], vals)
      BY DEF Accepts
    <3>2. Single("equalTo", Element(chosen))["equalTo"] = Element(chosen)
      BY DEF Single
    <3>3. Held(Element(chosen), vals) = vals[chosen]
      BY DEF Held, Element
    <3> QED
      BY <3>1, <3>2, <3>3, SatisfiesSingle
  <2>5. Satisfies(NoRules, value, vals)
    BY SatisfiesNone
  <2>6. CASE others = {}
    BY <2>2, <2>5, <2>6 DEF others
  <2>7. CASE others # {}
    <3>1. \A g \in others : g = chosen
      BY <2>1, <2>3, <2>7
    <3>2. (\A g \in others : vals[g] = value) <=> vals[chosen] = value
      BY <2>3, <2>7, <3>1
    <3>3. Satisfies(Adapt("equalto", f, params, S), value, vals) <=> vals[chosen] = value
      BY <2>2, <2>4, <2>7
    <3> QED
      BY <3>2, <3>3 DEF others
  <2> QED
    BY <2>6, <2>7
<1> QED
  BY <1>1, <1>2

AdapterNames ==
  {"accept", "extension", "regex", "creditcard", "date", "digits", "email", "number", "url", "length",
   "range", "minlength", "maxlength", "equalto", "required", "remote", "password", "fileextensions"}

\* The script registers the adapter of every name, but that of accept where the
\* methods of additional-methods.js are missing.
LEMMA RegisteredNames ==
  /\ \A i \in DOMAIN Registered : Registered[i] \in AdapterNames
  /\ \A name \in AdapterNames : name # "accept" \/ HasExtension =>
        \E i \in DOMAIN Registered : Registered[i] = name
<1> DEFINE first == IF HasExtension THEN <<"accept", "extension">> ELSE <<"extension">>
           others == <<"regex", "creditcard", "date", "digits", "email", "number", "url", "length", "range",
                       "minlength", "maxlength", "equalto", "required", "remote", "password",
                       "fileextensions">>
<1>1. Registered = first \o others
  BY DEF Registered
<1>2. /\ others \in Seq(AdapterNames) /\ Len(others) = 16
      /\ others[1] = "regex" /\ others[2] = "creditcard" /\ others[3] = "date" /\ others[4] = "digits"
      /\ others[5] = "email" /\ others[6] = "number" /\ others[7] = "url" /\ others[8] = "length"
      /\ others[9] = "range" /\ others[10] = "minlength" /\ others[11] = "maxlength"
      /\ others[12] = "equalto" /\ others[13] = "required" /\ others[14] = "remote"
      /\ others[15] = "password" /\ others[16] = "fileextensions"
  BY DEF AdapterNames
<1>3. first \in Seq(AdapterNames) /\ Len(first) \in {1, 2}
  BY DEF AdapterNames
<1>4. /\ HasExtension => Len(first) = 2 /\ first[1] = "accept" /\ first[2] = "extension"
      /\ ~HasExtension => Len(first) = 1 /\ first[1] = "extension"
  OBVIOUS
<1> HIDE DEF first, others
<1>5. /\ Registered \in Seq(AdapterNames) /\ Len(Registered) = Len(first) + Len(others)
      /\ \A i \in 1..(Len(first) + Len(others)) :
            Registered[i] = IF i <= Len(first) THEN first[i] ELSE others[i - Len(first)]
  <2>1. others \in Seq(AdapterNames) /\ first \in Seq(AdapterNames)
    BY <1>2, <1>3
  <2> QED
    BY <1>1, <2>1, ConcatProperties
<1>6. /\ Len(first) \in Nat /\ DOMAIN Registered = 1..(Len(first) + 16)
      /\ \A i \in 1..(Len(first) + 16) :
            Registered[i] = IF i <= Len(first) THEN first[i] ELSE others[i - Len(first)]
  <2>1. Len(others) = 16
    BY <1>2
  <2> QED
    BY <1>3, <1>5, <2>1
<1>7. /\ \A i \in 1..Len(first) : i \in DOMAIN Registered /\ Registered[i] = first[i]
      /\ \A i \in 1..16 : Len(first) + i \in DOMAIN Registered /\ Registered[Len(first) + i] = others[i]
  <2>1. ASSUME NEW i \in 1..Len(first)
        PROVE  i \in DOMAIN Registered /\ Registered[i] = first[i]
    BY <1>6
  <2>2. ASSUME NEW i \in 1..16
        PROVE  Len(first) + i \in DOMAIN Registered /\ Registered[Len(first) + i] = others[i]
    <3>1. /\ Len(first) + i \in 1..(Len(first) + 16) /\ ~(Len(first) + i <= Len(first))
          /\ (Len(first) + i) - Len(first) = i
      BY <1>6
    <3> QED
      BY <1>6, <3>1
  <2> QED
    BY <2>1, <2>2
<1>8. ASSUME NEW name \in AdapterNames, name # "accept" \/ HasExtension
      PROVE  \E i \in DOMAIN Registered : Registered[i] = name
  <2>1. CASE name \in {"accept", "extension"}
    <3>1. \E i \in 1..Len(first) : first[i] = name
      BY <1>4, <1>8, <2>1
    <3> QED
      BY <1>7, <3>1
  <2>2. CASE name \notin {"accept", "extension"}
    <3>1. \E i \in 1..16 : others[i] = name
      BY <1>2, <2>2 DEF AdapterNames
    <3> QED
      BY <1>7, <3>1
  <2> QED
    BY <2>1, <2>2
<1> QED
  BY <1>5, <1>8

\* An input that asks for each rule once is asked what its adapters ask, one by one.
LEMMA RulesOfEach ==
  ASSUME NEW f, NEW S, AsksOnce(f, S), NEW value, NEW vals
  PROVE  Satisfies(RulesOf(f, S), value, vals)
            <=> \A i \in Adapters(f) : Satisfies(Given(i, f, S), value, vals)
<1> DEFINE given(i) == Given(i, f, S)
           adapted == Adapted(f, S)
           Givers(rule) == {i \in Adapters(f) : rule \in DOMAIN given(i)}
<1>1. /\ DOMAIN adapted = UNION {DOMAIN given(i) : i \in Adapters(f)}
      /\ \A rule \in DOMAIN adapted : adapted[rule] = given(Max(Givers(rule)))[rule]
  BY DEF Adapted
<1>2. \A i, j \in Adapters(f) : DOMAIN given(i) \cap DOMAIN given(j) # {} => i = j
  BY DEF AsksOnce
<1>3. \A i \in Adapters(f) : i \in Int
  BY RegisteredNames DEF Adapters, Registered
<1> HIDE DEF given, adapted
<1>4. ASSUME NEW i \in Adapters(f), NEW rule \in DOMAIN given(i)
      PROVE  rule \in DOMAIN adapted /\ adapted[rule] = given(i)[rule]
  <2>1. Givers(rule) = {i}
    BY <1>2
  <2>2. Max({i}) = i
    BY <1>3 DEF Max
  <2> QED
    BY <1>1, <2>1, <2>2
<1>5. RulesOf(f, S) = Extend(adapted, Single("__dummy__", TRUE))
  BY DEF RulesOf, adapted
<1>6. /\ DOMAIN RulesOf(f, S) = DOMAIN adapted \cup {"__dummy__"}
      /\ \A rule \in DOMAIN adapted : rule # "__dummy__" => RulesOf(f, S)[rule] = adapted[rule]
  BY <1>5 DEF Extend, Single
<1>7. \A rules : Accepts(rules, "__dummy__", value, vals)
  BY DEF Accepts
<1>8. ASSUME NEW i \in Adapters(f), NEW rule \in DOMAIN given(i)
      PROVE  Accepts(RulesOf(f, S), rule, value, vals) <=> Accepts(given(i), rule, value, vals)
  <2>1. CASE rule = "__dummy__"
    BY <1>7, <2>1
  <2>2. CASE rule # "__dummy__"
    <3>1. RulesOf(f, S)[rule] = given(i)[rule]
      BY <1>4, <1>6, <2>2
    <3> QED
      BY <3>1, AcceptsByParam
  <2> QED
    BY <2>1, <2>2
<1>9. \A rule \in DOMAIN RulesOf(f, S) :
         rule = "__dummy__" \/ \E i \in Adapters(f) : rule \in DOMAIN given(i)
  BY <1>1, <1>6
<1>10. \A i \in Adapters(f) : \A rule \in DOMAIN given(i) : rule \in DOMAIN RulesOf(f, S)
  BY <1>4, <1>6
<1>11. Satisfies(RulesOf(f, S), value, vals) <=> \A i \in Adapters(f) : Satisfies(given(i), value, vals)
  BY <1>7, <1>8, <1>9, <1>10, Zenon DEF Satisfies
<1> QED
  BY <1>11 DEF given

\* The rules the adapters make for an input that asks for each once accept
\* exactly the values its markup accepts.
THEOREM MarkupRules ==
  ASSUME markup \in Forms, NEW f \in Fields, NEW S \in SUBSET Fields, AsksOnce(f, S),
         NEW value \in Values, NEW vals
  PROVE  Satisfies(RulesOf(f, S), value, vals) <=> Acceptable(f, value, vals, S)
<1> DEFINE attributes == markup[f].attributes
           Asks(name) == name \in DOMAIN attributes
           Has(name, param) == name \in DOMAIN attributes /\ param \in DOMAIN attributes[name]
           Meets(name) == Satisfies(Adapt(name, f, attributes[name], S), value, vals)
           Filled == value.length > 0
           Long(name) == Has(name, "min") => (Filled => value.length >= attributes[name]["min"])
           Short(name) == Has(name, "max") => value.length <= attributes[name]["max"]
<1>1. /\ ~HasExtension => ~Asks("accept")
      /\ ~Has("minlength", "max")
      /\ ~(Has("maxlength", "min") /\ Has("maxlength", "max"))
      /\ \A name \in Lengths : Has(name, "min") => attributes[name]["min"] \in Nat
      /\ \A name \in Lengths : Has(name, "max") => attributes[name]["max"] \in Nat
  BY FormsAssumption DEF Additional
<1>2. Satisfies(RulesOf(f, S), value, vals) <=> \A name \in AdapterNames : Asks(name) => Meets(name)
  <2>1. Satisfies(RulesOf(f, S), value, vals)
           <=> \A i \in DOMAIN Registered : Asks(Registered[i]) => Meets(Registered[i])
    BY RulesOfEach DEF Adapters, Given
  <2>2. ASSUME \A i \in DOMAIN Registered : Asks(Registered[i]) => Meets(Registered[i]),
               NEW name \in AdapterNames, Asks(name)
        PROVE  Meets(name)
    <3>1. PICK i \in DOMAIN Registered : Registered[i] = name
      BY <1>1, <2>2, RegisteredNames
    <3> QED
      BY <2>2, <3>1
  <2>3. ASSUME \A name \in AdapterNames : Asks(name) => Meets(name),
               NEW i \in DOMAIN Registered, Asks(Registered[i])
        PROVE  Meets(Registered[i])
    BY <2>3, RegisteredNames
  <2> HIDE DEF Asks, Meets
  <2> QED
    BY <2>1, <2>2, <2>3
<1>3. value.length \in Nat /\ (Filled <=> ~(value.length = 0))
  BY FormsAssumption DEF Values, Blank
<1>4. Format(value) <=> (Filled => ~value.malformed)
  BY <1>3 DEF Format
<1>5. /\ Asks("accept") => (Meets("accept") <=> (Has("accept", "mimtype") => Format(value)))
      /\ Asks("extension") => (Meets("extension") <=> (Has("extension", "extension") => Format(value)))
      /\ Asks("regex") => (Meets("regex") <=> (Has("regex", "pattern") => Format(value)))
      /\ \A name \in Bools : Meets(name) <=> Format(value)
      /\ Asks("range") => (Meets("range") <=> (Has("range", "min") \/ Has("range", "max") => Format(value)))
      /\ Meets("remote") <=> Format(value)
      /\ Asks("fileextensions") =>
            (Meets("fileextensions") <=> (Has("fileextensions", "extensions") => Format(value)))
  BY FormatAdapters, Zenon
<1>6. Asks("length") => (Meets("length") <=> Long("length") /\ Short("length"))
  BY <1>1, LengthAdapters DEF Lengths
<1>7. Asks("minlength") => (Meets("minlength") <=> Long("minlength"))
  BY <1>1, LengthAdapters DEF Lengths
<1>8. Asks("maxlength") => (Meets("maxlength") <=> Long("maxlength") /\ Short("maxlength"))
  BY <1>1, LengthAdapters DEF Lengths
<1>9. Asks("password") =>
         (Meets("password") <=> /\ Long("password")
                                /\ Has("password", "nonalphamin") => Filled /\ ~value.malformed
                                /\ Has("password", "regex") => Format(value))
  BY <1>1, LengthAdapters DEF Lengths
<1>10. Asks("required") => (Meets("required") <=> (~markup[f].checkbox => Filled))
  BY PresenceAdapters
<1>11. Asks("equalto") =>
         (Meets("equalto") <=> \A g \in Other(f, attributes["equalto"], S) : vals[g] = value)
  BY PresenceAdapters
<1>12. (\A name \in AdapterNames : Asks(name) => Meets(name))
         <=> /\ Asks("required") => Meets("required")
             /\ Asks("equalto") => Meets("equalto")
             /\ \A name \in Lengths : Asks(name) => Meets(name)
             /\ \A name \in Bools : Asks(name) => Meets(name)
             /\ \A name \in {"accept", "extension", "regex", "range", "remote", "fileextensions"} :
                   Asks(name) => Meets(name)
  <2> HIDE DEF Asks, Meets
  <2> QED
    BY DEF AdapterNames, Lengths, Bools
<1> DEFINE Formatted ==
             \/ DOMAIN attributes \cap (Bools \cup {"remote"}) # {}
             \/ Has("accept", "mimtype") \/ Has("extension", "extension")
             \/ Has("regex", "pattern") \/ Has("password", "regex")
             \/ Has("range", "min") \/ Has("range", "max")
             \/ Has("fileextensions", "extensions")
<1>13. Acceptable(f, value, vals, S)
         <=> /\ Asks("required") /\ ~markup[f].checkbox => Filled
             /\ \A name \in Lengths : Long(name)
             /\ Short("length") /\ Short("maxlength")
             /\ Formatted => Format(value)
             /\ Has("password", "nonalphamin") => Filled /\ ~value.malformed
             /\ Asks("equalto") => \A g \in Other(f, attributes["equalto"], S) : vals[g] = value
  BY <1>4 DEF Acceptable
<1>14. Formatted <=> \/ \E name \in Bools : Asks(name)
                     \/ Asks("remote")
                     \/ Has("accept", "mimtype") \/ Has("extension", "extension")
                     \/ Has("regex", "pattern") \/ Has("password", "regex")
                     \/ Has("range", "min") \/ Has("range", "max")
                     \/ Has("fileextensions", "extensions")
  OBVIOUS
<1>15. \A name, param : Has(name, param) => Asks(name)
  OBVIOUS
<1>16. \A name : (Long(name) \/ Asks(name)) /\ (Short(name) \/ Asks(name))
  OBVIOUS
<1> HIDE DEF Asks, Has, Meets, Filled, Long, Short, Formatted
<1>17. (\A name \in Lengths : Asks(name) => Meets(name))
         <=> /\ \A name \in Lengths : Long(name)
             /\ Short("length") /\ Short("maxlength")
             /\ Has("password", "nonalphamin") => Filled /\ ~value.malformed
             /\ Has("password", "regex") => Format(value)
  BY <1>6, <1>7, <1>8, <1>9, <1>15, <1>16 DEF Lengths
<1>18. (\A name \in Bools : Asks(name) => Meets(name))
       /\ (\A name \in {"accept", "extension", "regex", "range", "remote", "fileextensions"} :
             Asks(name) => Meets(name))
       /\ (Has("password", "regex") => Format(value))
         <=> (Formatted => Format(value))
  BY <1>5, <1>14, <1>15
<1> QED
  BY <1>2, <1>10, <1>11, <1>12, <1>13, <1>15, <1>17, <1>18

----------------------------------------------------------------------------
(* How old the rules of the validator may be: two parses of an input give   *)
(* it the same rules, but for the element an equalTo compares with.         *)

SameButElement(rules, more) ==
  /\ DOMAIN rules \ {"equalTo"} = DOMAIN more \ {"equalTo"}
  /\ \A rule \in DOMAIN rules \ {"equalTo"} : rules[rule] = more[rule]

\* Of the adapters that give a rule there is a last one.
LEMMA LastExists ==
  ASSUME NEW S, S # {}, S \subseteq DOMAIN Registered
  PROVE  Max(S) \in S
<1> DEFINE below == {p \in Nat \X Nat : p[1] < p[2]}
           last_ == Len(Registered)
           after == {last_ - i : i \in S}
<1>1. IsWellFoundedOn(below, Nat)
  <2>1. below = OpToRel(<, Nat)
    BY DEF OpToRel
  <2> QED
    BY <2>1, NatLessThanWellFounded
<1>2. last_ \in Nat /\ DOMAIN Registered = 1..last_
  BY DEF Registered
<1>3. after \subseteq Nat /\ after # {}
  <2> HIDE DEF last_
  <2> QED
    BY <1>2
<1>4. PICK m \in after : \A n \in after : <<n, m>> \notin below
  <2> HIDE DEF below, after
  <2> QED
    BY <1>1, <1>3, WFMin
<1>5. ASSUME NEW n \in after
      PROVE  ~(n < m)
  <2>1. n \in Nat /\ m \in Nat /\ <<n, m>> \notin below
    BY <1>3, <1>4
  <2> QED
    BY <2>1
<1>6. PICK i \in S : m = last_ - i
  OBVIOUS
<1> HIDE DEF last_, below
<1>7. ASSUME NEW j \in S
      PROVE  i >= j
  <2>1. i \in Int /\ j \in Int /\ last_ \in Int
    BY <1>2
  <2>2. ~(last_ - j < last_ - i)
    BY <1>5, <1>6
  <2> QED
    BY <2>1, <2>2
<1> HIDE DEF after
<1>8. Max(S) = CHOOSE x \in S : \A y \in S : x >= y
  BY DEF Max
<1> QED
  BY <1>7, <1>8

\* An adapter gives an input the same rules whatever is in the form, but equalto.
LEMMA GivenAgrees ==
  ASSUME NEW f, NEW S, NEW T, NEW i \in Adapters(f)
  PROVE  /\ Given(i, f, S) = Given(i, f, T) \/ DOMAIN Given(i, f, S) \cup DOMAIN Given(i, f, T) \subseteq {"equalTo"}
<1> DEFINE params == markup[f].attributes[Registered[i]]
<1>1. CASE Registered[i] = "equalto"
  <2>1. \A U : DOMAIN Adapt("equalto", f, params, U) \subseteq {"equalTo"}
    <3> SUFFICES ASSUME NEW U
                 PROVE  DOMAIN Adapt("equalto", f, params, U) \subseteq {"equalTo"}
      OBVIOUS
    <3> HIDE DEF params
    <3>1. PICK param : Adapt("equalto", f, params, U) \in {NoRules, Single("equalTo", param)}
      BY DEF Adapt, Bools
    <3> QED
      BY <3>1 DEF NoRules, Single
  <2> QED
    BY <1>1, <2>1 DEF Given
<1>2. CASE Registered[i] # "equalto"
  <2>1. Registered[i] \in AdapterNames
    BY RegisteredNames DEF Adapters
  <2>2. Adapt(Registered[i], f, params, S) = Adapt(Registered[i], f, params, T)
    <3> HIDE DEF params
    <3> QED
      BY <1>2, <2>1 DEF Adapt, AdapterNames, Bools
  <2> QED
    BY <2>2 DEF Given
<1> QED
  BY <1>1, <1>2

\* The adapters that give an input a rule. It is there when there are any, and
\* the last one counts.
GiversOf(f, U, rule) == {i \in Adapters(f) : rule \in DOMAIN Given(i, f, U)}

LEMMA AdaptedValue ==
  ASSUME NEW f, NEW U, NEW rule
  PROVE  /\ rule \in DOMAIN Adapted(f, U) <=> GiversOf(f, U, rule) # {}
         /\ GiversOf(f, U, rule) # {} =>
               Adapted(f, U)[rule] = Given(Max(GiversOf(f, U, rule)), f, U)[rule]
<1> DEFINE Rules(i) == DOMAIN Given(i, f, U)
           Givers(r) == {i \in Adapters(f) : r \in Rules(i)}
<1>1. Adapted(f, U) = [r \in UNION {Rules(i) : i \in Adapters(f)} |-> Given(Max(Givers(r)), f, U)[r]]
  BY DEF Adapted
<1> HIDE DEF Rules
<1>2. rule \in UNION {Rules(i) : i \in Adapters(f)} <=> Givers(rule) # {}
  OBVIOUS
<1>3. /\ rule \in DOMAIN Adapted(f, U) <=> Givers(rule) # {}
      /\ Givers(rule) # {} => Adapted(f, U)[rule] = Given(Max(Givers(rule)), f, U)[rule]
  BY <1>1, <1>2
<1> QED
  BY <1>3 DEF Rules, GiversOf

LEMMA ParsesAgree ==
  ASSUME NEW f, NEW S, NEW T
  PROVE  SameButElement(RulesOf(f, S), RulesOf(f, T))
<1>1. ASSUME NEW rule, rule # "equalTo"
      PROVE  GiversOf(f, S, rule) = GiversOf(f, T, rule)
  BY <1>1, GivenAgrees DEF GiversOf
<1>2. ASSUME NEW rule, rule # "equalTo"
      PROVE  rule \in DOMAIN Adapted(f, S) <=> rule \in DOMAIN Adapted(f, T)
  BY <1>1, <1>2, AdaptedValue
<1>3. ASSUME NEW rule \in DOMAIN Adapted(f, S), rule # "equalTo"
      PROVE  Adapted(f, S)[rule] = Adapted(f, T)[rule]
  <2> DEFINE i == Max(GiversOf(f, S, rule))
  <2>1. GiversOf(f, S, rule) # {} /\ GiversOf(f, S, rule) \subseteq DOMAIN Registered
    <3>1. GiversOf(f, S, rule) # {}
      BY <1>3, AdaptedValue
    <3>2. GiversOf(f, S, rule) \subseteq DOMAIN Registered
      BY DEF GiversOf, Adapters
    <3> QED
      BY <3>1, <3>2
  <2>2. i \in GiversOf(f, S, rule)
    BY <2>1, LastExists
  <2>3. i \in Adapters(f) /\ rule \in DOMAIN Given(i, f, S)
    BY <2>2 DEF GiversOf
  <2>4. Given(i, f, S) = Given(i, f, T)
    <3> HIDE DEF i
    <3> QED
      BY <1>3, <2>3, GivenAgrees
  <2> QED
    BY <1>1, <1>3, <2>1, <2>4, AdaptedValue
<1>4. \A U : /\ DOMAIN RulesOf(f, U) = DOMAIN Adapted(f, U) \cup {"__dummy__"}
              /\ \A rule \in DOMAIN RulesOf(f, U) :
                    RulesOf(f, U)[rule] = IF rule = "__dummy__" THEN TRUE ELSE Adapted(f, U)[rule]
  BY DEF RulesOf, Extend, Single
<1>5. DOMAIN RulesOf(f, S) \ {"equalTo"} = DOMAIN RulesOf(f, T) \ {"equalTo"}
  BY <1>2, <1>4
<1>6. ASSUME NEW rule \in DOMAIN RulesOf(f, S) \ {"equalTo"}
      PROVE  RulesOf(f, S)[rule] = RulesOf(f, T)[rule]
  BY <1>3, <1>4, <1>5
<1> QED
  BY <1>5, <1>6 DEF SameButElement

\* The page stays what it is, and with it the rules a parse finds.
LEMMA RulesStay ==
  ASSUME markup' = markup, NEW f
  PROVE  RulesOf(f, {})' = RulesOf(f, {})
<1>1. Adapters(f)' = Adapters(f)
  BY DEF Adapters, Registered
<1>2. \A i : Given(i, f, {})' = Given(i, f, {})
  BY DEF Given, Adapt, Registered, Other, FullName
<1>3. Adapted(f, {})' = Adapted(f, {})
  BY <1>1, <1>2 DEF Adapted
<1> QED
  BY <1>3 DEF RulesOf

\* The options and the validator have for every input the rules of its markup.
FromMarkup(all) == \A f \in DOMAIN all : SameButElement(all[f], RulesOf(f, {}))
Fresh == FromMarkup(options) /\ FromMarkup(settings)

LEMMA FreshStep ==
  ASSUME Fresh, [Next]_vars
  PROVE  Fresh'
<1>1. markup' = markup
  BY DEF Next, Parse, ParseElement, InsertField, RemoveField, Type, CheckField, Destroy, Submit,
         AjaxValidate, Reset, formVars, vars
<1>2. ASSUME NEW all, FromMarkup(all), options' = all
      PROVE  FromMarkup(options)'
  BY <1>1, <1>2, RulesStay DEF FromMarkup, SameButElement
<1>3. ASSUME NEW all, FromMarkup(all), settings' = all
      PROVE  FromMarkup(settings)'
  BY <1>1, <1>3, RulesStay DEF FromMarkup, SameButElement
<1>4. FromMarkup(NoFields)
  BY DEF FromMarkup, NoFields
<1>5. ASSUME NEW S
      PROVE  FromMarkup(Parsed(S))
  <2>1. /\ DOMAIN Parsed(S) = DOMAIN options \cup S
        /\ \A f \in S : Parsed(S)[f] = RulesOf(f, present)
        /\ \A f \in DOMAIN options \ S : Parsed(S)[f] = options[f]
    BY DEF Parsed, Extend
  <2> QED
    BY <2>1, ParsesAgree DEF Fresh, FromMarkup
<1>6. ASSUME NEW all, FromMarkup(all), NEW g, NEW value
      PROVE  FromMarkup([f \in DOMAIN all |-> Detach(all[f], g, value)])
  BY <1>6, DetachedDomain DEF FromMarkup, SameButElement
<1>7. ASSUME NEW S, Parse(S)
      PROVE  Fresh'
  <2>1. options' = Parsed(S) /\ (settings' = settings \/ settings' = Parsed(S))
    BY <1>7 DEF Parse, AttachValidation
  <2> QED
    BY <1>2, <1>3, <1>5, <2>1 DEF Fresh
<1>8. ASSUME NEW f \in Fields, ParseElement(f)
      PROVE  Fresh'
  BY <1>2, <1>3, <1>5, <1>8 DEF ParseElement, Fresh
<1>9. ASSUME NEW f \in Fields, RemoveField(f)
      PROVE  Fresh'
  BY <1>2, <1>3, <1>6, <1>9 DEF RemoveField, Fresh
<1>10. CASE Destroy
  BY <1>2, <1>3, <1>4, <1>10 DEF Destroy, Fresh
<1>11. ASSUME UNCHANGED <<options, settings>>
       PROVE  Fresh'
  BY <1>2, <1>3, <1>11 DEF Fresh
<1>12. CASE \/ \E f \in Fields : InsertField(f) \/ (\E v \in Values : Type(f, v)) \/ CheckField(f)
            \/ Submit \/ AjaxValidate \/ Reset \/ UNCHANGED vars
  <2>1. UNCHANGED <<options, settings>>
    BY <1>12 DEF InsertField, Type, CheckField, Submit, AjaxValidate, Reset, rulesVars, vars
  <2> QED
    BY <1>11, <2>1
<1> QED
  BY <1>7, <1>8, <1>9, <1>10, <1>12 DEF Next

----------------------------------------------------------------------------
(* What is shown of the inputs that were just checked.                     *)

\* The box of an input that was just checked shows the verdict of the rules the
\* validator has for it: no step of another kind leaves an input just checked.
Checked ==
  \A f \in last.fields : f \in DOMAIN settings /\ (box[f] = "error" <=> Fails(f))

LEMMA CheckedStep ==
  ASSUME Inv, Checked, [Next]_vars
  PROVE  Checked'
<1>1. ASSUME NEW S \in SUBSET DOMAIN settings, S \subseteq Fields,
             box' = Shown(S), last'.fields = S, UNCHANGED <<settings, values>>
      PROVE  Checked'
  <2>1. \A f \in S : box'[f] = "error" <=> Fails(f)
    BY <1>1, ShownValue DEF Inv, TypeOK
  <2>2. \A f : Fails(f)' <=> Fails(f)
    BY <1>1 DEF Fails
  <2> QED
    BY <1>1, <2>1, <2>2 DEF Checked
<1>2. ASSUME NEW f \in Fields, CheckField(f)
      PROVE  Checked'
  <2>1. /\ {f} \in SUBSET DOMAIN settings /\ {f} \subseteq Fields
        /\ box' = Shown({f}) /\ last'.fields = {f} /\ UNCHANGED <<settings, values>>
    BY <1>2 DEF CheckField, Checkable, Event, formVars, rulesVars
  <2> QED
    BY <1>1, <2>1
<1>3. ASSUME Submit \/ AjaxValidate
      PROVE  Checked'
  <2>1. Form /\ UNCHANGED <<settings, values>>
    BY <1>3 DEF Submit, AjaxValidate, formVars, rulesVars
  <2>2. /\ Checkable \in SUBSET DOMAIN settings /\ Checkable \subseteq Fields
        /\ box' = Shown(Checkable) /\ last'.fields = Checkable
    BY <2>1 DEF Form, Checkable, Event, Inv, TypeOK
  <2> QED
    BY <1>1, <2>1, <2>2
<1>4. ASSUME last'.fields = {}
      PROVE  Checked'
  BY <1>4 DEF Checked
<1>5. CASE UNCHANGED vars
  BY <1>5 DEF vars, Checked, Fails
<1>6. CASE \/ \E S \in SUBSET present : Parse(S)
           \/ \E f \in Fields : \/ ParseElement(f) \/ InsertField(f) \/ RemoveField(f)
                                \/ \E v \in Values : Type(f, v)
           \/ Destroy \/ Reset
  <2>1. last' = Event("other", {}) \/ last' = Event("reset", {})
    BY <1>6, Zenon DEF Parse, ParseElement, InsertField, RemoveField, Type, Destroy, Reset
  <2>2. last'.fields = {}
    BY <2>1 DEF Event
  <2> QED
    BY <1>4, <2>2
<1> QED
  BY <1>2, <1>3, <1>5, <1>6 DEF Next

\* What the page shows of an input just checked is what its markup says of its value.
THEOREM MarkupShown == Spec => []ShownMatchesMarkup
<1>1. Init => Checked
  BY DEF Init, Checked, Event
<1>2. Init => Fresh
  BY DEF Init, Fresh, FromMarkup, NoFields
<1>3. Inv /\ Fresh /\ Checked => ShownMatchesMarkup
  <2> SUFFICES ASSUME Inv, Fresh, Checked, NEW f \in last.fields \cap Known, AsksOnce(f, present)
               PROVE  box[f] = "error" <=> ~Acceptable(f, values[f], values, present)
    BY DEF ShownMatchesMarkup
  <2> DEFINE asked == RulesOf(f, present)
  <2>1. /\ f \in Fields /\ markup \in Forms /\ values[f] \in Values /\ present \in SUBSET Fields
        /\ f \in DOMAIN settings /\ Reference(settings[f]) = Reference(asked)
    BY DEF Inv, TypeOK, Known, Checkable
  <2>2. SameButElement(settings[f], RulesOf(f, {})) /\ SameButElement(asked, RulesOf(f, {}))
    BY <2>1, ParsesAgree DEF Fresh, FromMarkup
  <2> HIDE DEF asked
  <2>3. /\ "equalTo" \in DOMAIN settings[f] <=> "equalTo" \in DOMAIN asked
        /\ "equalTo" \in DOMAIN asked => settings[f]["equalTo"] = asked["equalTo"]
    BY <2>1 DEF Reference
  <2>4. /\ DOMAIN settings[f] = DOMAIN asked
        /\ \A rule \in DOMAIN asked : settings[f][rule] = asked[rule]
    BY <2>2, <2>3 DEF SameButElement
  <2>5. \A rule \in DOMAIN asked :
           Accepts(settings[f], rule, values[f], values) <=> Accepts(asked, rule, values[f], values)
    BY <2>4, AcceptsByParam
  <2>6. Fails(f) <=> ~Satisfies(asked, values[f], values)
    BY <2>4, <2>5, Zenon DEF Fails, Satisfies
  <2>7. Satisfies(asked, values[f], values) <=> Acceptable(f, values[f], values, present)
    BY <2>1, MarkupRules DEF asked
  <2> QED
    BY <2>6, <2>7 DEF Checked
<1> QED
  BY <1>1, <1>2, <1>3, CheckedStep, FreshStep, Invariance, PTL DEF Spec
=============================================================================
