------------------------ MODULE UnobtrusiveValidation ------------------------
(***************************************************************************)
(* The script jquery.validate.unobtrusive.js of WebApplicationTest on one  *)
(* form of a page: it parses the data-val-* attributes of the inputs into  *)
(* the options of jQuery Validate, hands them to the validator of the form *)
(* and shows the validator's verdicts in the message boxes and the summary *)
(* of the form.                                                            *)
(*                                                                         *)
(* The page's own scripts insert and remove inputs, ask for a parse, a     *)
(* check or a validation, and may destroy the validator; the user types,   *)
(* submits and resets the form. JavaScript runs one event at a time, so a  *)
(* handler is one step. Of jquery.validate.js 1.17 the checks and what the *)
(* script uses are modelled: the validator takes a deep copy of the        *)
(* options when it is made, validate(options) returns the one there is.    *)
(* Inputs are visible and enabled and have no rules but those of the       *)
(* script, buttons do not cancel validation.                               *)
(***************************************************************************)
EXTENDS UnobtrusiveAdapters

VARIABLES
    present,    \* the inputs in the form now
    values,     \* what they hold
    options,    \* the rules in the options of validationInfo, by input
    info,       \* the form has the data "unobtrusiveValidation"
    validator,  \* the form has the data "validator"
    settings,   \* the rules the validator was made with, by input
    handlers,   \* the handlers bound to "reset.unobtrusiveValidation"
    resetting,  \* the data "__jquery_unobtrusive_validation_form_reset"
    box,        \* the class of each message box
    summary,    \* the class of the summary, or that the page has none
    listed,     \* the inputs whose messages the summary lists
    last        \* history: the last event and the inputs it checked

vars == <<markup, present, values, options, info, validator, settings, handlers, resetting,
          box, summary, listed, last>>

formVars == <<markup, present, values>>
rulesVars == <<options, info, validator, settings, handlers>>
shownVars == <<box, summary, listed>>

Classes == {"valid", "error"}
Events == {"other", "checked", "sent", "rejected", "reset"}

Event(name, fields) == [event |-> name, fields |-> fields]

NoFields == [f \in {} |-> NoRules]

TypeOK ==
    /\ markup \in Forms
    /\ present \subseteq Fields
    /\ values \in [Fields -> Values]
    /\ DOMAIN options \subseteq Fields
    /\ info \in BOOLEAN /\ validator \in BOOLEAN /\ resetting \in BOOLEAN
    /\ DOMAIN settings \subseteq DOMAIN options
    /\ handlers \in 0..1
    /\ box \in [Fields -> Classes] /\ summary \in Classes \cup {"none"}
    /\ listed \subseteq Fields
    /\ last \in [event : Events, fields : SUBSET Fields]

\* The page as the server renders it, before the script's ready handler.
Init ==
    /\ markup \in Forms
    /\ present \in SUBSET Fields
    /\ values = [f \in Fields |-> Blank]
    /\ options = NoFields /\ settings = NoFields
    /\ info = FALSE /\ validator = FALSE
    /\ handlers = 0 /\ resetting = FALSE
    /\ box = [f \in Fields |-> "valid"] /\ summary \in {"valid", "none"}
    /\ listed = {}
    /\ last = Event("other", {})

----------------------------------------------------------------------------
(* Parsing *)

\* Mutant: the handler bound before is not taken off.
AttachWithoutOff(opts) ==
    /\ handlers' = handlers + 1
    /\ validator' = TRUE
    /\ settings' = IF validator THEN settings ELSE opts

\* attachValidation with the given options: the proxy of onReset replaces
\* the one bound before, and validate() makes a validator if there is none.
AttachValidation(opts) ==
    /\ handlers' = 1
    /\ validator' = TRUE
    /\ settings' = IF validator THEN settings ELSE opts

\* Every parsed input gets new rules in the options of the form.
Parsed(S) == Extend(options, [f \in S |-> RulesOf(f, present)])

\* parse, of the document or of a part of the form: S are the inputs in it. A
\* form with no input to validate is left alone.
Parse(S) ==
    /\ S \subseteq present
    /\ present # {}
    /\ options' = Parsed(S)
    /\ info' = TRUE
    /\ AttachValidation(Parsed(S))
    /\ last' = Event("other", {})
    /\ UNCHANGED <<formVars, shownVars, resetting>>

\* parseElement with skipAttach; without it, it is Parse({f}).
ParseElement(f) ==
    /\ f \in present
    /\ options' = Parsed({f})
    /\ info' = TRUE
    /\ last' = Event("other", {})
    /\ UNCHANGED <<formVars, shownVars, validator, settings, handlers, resetting>>

----------------------------------------------------------------------------
(* The page and its user *)

InsertField(f) ==
    /\ f \notin present
    /\ present' = present \cup {f}
    /\ values' = [values EXCEPT ![f] = Blank]
    /\ box' = [box EXCEPT ![f] = "valid"]
    /\ last' = Event("other", {})
    /\ UNCHANGED <<markup, rulesVars, resetting, summary, listed>>

\* The rules of the options and of the validator go on referring to the element.
RemoveField(f) ==
    /\ f \in present
    /\ present' = present \ {f}
    /\ options' = [g \in DOMAIN options |-> Detach(options[g], f, values[f])]
    /\ settings' = [g \in DOMAIN settings |-> Detach(settings[g], f, values[f])]
    /\ last' = Event("other", {})
    /\ UNCHANGED <<markup, values, info, validator, handlers, resetting, shownVars>>

Type(f, v) ==
    /\ f \in present
    /\ v # values[f]
    /\ values' = [values EXCEPT ![f] = v]
    /\ last' = Event("other", {})
    /\ UNCHANGED <<markup, present, rulesVars, resetting, shownVars>>

\* A page script calls destroy() on the validator: its handlers go with it,
\* that of reset is not among them.
Destroy ==
    /\ validator
    /\ validator' = FALSE
    /\ settings' = NoFields
    /\ last' = Event("other", {})
    /\ UNCHANGED <<formVars, options, info, handlers, resetting, shownVars>>

----------------------------------------------------------------------------
(* Validation *)

\* The inputs the validator has rules for.
Checkable == present \cap DOMAIN settings

\* The first rule that does not accept the value fails the input.
Fails(f) ==
    \E rule \in DOMAIN settings[f] : ~Accepts(settings[f], rule, values[f], values)

\* An input whose only rule does not apply to an empty value is no success.
Succeeds(f) ==
    /\ ~Fails(f)
    /\ \A rule \in DOMAIN settings[f] :
          values[f].length = 0 /\ Optional(rule) => DOMAIN settings[f] # {rule}

\* onError for every message, and onError then onSuccess for every success: the
\* label of an earlier message is never found again, so each one is placed anew.
OnError(boxes, S) == [f \in Fields |-> IF f \in S THEN "error" ELSE boxes[f]]
OnSuccess(boxes, S) == [f \in Fields |-> IF f \in S THEN "valid" ELSE boxes[f]]

Shown(S) ==
    LET failed == {f \in S : Fails(f)}
        succeeded == {f \in S : Succeeds(f)}
    IN  OnSuccess(OnError(box, failed \cup succeeded), succeeded)

\* The validator checks one input: a blur, a key, or a call of valid().
CheckField(f) ==
    /\ validator
    /\ f \in Checkable
    /\ box' = Shown({f})
    /\ last' = Event("checked", {f})
    /\ UNCHANGED <<formVars, rulesVars, resetting, summary, listed>>

\* Mutant: the list is not emptied first.
OnErrorsWithoutEmpty(failed) ==
    IF failed = {} \/ summary = "none" THEN UNCHANGED <<summary, listed>>
    ELSE summary' = "error" /\ listed' = listed \cup failed

\* onErrors: the summary lists the messages of this validation.
OnErrors(failed) ==
    IF failed = {} \/ summary = "none" THEN UNCHANGED <<summary, listed>>
    ELSE summary' = "error" /\ listed' = failed

\* The validator checks every input when the form is submitted.
Form ==
    LET failed == {f \in Checkable : Fails(f)}
    IN  /\ OnErrors(failed)
        /\ box' = Shown(Checkable)
        /\ last' = Event(IF failed = {} THEN "sent" ELSE "rejected", Checkable)

Submit ==
    /\ validator
    /\ Form
    /\ UNCHANGED <<formVars, rulesVars, resetting>>

\* info.validate, called by unobtrusive Ajax: a validator with no rules is made
\* when the form has none.
AjaxValidate ==
    /\ info
    /\ validator' = TRUE
    /\ Form
    /\ UNCHANGED <<formVars, options, info, settings, handlers, resetting>>

----------------------------------------------------------------------------
(* onReset *)

\* The browser sets the values back before or after; here it leaves them blank.
Cleared == [f \in Fields |-> Blank]

\* resetForm hides what it finds; what follows it sets the classes back.
ResetForm ==
    /\ box' = [f \in Fields |-> IF f \in present THEN "valid" ELSE box[f]]
    /\ summary' = IF summary = "none" THEN "none" ELSE "valid"
    /\ UNCHANGED listed

\* Mutant: the flag is taken back only when resetForm returns.
ResetThrowsWithoutFinally ==
    /\ resetting' = TRUE
    /\ UNCHANGED shownVars

\* Without a validator resetForm throws; finally takes the flag back.
ResetThrows ==
    /\ resetting' = FALSE
    /\ UNCHANGED shownVars

OnReset ==
    IF resetting THEN UNCHANGED <<resetting, shownVars>>
    ELSE IF validator THEN ResetForm /\ resetting' = FALSE
    ELSE ResetThrows

Reset ==
    /\ values' = Cleared
    /\ IF handlers > 0 THEN OnReset ELSE UNCHANGED <<resetting, shownVars>>
    /\ last' = Event("reset", {})
    /\ UNCHANGED <<markup, present, rulesVars>>

----------------------------------------------------------------------------

Next ==
    \/ \E S \in SUBSET present : Parse(S)
    \/ \E f \in Fields :
          \/ ParseElement(f)
          \/ InsertField(f)
          \/ RemoveField(f)
          \/ \E v \in Values : Type(f, v)
          \/ CheckField(f)
    \/ Destroy
    \/ Submit
    \/ AjaxValidate
    \/ Reset

Spec == Init /\ [][Next]_vars

----------------------------------------------------------------------------
(* Properties *)

\* The element an input is compared with.
Reference(rules) == IF "equalTo" \in DOMAIN rules THEN {rules["equalTo"]} ELSE {}

\* The inputs the validator compares with the element a parse would find now, or
\* with none when it would find none.
Known == {f \in Checkable : Reference(settings[f]) = Reference(RulesOf(f, present))}

\* The box of an input that was just checked is in error exactly when its
\* value is not what its data-val attributes ask for, whatever was checked,
\* parsed, reset or destroyed before: an optional input that is emptied, whose
\* rules none apply, leaves the error state too. Of an input that asks for a rule
\* twice this says nothing: the script lets the later attribute win. Nor does it
\* of one whose equalTo rule was made before the other input was inserted or
\* removed: the adapter looks that one up once, when it parses.
ShownMatchesMarkup ==
    \A f \in last.fields \cap Known : AsksOnce(f, present) =>
        (box[f] = "error" <=> ~Acceptable(f, values[f], values, present))

\* A form the validator lets go shows no error in an input it was checked for,
\* one it keeps back shows one, and then the summary, if the page has one, is in
\* error and lists exactly the inputs whose boxes that validation put in error.
SummaryNamesFailures ==
    LET wrong == {f \in last.fields : box[f] = "error"}
    IN  /\ last.event = "sent" => wrong = {}
        /\ last.event = "rejected" => wrong # {}
        /\ last.event = "rejected" /\ summary # "none" => summary = "error" /\ listed = wrong

\* A reset of a form that has a validator leaves no box and no summary in
\* error, also when an earlier reset threw for want of a validator.
ResetClears ==
    last.event = "reset" /\ validator /\ handlers > 0 =>
        /\ summary # "error"
        /\ \A f \in present : box[f] = "valid"
=============================================================================
