------------------------- MODULE UnobtrusiveAdapters -------------------------
(***************************************************************************)
(* The adapters of jquery.validate.unobtrusive.js: the rules that the      *)
(* data-val-* attributes of an input become, and what the methods of       *)
(* jquery.validate.js say of a value. A function from the names of the     *)
(* adapters an element has attributes for to the parameters it gives them  *)
(* stands for the attributes; messages are left out.                       *)
(*                                                                         *)
(* A value a user types is abstracted to its length and to whether it      *)
(* breaks the format (pattern, number, date, ...) the element asks for.    *)
(***************************************************************************)
EXTENDS Naturals, Sequences, SequencesExt

CONSTANTS
    Fields,         \* the inputs of the form
    Forms,          \* bound: the pages, each a function from Fields to markup
    HasExtension,   \* additional-methods.js of jQuery Validate is loaded
    MaxLength       \* bound: length of a value

VARIABLE markup \* the page: what it is does not change

\* Adapters whose methods are in additional-methods.js, and those that bound the
\* length of a value.
Additional == {"accept", "extension", "creditcard", "fileextensions"}
Lengths == {"length", "minlength", "maxlength", "password"}

\* The name of an input is a pair, its model prefix and its name in the model;
\* the parameter "other" of equalto is such a pair with "*" for that prefix. The
\* script keeps rules by name, and inputs of one name, radio buttons, are left
\* out. A page asks for no rule whose method is missing, that of a minlength or
\* a maxlength with both bounds included, where the validator would throw, and
\* for no equalto without "other", where the adapter would.
ASSUME FormsAssumption ==
    /\ MaxLength \in Nat
    /\ \A form \in Forms : \A f, g \in Fields : form[f].name = form[g].name => f = g
    /\ \A form \in Forms, f \in Fields :
          LET attributes == form[f].attributes
              Has(adapter, param) == adapter \in DOMAIN attributes /\ param \in DOMAIN attributes[adapter]
          IN  /\ DOMAIN form[f] = {"name", "checkbox", "attributes"}
              /\ ~HasExtension => DOMAIN attributes \cap Additional = {}
              /\ "equalto" \in DOMAIN attributes => Has("equalto", "other")
              /\ ~Has("minlength", "max")
              /\ ~(Has("maxlength", "min") /\ Has("maxlength", "max"))
              /\ \A adapter \in Lengths, bound \in {"min", "max"} :
                    Has(adapter, bound) => attributes[adapter][bound] \in Nat

----------------------------------------------------------------------------

Blank == [length |-> 0, malformed |-> FALSE]
Values == {Blank} \cup [length : 1..MaxLength, malformed : BOOLEAN]

\* The rules of an input are a function from their names to their parameters.
NoRules == [rule \in {} |-> TRUE]
Single(rule, param) == [r \in {rule} |-> param]

\* $.extend: the properties of more over those of rules.
Extend(rules, more) ==
    [r \in DOMAIN rules \cup DOMAIN more |-> IF r \in DOMAIN more THEN more[r] ELSE rules[r]]

\* setValidationValues. jQuery drops a rule whose value is undefined.
Rule(name, params, param) ==
    IF param \in DOMAIN params THEN Single(name, params[param]) ELSE NoRules

\* adapters.addMinMax: one rule for both bounds, or for the bound there is.
MinMax(params, minRule, maxRule, minMaxRule) ==
    IF {"min", "max"} \subseteq DOMAIN params
    THEN Single(minMaxRule, <<params["min"], params["max"]>>)
    ELSE Extend(Rule(minRule, params, "min"), Rule(maxRule, params, "max"))

\* getModelPrefix and appendModelPrefix: "*." is the prefix of the element.
FullName(f, other) ==
    <<IF other[1] = "*" THEN markup[f].name[1] ELSE other[1], other[2]>>

\* The input the equalto adapter finds in the form, among those there now.
Other(f, params, present) == {g \in present : markup[g].name = FullName(f, params["other"])}

\* The rule keeps the DOM element of that input. An element that is taken out of
\* the form keeps its value; an input inserted again has another element.
Element(g) == [input |-> g, attached |-> TRUE, value |-> Blank]
Removed(g, value) == [input |-> g, attached |-> FALSE, value |-> value]
Held(element, values) == IF element.attached THEN values[element.input] ELSE element.value

\* The rules that have the element of g for a parameter, when g is removed.
Detach(rules, g, value) ==
    IF "equalTo" \in DOMAIN rules /\ rules["equalTo"] = Element(g)
    THEN [rules EXCEPT !["equalTo"] = Removed(g, value)] ELSE rules

\* Adapters in the order the script registers them.
Registered ==
    (IF HasExtension THEN <<"accept", "extension">> ELSE <<"extension">>) \o
    <<"regex", "creditcard", "date", "digits", "email", "number", "url", "length", "range",
      "minlength", "maxlength", "equalto", "required", "remote", "password", "fileextensions">>

\* adapters.addBool
Bools == {"creditcard", "date", "digits", "email", "number", "url"}

\* The adapt function of an adapter.
Adapt(adapter, f, params, present) ==
    CASE adapter = "accept" -> Rule("accept", params, "mimtype")
      [] adapter = "extension" -> Rule(IF HasExtension THEN "extension" ELSE "accept", params, "extension")
      [] adapter = "regex" -> Rule("regex", params, "pattern")
      [] adapter \in Bools -> Single(adapter, TRUE)
      [] adapter = "length" -> MinMax(params, "minlength", "maxlength", "rangelength")
      [] adapter = "range" -> MinMax(params, "min", "max", "range")
      [] adapter = "minlength" -> MinMax(params, "minlength", "undefined", "undefined")
      [] adapter = "maxlength" -> MinMax(params, "minlength", "maxlength", "undefined")
      [] adapter = "equalto" ->
            IF Other(f, params, present) = {} THEN NoRules
            ELSE Single("equalTo", Element(CHOOSE g \in Other(f, params, present) : TRUE))
      [] adapter = "required" -> IF markup[f].checkbox THEN NoRules ELSE Single("required", TRUE)
      [] adapter = "remote" -> Single("remote", TRUE)
      [] adapter = "password" ->
            Extend(Rule("minlength", params, "min"),
                   Extend(Rule("nonalphamin", params, "nonalphamin"), Rule("regex", params, "regex")))
      [] adapter = "fileextensions" -> Rule("extension", params, "extensions")

\* The adapters the element has attributes for, and the rules each gives.
Adapters(f) == {i \in DOMAIN Registered : Registered[i] \in DOMAIN markup[f].attributes}
Given(i, f, present) == Adapt(Registered[i], f, markup[f].attributes[Registered[i]], present)

\* parseElement: the rules of every adapter, a later one over an earlier one
\* (and, in place of what follows, a mutant),
Adapted(f, present) ==
    LET Givers(rule) == {i \in Adapters(f) : rule \in DOMAIN Given(i, f, present)}
    IN  [rule \in UNION {DOMAIN Given(i, f, present) : i \in Adapters(f)} |->
            Given(Max(Givers(rule)), f, present)[rule]]

\* and the rule that every value satisfies.
RulesOf(f, present) == Extend(Adapted(f, present), Single("__dummy__", TRUE))

----------------------------------------------------------------------------

\* What the methods of jquery.validate.js, and the three the script adds, say of
\* a value. An answer of the remote method is taken to come at once.
Accepts(rules, rule, value, values) ==
    CASE rule = "__dummy__" -> TRUE
      [] rule = "required" -> value.length > 0
      [] rule = "nonalphamin" -> value.length > 0 /\ ~value.malformed
      [] rule = "equalTo" -> value = Held(rules[rule], values)
      [] rule = "minlength" -> value.length = 0 \/ value.length >= rules[rule]
      [] rule = "maxlength" -> value.length <= rules[rule]
      [] rule = "rangelength" -> value.length = 0 \/ value.length \in rules[rule][1]..rules[rule][2]
      [] OTHER -> value.length = 0 \/ ~value.malformed

\* The methods that answer "dependency-mismatch" for an empty value.
Optional(rule) == rule \notin {"__dummy__", "required", "nonalphamin", "equalTo", "regex"}

\* What the attributes ask of a value, read one by one. A format without its
\* parameter asks for nothing.
Acceptable(f, value, values, present) ==
    LET attributes == markup[f].attributes
        Has(adapter, param) == adapter \in DOMAIN attributes /\ param \in DOMAIN attributes[adapter]
        Filled == value.length > 0
        Formatted ==
            \/ DOMAIN attributes \cap (Bools \cup {"remote"}) # {}
            \/ Has("accept", "mimtype") \/ Has("extension", "extension")
            \/ Has("regex", "pattern") \/ Has("password", "regex")
            \/ Has("range", "min") \/ Has("range", "max")
            \/ Has("fileextensions", "extensions")
    IN  /\ "required" \in DOMAIN attributes /\ ~markup[f].checkbox => Filled
        /\ \A adapter \in Lengths :
              Filled /\ Has(adapter, "min") => value.length >= attributes[adapter]["min"]
        /\ \A adapter \in {"length", "maxlength"} :
              Has(adapter, "max") => value.length <= attributes[adapter]["max"]
        /\ Filled /\ Formatted => ~value.malformed
        /\ Has("password", "nonalphamin") => Filled /\ ~value.malformed
        /\ "equalto" \in DOMAIN attributes =>
              \A g \in Other(f, attributes["equalto"], present) : values[g] = value

\* Each rule of the input comes from one of its attributes: where two ask for the
\* same rule the script keeps the later one only.
AsksOnce(f, present) ==
    \A i, j \in Adapters(f) : DOMAIN Given(i, f, present) \cap DOMAIN Given(j, f, present) # {} => i = j
=============================================================================
