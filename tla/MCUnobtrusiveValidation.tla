----------------------- MODULE MCUnobtrusiveValidation -----------------------
EXTENDS UnobtrusiveValidation

MCFields == {"one", "two"}

NoParams == NoRules

Input(name, attributes) ==
    [name |-> <<"Input.", name>>, checkbox |-> FALSE, attributes |-> attributes]

\* An optional password and its confirmation.
Registration ==
    [one |-> Input("Password", [length |-> [min |-> 2]]),
     two |-> Input("Confirm", [equalto |-> [other |-> <<"*", "Password">>],
                               regex |-> [pattern |-> "p"], required |-> NoParams])]

\* The rules of the membership provider, and a box to tick.
Membership ==
    [one |-> Input("Password", [password |-> [min |-> 2, nonalphamin |-> 1]]),
     two |-> [Input("Terms", [required |-> NoParams]) EXCEPT !.checkbox = TRUE]]

\* Bounds on one input, formats on the other.
Upload ==
    [one |-> Input("Title", [length |-> [min |-> 1, max |-> 1], maxlength |-> [max |-> 2]]),
     two |-> Input("File", [fileextensions |-> [extensions |-> "png"], remote |-> NoParams,
                            range |-> [min |-> 1, max |-> 9], email |-> NoParams])]

MCForms == {Registration, Membership, Upload}
=============================================================================
