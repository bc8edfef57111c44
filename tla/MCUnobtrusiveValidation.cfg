CONSTANTS
    Fields <- MCFields
    Forms <- MCForms
    HasExtension = TRUE
    MaxLength = 2

SPECIFICATION Spec

INVARIANTS
    TypeOK
    ShownMatchesMarkup
    SummaryNamesFailures
    ResetClears
