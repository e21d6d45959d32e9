CONSTANTS
    Directive = {"d1", "d2"}
    Addition = {"a1"}
    MaxMishaps = 0
SPECIFICATION ProSpec
INVARIANT DirectivesSurvive
CHECK_DEADLOCK FALSE
