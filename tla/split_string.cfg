SPECIFICATION Spec
CONSTANTS
    Chars = {"a", "/"}
    ptrn = {"/"}
    MaxLength = 6
    Strings <- MCStrings
    Leftovers <- MCLeftovers
INVARIANTS
    SplitInv
    ReturnsFields
CHECK_DEADLOCK FALSE
