CONSTANTS
    Lines <- MCLines
    Inputs <- PlainInputs
    Contexts = {0}
    EmptyLine = ""
    Chomp <- MCChomp
SPECIFICATION Spec
INVARIANT RoundTrips
CHECK_DEADLOCK FALSE
