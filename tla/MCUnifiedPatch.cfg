CONSTANTS
    Lines <- MCLines
    Inputs <- MCInputs
    Contexts = {0, 1, 2}
    EmptyLine = ""
    Chomp <- MCChomp
SPECIFICATION Spec
INVARIANTS
    ScriptIsMinimal
    AnchorsAreLongest
    PatchReproduces
    DamageIsNoticed
    ApplyIsSplice
CHECK_DEADLOCK FALSE
