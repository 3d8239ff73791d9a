SPECIFICATION FairSpec
CONSTANTS
    Caller = {c1, c2, c3}
    Box = {b1, b2, b3, b4}
    null = null
INVARIANTS
    TypeOK
    ReferencesAreValid
    EveryBoxIsOwned
PROPERTIES
    BuildsBeforeFirstReturn
    CallReturns
    ImplementsOnceValue
