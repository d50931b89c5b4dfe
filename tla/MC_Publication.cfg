SPECIFICATION Spec
CONSTANTS
    Cpus = {c1, c2}
    Flows = {f1}
    RuleCount = 2
    Variants = 2
    Options <- MCOptions
    NoOptions = NoOptions
    TemplateEntries = 18
    ConfigEntries = 3
    MaxGen = 4
SYMMETRY Symmetry
INVARIANTS
    RequestsAreServed
    NoMixedBytes
    PublishedOrAbsent
    NeverFull
CHECK_DEADLOCK FALSE
