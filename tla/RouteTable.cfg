SPECIFICATION Spec
CONSTANTS
    public = public
    local = local
    cheap = cheap
    c1 = c1
    c2 = c2
    Calls = {c1, c2}
    Menu <- ThreeRules
    TestRule <- Echo
    Prices = {cheap, NaN}
    BadPrice = NaN
    Backends = {public, local}
    Private = {local}
    Paths <- RequestLines
    Param = Param
    Torn = Torn
    Idle = Idle
    MaxFile = 2
    MaxEdits = 3
SYMMETRY Symmetry
INVARIANTS
    TypeOK
    RoutedToMostSpecific
    OneRulePerTool
    OnlyVettedBackends
    AckedSurvives
CHECK_DEADLOCK FALSE
