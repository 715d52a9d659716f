SPECIFICATION FairSpec
CONSTANTS
    Timer = {t1, t2, t3}
    NoTimer = NoTimer
    MaxOutages = 5
INVARIANTS
    IInv
    OneTimer
    FourOutagesAreSurvived
PROPERTIES
    ClosedStaysQuiet
    StartedUpdates
