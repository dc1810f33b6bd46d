SPECIFICATION Spec
CONSTANTS
    nsims = 2
    Threads = {t1, t2}
    max_split_tries = 2
    Calls <- TwoCalls
INVARIANTS
    OneThreadPerSlot
    ContextIsOfThePlanInHand
    AncestryIsTold
    CachesFollowThePlans
    WeightsAreThoseOfASingleRun
PROPERTY
    RunEnds
