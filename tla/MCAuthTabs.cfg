\* Two tabs, one person who signs in once, one renewal, one discarded document.
\* The bounds on sign-ins and tokens may leave nothing to do.
CONSTANTS
    t1 = t1
    t2 = t2
    ana = ana
    Tab = {t1, t2}
    Person = {ana}
    NoPerson = NoPerson
    MaxToken = 2
    MaxSession = 1
    MaxDiscard = 1
SPECIFICATION FairSpec
INVARIANTS TypeOK LogoutReachesEveryTab
PROPERTIES OnlyTheUntoldRevive EveryRenewalSettles NoLoginLoop
CHECK_DEADLOCK FALSE
