SPECIFICATION FairSpec
CONSTANTS
    IA = {1, 2}
    IfaceOf <- Apart
    Offers <- Both
    IRT = 2
    MRT = 5
    Forever = 25
    Late = FALSE
INVARIANTS TypeOK TimedByLease OnTime
PROPERTIES KeptWhileValid Settles
