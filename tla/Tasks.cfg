SPECIFICATION FairSpec
CONSTANTS
    s1 = s1
    s2 = s2
    t1 = t1
    t2 = t2
    Stores = {s1, s2}
    Tasks = {t1, t2}
    Latest = 4
    Cases <- Cases1
INVARIANTS
    TypeOK
    IndexIsBacked
PROPERTIES
    NothingTakenBack
    EditsAreSaved
