SPECIFICATION Spec
CONSTANTS
    s1 = s1
    s2 = s2
    t1 = t1
    t2 = t2
    Stores = {s1, s2}
    Tasks = {t1}
    Latest = 2
    Cases <- Cases2
INVARIANT
    SurvivesWithItsEdit
