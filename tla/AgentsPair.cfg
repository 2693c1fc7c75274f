SPECIFICATION Spec
CONSTANTS
    r1 = r1
    r2 = r2
    developer = developer
    taskA = taskA
    taskB = taskB
    project = project
    Runs = {r1, r2}
    Restored = {r1}
    Keys = {developer}
    Pairs = {taskA, taskB}
    Projects = {project}
    PairOf <- SameTask
    KeyOf <- OneRole
    ProjectOf <- OneProject
    AgentLimit <- TwoEach
    ProjectLimit <- TwoEach
    OpeningRequeues = 1
    MaxGen = 3
    MaxFrames = 1
    Overlapping = FALSE
    Budgets <- OnePair
INVARIANTS
    OneRunPerPair
    OneChildStays
    SlotsCovered
PROPERTIES
    EndedStaysEnded
\* The system may stop: every run ended, or a person's press away from going on
CHECK_DEADLOCK FALSE
