SPECIFICATION Spec
CONSTANTS
    r1 = r1
    r2 = r2
    developer = developer
    taskA = taskA
    taskB = taskB
    project = project
    Runs = {r1, r2}
    Restored = {}
    Keys = {developer}
    Pairs = {taskA, taskB}
    Projects = {project}
    PairOf <- TwoTasks
    KeyOf <- OneRole
    ProjectOf <- OneProject
    AgentLimit <- OneEach
    ProjectLimit <- TwoEach
    OpeningRequeues = 1
    MaxGen = 2
    MaxFrames = 1
    Overlapping = FALSE
    Budgets <- Ending
INVARIANTS
    EndedFreesItsCheckout
\* The system may stop: every run ended, or a person's press away from going on
CHECK_DEADLOCK FALSE
