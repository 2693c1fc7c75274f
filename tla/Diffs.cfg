SPECIFICATION FairSpec
CONSTANTS
    a = a
    b = b
    c = c
    socket = socket
    session = session
    file = file
    tabA = tabA
    tabB = tabB
    Requests = {a, b, c}
    Conns = {socket, session}
    Sessions = {session}
    Owner <- Owners
    File <- OneFile
    Name <- TwoNames
    Worlds <- Mixed
    EventCapacity = 1
INVARIANTS
    TypeOK
    WaitsWithATab
    TabsCanGo
PROPERTIES
    DrainEnds
    WithdrawnTabGoes
    EveryCallKept
CHECK_DEADLOCK FALSE
