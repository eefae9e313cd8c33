SPECIFICATION Spec
CONSTANTS
    c1 = c1
    c2 = c2
    n1 = n1
    t1 = t1
    t2 = t2
    Names = {n1}
    Terms = {t1, t2}
    Conns = {c1, c2}
    IDs = {c1, c2}
    Listeners <- MCListeners
    ListenerCap = 1
    NoTerm = NoTerm
    NoSize = NoSize
    IDOf <- MCIDOf
    Shell = Shell
    Tmux = Tmux
    Plans <- MCPlans
    Inits <- MCInits
    Sizes <- MCSizes
    QueueCap = 1
    BufferLimit = 1
    NoConn = NoConn
INVARIANTS
    TypeOK
    NamesReachShells
    DeadNamesFade
    OnlyOwnShellsKilled
    FitsEveryViewer
    StreamIntact
    AtMostOneLateFrame
PROPERTIES
    HandlersEnd
    
CHECK_DEADLOCK FALSE
