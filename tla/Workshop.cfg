SPECIFICATION WorkshopSpec
CONSTANTS
    Requests = {r1, r2}
    Techs = {t1, t2}
    MaxTime = 2
    MaxRows = 2
    MaxHistory = 2
    StockDis = {d1}
    PartNames = {"p", "q", "r"}
    Parts = {"p", "q"}
    Commits = {c1, c2}
    Forms = {f1, f2}
    MaxQuantity = 2
    MaxDrawnEach = 2
    MaxStockOps = 3
    StoredDis = {d1, d2}
    Locations = {"A", "B"}
    Placers = {p1, p2}
    MaxPlacements = 3
    Jobs = {j1, j2}
    Names = {"a", "b"}
    Files <- MCFiles
    MaxRef = 2
    MaxClients = 3
    Starts <- MCStarts
    MaxUserOps = 1
    BatchSize = 2
    Asks = {q1, q2}
    TicketNames = {"p", "q"}
    Tickets <- MCTickets
    MaxAsks = 4
    MaxLogRows = 2
INVARIANTS
    
    StockInv
    StoredCountsInv
    ImportInv
    TicketsInv
PROPERTIES
    WorkshopSteps
SYMMETRY WorkshopSymmetry
CHECK_DEADLOCK FALSE
