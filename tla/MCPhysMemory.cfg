SPECIFICATION MemorySpec
CONSTANTS
    Available <- MCAvailable
    MaxReports = 3
    Reservations <- MCReservations
    TableSize = 1
    Entries = 2
INVARIANTS
    FreePagesOnce
    ReservedKept
    MapOrdered
CHECK_DEADLOCK FALSE
