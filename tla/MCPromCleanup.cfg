\* CleanupUserMetrics while a connection of the user is open.
CONSTANTS
    u1 = u1
    c1 = c1
    c2 = c2
    NoUser = NoUser
    Users <- MCUsers
    Conns <- MCConns
    Owner <- MCOwner
    MaxCount <- MCMaxCount
    Events <- MCEvents
SPECIFICATION PromSpec
INVARIANT UserActiveCounted
\* Once the context is cancelled and both goroutines have returned, or
\* metrics are off, the server has nothing left to run.
CHECK_DEADLOCK FALSE
