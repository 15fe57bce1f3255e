CONSTANTS
    u1 = u1
    u2 = u2
    Users <- MCUsers
    Quota <- MCQuota
    MaxCharge <- MCMaxCharge
    Faults <- MCAllFaults
    AdminOps <- MCAllAdminOps
SPECIFICATION Spec
INVARIANT TypeOK
INVARIANT NoDoubleCount
\* Once ctx is cancelled and the updater has returned, nothing is left
\* to run but the relays' bounded charges.
CHECK_DEADLOCK FALSE
