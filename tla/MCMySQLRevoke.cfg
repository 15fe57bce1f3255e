CONSTANTS
    u1 = u1
    u2 = u2
    Users <- MCUsers
    Quota <- MCQuota
    MaxCharge <- MCMaxCharge
    Faults <- MCNoFaults
    AdminOps <- MCOnlyDelete
SPECIFICATION Spec
PROPERTY RevokedUserLosesAccess
\* Once ctx is cancelled and the updater has returned, nothing is left
\* to run but the relays' bounded charges.
CHECK_DEADLOCK FALSE
