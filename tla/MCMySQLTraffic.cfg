CONSTANTS
    u1 = u1
    u2 = u2
    Users <- MCUsers
    Quota <- MCQuota
    MaxCharge <- MCMaxCharge
    Faults <- MCNoFaults
    AdminOps <- MCNoFaults
SPECIFICATION Spec
INVARIANT TrafficConserved
\* Once ctx is cancelled and the updater has returned, nothing is left
\* to run but the relays' bounded charges.
CHECK_DEADLOCK FALSE
