\* Route against the spec's rule order over every small rule set.
CONSTANTS
    Width <- MCWidth
    Addresses <- MCAddresses
    Configs <- MCConfigs
    Rules <- MCRules
    Targets <- MCTargets
SPECIFICATION RouteSpec
INVARIANT RouteFollowsSpec
