\* matchDomain's Domain rule against the spec's anchored suffix match.
CONSTANTS
    Width <- MCWidth
    Addresses <- MCAddresses
    Configs <- MCConfigs
    Rules <- MCRules
    Targets <- MCTargets
SPECIFICATION MatchSpec
INVARIANT DomainMatchAnchored
