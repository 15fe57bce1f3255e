---------------------------- MODULE MCRouterMatch ----------------------------
(* Inputs for RouterMatch: names over {a, b, .}, addresses of 3 (v4) and   *)
(* 4 (v6) bits, and rule sets with at most one rule per policy list.       *)
EXTENDS RouterMatch, TLC

Chars == {"a", "b", "."}

\* Strings of length lo..hi over Chars.
Strings(lo, hi) == UNION {[1..n -> Chars] : n \in lo..hi}

MCWidth == [f \in Families |-> IF f = "v4" THEN 3 ELSE 4]

\* A name "a.b" resolving to a v4 address, "b" failing to resolve, "ab"
\* resolving to a v6 address, and two IP addresses.
MCAddresses ==
    { [type |-> "domain", name |-> <<"a", ".", "b">>, resolveOK |-> TRUE,
       resolved |-> [fam |-> "v4", val |-> 5]],
      [type |-> "domain", name |-> <<"b">>, resolveOK |-> FALSE,
       resolved |-> [fam |-> "v4", val |-> 0]],
      [type |-> "domain", name |-> <<"a", "b">>, resolveOK |-> TRUE,
       resolved |-> [fam |-> "v6", val |-> 9]],
      [type |-> "ip", ip |-> [fam |-> "v4", val |-> 5]],
      [type |-> "ip", ip |-> [fam |-> "v6", val |-> 3]] }

\* One rule of each kind that some of the names match.
MCRouteRules ==
    { [type |-> "domain", value |-> <<"b">>],
      [type |-> "plain", value |-> <<"a">>],
      [type |-> "regex", value |-> <<".", "b">>] }

\* A v4 block holding 5, a v6 block holding 9, and a v4 CIDR whose
\* prefix exceeds the width.
MCCIDRs ==
    { [fam |-> "v4", val |-> 4, prefix |-> 1],
      [fam |-> "v6", val |-> 8, prefix |-> 2],
      [fam |-> "v4", val |-> 5, prefix |-> 4] }

MCConfigs ==
    [domains : [Policies -> {<<>>} \cup {<<r>> : r \in MCRouteRules}],
     cidrs : [Policies -> {<<>>} \cup {<<c>> : c \in MCCIDRs}],
     defaultPolicy : Policies,
     domainStrategy : {AsIs, IPIfNonMatch, IPOnDemand}]

\* A well-formed domain name: labels separated by single dots.
WellFormed(s) ==
    /\ Len(s) > 0 /\ s[1] # "." /\ s[Len(s)] # "."
    /\ \A i \in 1..(Len(s) - 1) : ~(s[i] = "." /\ s[i + 1] = ".")

\* Every Domain rule of a well-formed name of up to three characters.
MCRules == {[type |-> "domain", value |-> v] : v \in {s \in Strings(1, 3) : WellFormed(s)}}

\* Every well-formed name of up to five characters.
MCTargets == {s \in Strings(1, 5) : WellFormed(s)}
=============================================================================
