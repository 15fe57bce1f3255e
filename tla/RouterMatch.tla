------------------------------ MODULE RouterMatch ------------------------------
(***************************************************************************)
(* The policy router's decision (tunnel/router client.go): matchDomain     *)
(* over a list of V2Ray domain rules, matchIP over a list of CIDRs, Route  *)
(* choosing Block, Bypass or Proxy for an address under a domain strategy, *)
(* and DialConn dispatching on that choice.                                *)
(*                                                                         *)
(* A domain name is a sequence of characters from a small alphabet that    *)
(* holds the dot.  A regex rule is a pattern over the same alphabet in     *)
(* which "." matches any character (regexp.Match searches unanchored); a   *)
(* pattern that starts with "*" stands for one that regexp rejects.  An IP *)
(* is a family and a number of Width[family] bits: To4() decides the       *)
(* family of a target and of a CIDR alike.  The resolver's answer for a    *)
(* domain address (an IP, or a failure) is part of the address.            *)
(***************************************************************************)
EXTENDS Naturals, Sequences, SequencesExt, FiniteSets, FiniteSetsExt

CONSTANTS
    Width,      \* bits of an address of each family
    Addresses,  \* the destinations Route is asked about
    Configs,    \* the rule sets of a router Client
    Rules,      \* single domain rules, for the matcher's own run
    Targets     \* domain names, for the matcher's own run

\* const Block, Bypass, Proxy: the index of each policy's rule lists.
Block == 0
Bypass == 1
Proxy == 2
Policies == {Block, Bypass, Proxy}

\* const AsIs, IPIfNonMatch, IPOnDemand.
AsIs == 0
IPIfNonMatch == 1
IPOnDemand == 2

Families == {"v4", "v6"}

ASSUME RouterAssumption ==
    /\ Width \in [Families -> Nat \ {0}]
    /\ IsFiniteSet(Addresses) /\ IsFiniteSet(Configs)

\* No policy list matched.
NoPolicy == -1

\* A target IP and a configured CIDR: a family, a value and, for a CIDR,
\* the uint32 prefix length.
IPs == [fam : Families, val : Nat]
CIDRs == [fam : Families, val : Nat, prefix : Nat]

\* The inputs Route is asked about have the types NewClient and the
\* tunnel's Address give them: every policy list of CIDRs is a list, the
\* default policy and the strategy are among the constants, an address is
\* an IP or a domain name with the resolver's answer.  The last conjunct
\* is a fact of arithmetic (no power of two is zero) for the exponents
\* matchIP can meet.
ASSUME RouterInputsAssumption ==
    /\ \A c \in Configs :
          /\ c.cidrs \in [Policies -> Seq(CIDRs)]
          /\ c.defaultPolicy \in Policies
          /\ c.domainStrategy \in {AsIs, IPIfNonMatch, IPOnDemand}
    /\ \A a \in Addresses :
          \/ a.type = "ip" /\ a.ip \in IPs
          \/ a.type = "domain" /\ a.resolveOK \in BOOLEAN /\ a.resolved \in IPs
    /\ \A f \in Families : \A k \in 0..Width[f] : 2^k \in Nat \ {0}

-----------------------------------------------------------------------------
(* Strings.                                                                *)

\* strings.Contains(t, v)
HasSubstring(t, v) ==
    \E i \in 0..(Len(t) - Len(v)) : SubSeq(t, i + 1, i + Len(v)) = v

\* regexp.Match(p, t) for a valid pattern: an unanchored search in which
\* "." matches any character.
RegexMatch(p, t) ==
    \E i \in 0..(Len(t) - Len(p)) :
        \A j \in 1..Len(p) : p[j] = "." \/ p[j] = t[i + j]

RegexValid(p) == Len(p) = 0 \/ p[1] # "*"

-----------------------------------------------------------------------------
(* matchDomain.                                                            *)

\* What one rule of the loop of matchDomain does with target t: return
\* true ("match"), return false ("abort", an invalid regex), or go on to
\* the next rule.  For a Domain rule the suffix test is followed by
\* strings.Index, the FIRST occurrence of the rule in the target, whose
\* preceding character must be a dot.
RuleOutcome(r, t) ==
    CASE r.type = "full" ->
            IF r.value = t THEN "match" ELSE "next"
      [] r.type = "domain" ->
            IF /\ IsSuffix(r.value, t)
               /\ LET idx == IndexFirstSubSeq(r.value, t) - 1
                  IN idx = 0 \/ t[idx] = "."
            THEN "match" ELSE "next"
      [] r.type = "plain" ->
            IF HasSubstring(t, r.value) THEN "match" ELSE "next"
      [] r.type = "regex" ->
            IF ~RegexValid(r.value) THEN "abort"
            ELSE IF RegexMatch(r.value, t) THEN "match" ELSE "next"

\* matchDomain(list, target): the first rule that does not go on decides.
matchDomain(list, t) ==
    LET i == SelectInSeq(list, LAMBDA r : RuleOutcome(r, t) # "next")
    IN i # 0 /\ RuleOutcome(list[i], t) = "match"

-----------------------------------------------------------------------------
(* matchIP.                                                                *)

\* net.CIDRMask(n, bits): nil when n exceeds bits.  The prefix is the
\* uint32 of the config, so it is never negative here.
CIDRMaskValid(n, bits) == n <= bits

\* ip.Mask(CIDRMask(n, bits)) as a number.
Masked(v, n, bits) == (v \div 2^(bits - n)) * 2^(bits - n)

\* subnet.Contains(target), with subnet = {cidrIP.Mask(mask), mask}; a nil
\* mask gives a nil subnet, which contains nothing.
SubnetContains(c, ip) ==
    LET bits == Width[ip.fam]
    IN CIDRMaskValid(c.prefix, bits)
       /\ Masked(c.val, c.prefix, bits) = Masked(ip.val, c.prefix, bits)

\* matchIP(list, target): a CIDR of the other family is skipped.
matchIP(list, ip) ==
    \E i \in 1..Len(list) : list[i].fam = ip.fam /\ SubnetContains(list[i], ip)

-----------------------------------------------------------------------------
(* Route and DialConn.                                                     *)

\* for i := Block; i <= Proxy; i++ { if matches(i) { return i } }
FirstPolicy(Matches(_)) ==
    LET I == {i \in Policies : Matches(i)}
    IN IF I = {} THEN NoPolicy ELSE Min(I)

\* The first policy whose CIDR list holds ip.
IPPolicy(cfg, ip) == FirstPolicy(LAMBDA i : matchIP(cfg.cidrs[i], ip))

\* newIPAddress then the CIDR loop; a failed resolution matches nothing.
ResolvedPolicy(cfg, a) ==
    IF ~a.resolveOK THEN NoPolicy ELSE IPPolicy(cfg, a.resolved)

\* Mutant: IPOnDemand resolving only after the domain lists miss.
RouteResolveLate(cfg, a) ==
    IF a.type = "domain"
    THEN LET dom == FirstPolicy(LAMBDA i : matchDomain(cfg.domains[i], a.name))
         IN IF dom # NoPolicy THEN dom
            ELSE IF /\ cfg.domainStrategy \in {IPOnDemand, IPIfNonMatch}
                    /\ ResolvedPolicy(cfg, a) # NoPolicy
                 THEN ResolvedPolicy(cfg, a)
            ELSE cfg.defaultPolicy
    ELSE IF IPPolicy(cfg, a.ip) # NoPolicy THEN IPPolicy(cfg, a.ip)
         ELSE cfg.defaultPolicy

\* Client.Route(address): each loop that finds a policy returns it, so the
\* tests are tried in the code's order and the first hit decides.
Route(cfg, a) ==
    IF a.type = "domain"
    THEN LET dom == FirstPolicy(LAMBDA i : matchDomain(cfg.domains[i], a.name))
         IN IF /\ cfg.domainStrategy = IPOnDemand
               /\ ResolvedPolicy(cfg, a) # NoPolicy
            THEN ResolvedPolicy(cfg, a)
            ELSE IF dom # NoPolicy THEN dom
            ELSE IF /\ cfg.domainStrategy = IPIfNonMatch
                    /\ ResolvedPolicy(cfg, a) # NoPolicy
                 THEN ResolvedPolicy(cfg, a)
            ELSE cfg.defaultPolicy
    ELSE IF IPPolicy(cfg, a.ip) # NoPolicy THEN IPPolicy(cfg, a.ip)
         ELSE cfg.defaultPolicy

\* Client.DialConn: the dialer the chosen policy sends the address to.
DialConn(cfg, a) ==
    LET policy == Route(cfg, a)
    IN CASE policy = Proxy -> "underlay"
         [] policy = Block -> "blocked"
         [] policy = Bypass -> "direct"

-----------------------------------------------------------------------------
(* The inputs: each run fixes one question and enumerates its inputs in    *)
(* the initial states; nothing changes afterwards.                         *)

VARIABLES cfg, addr, rule, target

vars == <<cfg, addr, rule, target>>

RouteInit ==
    /\ cfg \in Configs /\ addr \in Addresses
    /\ rule = CHOOSE r \in Rules : TRUE
    /\ target = CHOOSE t \in Targets : TRUE

MatchInit ==
    /\ cfg = CHOOSE c \in Configs : TRUE
    /\ addr = CHOOSE a \in Addresses : TRUE
    /\ rule \in Rules /\ target \in Targets

RouteSpec == RouteInit /\ [][UNCHANGED vars]_vars

MatchSpec == MatchInit /\ [][UNCHANGED vars]_vars

-----------------------------------------------------------------------------
(* Reference definitions from the spec (section 4.8), and properties.      *)

\* An IP lies in a CIDR of its own family when it falls in the block of
\* 2^(width - prefix) addresses that starts at the CIDR's network address;
\* a prefix longer than the family's width denotes no network.
SpecInCIDR(c, ip) ==
    /\ c.fam = ip.fam
    /\ c.prefix <= Width[ip.fam]
    /\ LET size == 2^(Width[ip.fam] - c.prefix)
           lo == c.val - (c.val % size)
       IN lo <= ip.val /\ ip.val < lo + size

\* One test per policy, in the order Block, Bypass, Proxy; hit[p] says
\* whether policy p's list holds the address.
PolicyTests(hit) == [i \in 1..3 |-> [pol |-> i - 1, hit |-> hit[i - 1]]]

\* The spec's CIDR tests of an IP and its domain-list tests of a name.
IPTests(c, ip) ==
    PolicyTests([p \in Policies |->
                    \E j \in 1..Len(c.cidrs[p]) : SpecInCIDR(c.cidrs[p][j], ip)])
DomTests(c, name) ==
    PolicyTests([p \in Policies |-> matchDomain(c.domains[p], name)])

\* The spec's rule order as a list of tests: for a domain, the resolved IP
\* first under IPOnDemand, then the domain lists, then the resolved IP
\* under IPIfNonMatch; for an IP, the CIDR lists only.
SpecTests(c, a) ==
    LET resolves == a.type = "domain" /\ a.resolveOK
    IN IF a.type = "domain"
       THEN (IF c.domainStrategy = IPOnDemand /\ resolves
             THEN IPTests(c, a.resolved) ELSE <<>>)
            \o DomTests(c, a.name)
            \o (IF c.domainStrategy = IPIfNonMatch /\ resolves
                THEN IPTests(c, a.resolved) ELSE <<>>)
       ELSE IPTests(c, a.ip)

\* The first test that hits decides; none gives the default policy.
SpecRoute(c, a) ==
    LET tests == SpecTests(c, a)
        k == SelectInSeq(tests, LAMBDA x : x.hit)
    IN IF k = 0 THEN c.defaultPolicy ELSE tests[k].pol

\* Route picks the policy of the spec's rule order for every rule set,
\* strategy and address (with the domain lists' verdicts as matchDomain
\* gives them): Block before Bypass before Proxy, the resolved IP before or
\* after the domain lists as the strategy says, a failed resolution and an
\* IP of the other family matching nothing, and DialConn going where Route
\* says.
RouteFollowsSpec ==
    LET policy == SpecRoute(cfg, addr)
    IN /\ Route(cfg, addr) = policy
       /\ DialConn(cfg, addr) = CASE policy = Proxy -> "underlay"
                                  [] policy = Block -> "blocked"
                                  [] policy = Bypass -> "direct"

\* A Domain rule matches exactly the names equal to it or ending in a dot
\* followed by it (spec section 4.8: a suffix match anchored on a dot or
\* full length).
DomainMatchAnchored ==
    rule.type = "domain" =>
        (matchDomain(<<rule>>, target) <=>
            \/ target = rule.value
            \/ IsSuffix(<<".">> \o rule.value, target))

=============================================================================
