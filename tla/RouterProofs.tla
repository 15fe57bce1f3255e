---------------------------- MODULE RouterProofs ----------------------------
(***************************************************************************)
(* Proofs about the policy router of RouterMatch: Route tries the code's   *)
(* tests in the spec's rule order, for every rule set, strategy and        *)
(* address of the types NewClient and the tunnel give them, and DialConn   *)
(* sends the address where that policy says.  The domain lists' verdicts   *)
(* are whatever matchDomain returns; matchIP's masked comparison is shown  *)
(* equal to the spec's block test by arithmetic.                           *)
(***************************************************************************)
EXTENDS RouterMatch, WellFoundedInduction, TLAPS

-----------------------------------------------------------------------------
(* Arithmetic of matchIP.                                                  *)

\* Two values agree above the low bits of a block of size s exactly when
\* the second lies in the block of the first.
LEMMA DivBlock ==
    ASSUME NEW s \in Nat \ {0}, NEW v \in Int, NEW w \in Int
    PROVE  ((v \div s) * s = (w \div s) * s)
             <=> (v - (v % s) <= w /\ w < v - (v % s) + s)
<1>1. v - (v % s) = (v \div s) * s
  BY SMT
<1>2. ((v \div s) * s = (w \div s) * s) <=> (v \div s = w \div s)
  BY SMT
<1>3. ((v \div s) * s <= w /\ w < (v \div s) * s + s) <=> (v \div s = w \div s)
  BY SMT
<1>4. QED
  BY <1>1, <1>2, <1>3

\* subnet.Contains on a CIDR of the target's family is the spec's block
\* test, and a CIDR of the other family matches in neither.
LEMMA CIDRAgree ==
    ASSUME NEW c \in CIDRs, NEW ip \in IPs
    PROVE  (c.fam = ip.fam /\ SubnetContains(c, ip)) <=> SpecInCIDR(c, ip)
<1> DEFINE bits == Width[ip.fam]
<1>1. CASE c.fam = ip.fam /\ c.prefix <= bits
  <2> DEFINE s == 2^(bits - c.prefix)
  <2>1. bits \in Nat /\ c.prefix \in Nat /\ bits - c.prefix \in 0..bits
    BY <1>1, RouterAssumption DEF IPs, CIDRs
  <2>2. s \in Nat \ {0}
    BY <2>1, RouterInputsAssumption DEF IPs
  <2>3. c.val \in Int /\ ip.val \in Int
    BY DEF IPs, CIDRs
  <2>4. (Masked(c.val, c.prefix, bits) = Masked(ip.val, c.prefix, bits))
          <=> (c.val - (c.val % s) <= ip.val /\ ip.val < c.val - (c.val % s) + s)
    BY <2>2, <2>3, DivBlock DEF Masked
  <2>5. QED
    BY <1>1, <2>4 DEF SubnetContains, CIDRMaskValid, SpecInCIDR
<1>2. CASE ~(c.fam = ip.fam /\ c.prefix <= bits)
  BY <1>2 DEF SubnetContains, CIDRMaskValid, SpecInCIDR
<1>3. QED
  BY <1>1, <1>2

\* matchIP over a list of CIDRs holds exactly when some CIDR of the list
\* holds the IP in the spec's sense.
LEMMA MatchIPAgree ==
    ASSUME NEW list \in Seq(CIDRs), NEW ip \in IPs
    PROVE  matchIP(list, ip) <=> \E j \in 1..Len(list) : SpecInCIDR(list[j], ip)
<1>1. \A j \in 1..Len(list) :
          (list[j].fam = ip.fam /\ SubnetContains(list[j], ip))
              <=> SpecInCIDR(list[j], ip)
  BY CIDRAgree
<1>2. QED
  BY <1>1 DEF matchIP

-----------------------------------------------------------------------------
(* The first hit of a list of tests.                                       *)

\* A test of the spec's rule order: the policy it gives and whether it hits.
Test == [pol : Policies, hit : BOOLEAN]

\* The positions of the tests of s that hit.
Hits(s) == {i \in 1..Len(s) : s[i].hit}

\* What the first hit of s decides, d when none hits.
Verdict(s, d) ==
    LET k == SelectInSeq(s, LAMBDA x : x.hit)
    IN IF k = 0 THEN d ELSE s[k].pol

\* A nonempty set of naturals has a least element.
LEMMA MinExists ==
    ASSUME NEW S \in SUBSET Nat, S # {}
    PROVE  \E x \in S : \A y \in S : x <= y
<1>1. PICK x \in S : \A y \in S : ~(<<y, x>> \in OpToRel(<, Nat))
  BY NatLessThanWellFounded, WFMin
<1>2. \A y \in S : y \in Nat /\ x \in Nat /\ ~(y < x)
  BY <1>1 DEF OpToRel
<1>3. \A y \in S : x <= y
  BY <1>2
<1>4. QED
  BY <1>3

\* Min of a nonempty set of naturals is its least element.
LEMMA MinIs ==
    ASSUME NEW S \in SUBSET Nat, NEW x \in S, \A y \in S : x <= y
    PROVE  Min(S) = x
<1>1. Min(S) \in S /\ \A y \in S : Min(S) <= y
  BY DEF Min
<1>2. Min(S) \in Nat /\ x \in Nat /\ Min(S) <= x /\ x <= Min(S)
  BY <1>1
<1>3. QED
  BY <1>2

LEMMA MinProps ==
    ASSUME NEW S \in SUBSET Nat, S # {}
    PROVE  Min(S) \in S /\ \A y \in S : Min(S) <= y
<1>1. PICK x \in S : \A y \in S : x <= y
  BY MinExists
<1>2. QED
  BY <1>1 DEF Min

\* SelectInSeq over the hit field is the least hit, 0 when none hits.
LEMMA SelectIsFirstHit ==
    ASSUME NEW s
    PROVE  SelectInSeq(s, LAMBDA x : x.hit)
               = IF Hits(s) # {} THEN Min(Hits(s)) ELSE 0
BY DEF SelectInSeq, Hits

\* No hit: the default decides.
LEMMA VerdictNoHit ==
    ASSUME NEW s, NEW d, Hits(s) = {}
    PROVE  Verdict(s, d) = d
BY SelectIsFirstHit DEF Verdict

\* The first hit of s \o t is the first hit of s if s has one, and the
\* first hit of t otherwise.
LEMMA ConcatVerdict ==
    ASSUME NEW s \in Seq(Test), NEW t \in Seq(Test), NEW d
    PROVE  /\ Hits(s \o t) = {} <=> Hits(s) = {} /\ Hits(t) = {}
           /\ Verdict(s \o t, d) = IF Hits(s) # {} THEN Verdict(s, d)
                                   ELSE Verdict(t, d)
<1> DEFINE u == s \o t
<1>1. Len(u) = Len(s) + Len(t) /\ Len(s) \in Nat /\ Len(t) \in Nat
  OBVIOUS
<1>2. \A i \in 1..Len(s) : u[i] = s[i]
  OBVIOUS
<1>3. \A j \in 1..Len(t) : u[Len(s) + j] = t[j]
  OBVIOUS
<1>4. Hits(u) = Hits(s) \cup {Len(s) + j : j \in Hits(t)}
  <2>1. \A i \in 1..Len(u) : i \in 1..Len(s) \/ i - Len(s) \in 1..Len(t)
    BY <1>1
  <2>2. QED
    BY <1>1, <1>2, <1>3, <2>1 DEF Hits
<1>5. /\ Hits(s) \subseteq 1..Len(s) /\ Hits(t) \subseteq 1..Len(t)
      /\ Hits(s) \subseteq Nat /\ Hits(t) \subseteq Nat /\ Hits(u) \subseteq Nat
  BY DEF Hits
<1>6. CASE Hits(s) # {}
  <2> DEFINE m == Min(Hits(s))
  <2>1. m \in Hits(s) /\ \A y \in Hits(s) : m <= y
    BY <1>5, <1>6, MinProps
  <2>2. m \in Hits(u) /\ \A y \in Hits(u) : m <= y
    <3>1. m \in Hits(u)
      BY <2>1, <1>4
    <3>2. ASSUME NEW j \in Hits(t) PROVE m <= Len(s) + j
      BY <2>1, <1>5
    <3>3. QED
      BY <2>1, <3>1, <3>2, <1>4
  <2>3. Min(Hits(u)) = m
    BY <2>2, <1>5, MinIs
  <2>4. m # 0 /\ u[m] = s[m]
    BY <2>1, <1>2 DEF Hits
  <2>5. QED
    BY <1>4, <1>6, <2>3, <2>4, SelectIsFirstHit DEF Verdict
<1>7. CASE Hits(s) = {} /\ Hits(t) # {}
  <2> DEFINE m == Min(Hits(t))
  <2>1. m \in Hits(t) /\ \A y \in Hits(t) : m <= y
    BY <1>5, <1>7, MinProps
  <2>2. Hits(u) = {Len(s) + j : j \in Hits(t)}
    BY <1>4, <1>7
  <2>3. Len(s) + m \in Hits(u) /\ \A y \in Hits(u) : Len(s) + m <= y
    <3>1. Len(s) + m \in Hits(u)
      BY <2>1, <2>2
    <3>2. ASSUME NEW j \in Hits(t) PROVE Len(s) + m <= Len(s) + j
      BY <2>1, <1>1, <1>5
    <3>3. QED
      BY <3>1, <3>2, <2>2
  <2>4. Min(Hits(u)) = Len(s) + m
    BY <2>3, <1>5, MinIs
  <2>5. m # 0 /\ Len(s) + m # 0 /\ u[Len(s) + m] = t[m]
    BY <2>1, <1>1, <1>3 DEF Hits
  <2>6. QED
    BY <1>7, <2>2, <2>4, <2>5, SelectIsFirstHit DEF Verdict
<1>8. CASE Hits(s) = {} /\ Hits(t) = {}
  <2>1. Hits(u) = {}
    BY <1>4, <1>8
  <2>2. QED
    BY <1>8, <2>1, VerdictNoHit
<1>9. QED
  BY <1>6, <1>7, <1>8

-----------------------------------------------------------------------------
(* The per-policy lists of tests and the code's loops over the policies.   *)

\* The policy the loop `for i := Block; i <= Proxy; i++` returns for the
\* set I of policies whose list matches, d when I is empty.
FirstIn(I, d) == IF I = {} THEN d ELSE Min(I)

\* Which CIDR lists hold ip, and which domain lists match name.
IPHit(c, ip) ==
    [p \in Policies |-> \E j \in 1..Len(c.cidrs[p]) : SpecInCIDR(c.cidrs[p][j], ip)]
DomHit(c, name) == [p \in Policies |-> matchDomain(c.domains[p], name)]

\* The domain lists' loop of Route.
DomPolicy(c, name) == FirstPolicy(LAMBDA i : matchDomain(c.domains[i], name))

\* The first policy of a nonempty set of policies is a policy.
LEMMA FirstInPolicy ==
    ASSUME NEW I \in SUBSET Policies, I # {}
    PROVE  Min(I) \in I /\ Min(I) # NoPolicy
<1>1. I \in SUBSET Nat
  BY DEF Policies, Block, Bypass, Proxy
<1>2. Min(I) \in I
  BY <1>1, MinProps
<1>3. QED
  BY <1>2 DEF Policies, Block, Bypass, Proxy, NoPolicy

\* The three tests of PolicyTests(hit), one per policy in the code's
\* order, decide as the loop over the policies does.
LEMMA PolicyVerdict ==
    ASSUME NEW hit \in [Policies -> BOOLEAN], NEW d
    PROVE  LET I == {p \in Policies : hit[p]}
           IN  /\ PolicyTests(hit) \in Seq(Test)
               /\ Hits(PolicyTests(hit)) = {} <=> I = {}
               /\ Verdict(PolicyTests(hit), d) = FirstIn(I, d)
<1> DEFINE P == PolicyTests(hit)
           I == {p \in Policies : hit[p]}
<1>1. P \in Seq(Test) /\ Len(P) = 3
      /\ \A i \in 1..3 : P[i].pol = i - 1 /\ P[i].hit = hit[i - 1]
  BY DEF PolicyTests, Test, Policies, Block, Bypass, Proxy
<1>2. Hits(P) = {p + 1 : p \in I}
  BY <1>1 DEF Hits, Policies, Block, Bypass, Proxy
<1>3. CASE I # {}
  <2> DEFINE m == Min(I)
  <2>1. I \in SUBSET Nat
    BY DEF Policies, Block, Bypass, Proxy
  <2>2. m \in I /\ \A y \in I : m <= y
    BY <2>1, <1>3, MinProps
  <2>3. Hits(P) # {} /\ Min(Hits(P)) = m + 1
    <3>1. m + 1 \in Hits(P)
      BY <1>2, <2>2
    <3>2. ASSUME NEW p \in I PROVE m + 1 <= p + 1
      BY <2>1, <2>2
    <3>3. \A y \in Hits(P) : m + 1 <= y
      BY <1>2, <3>2
    <3>4. Hits(P) \in SUBSET Nat
      BY DEF Hits
    <3>5. QED
      BY <3>1, <3>3, <3>4, MinIs
  <2>4. m + 1 # 0 /\ P[m + 1].pol = m
    BY <1>1, <2>1, <2>2 DEF Policies, Block, Bypass, Proxy
  <2>5. SelectInSeq(P, LAMBDA x : x.hit) = m + 1
    BY <2>3, SelectIsFirstHit
  <2>6. Verdict(P, d) = m /\ FirstIn(I, d) = m
    BY <1>3, <2>4, <2>5 DEF Verdict, FirstIn
  <2>7. QED
    BY <1>1, <1>2, <1>3, <2>6
<1>4. CASE I = {}
  BY <1>1, <1>2, <1>4, VerdictNoHit DEF FirstIn
<1>5. QED
  BY <1>3, <1>4

\* The spec's CIDR tests of ip decide as the code's CIDR loop, IPPolicy:
\* they hit exactly when IPPolicy finds a policy, and then give it.
LEMMA IPSide ==
    ASSUME NEW c \in Configs, NEW ip \in IPs, NEW d
    PROVE  /\ IPTests(c, ip) \in Seq(Test)
           /\ Hits(IPTests(c, ip)) = {} <=> IPPolicy(c, ip) = NoPolicy
           /\ Verdict(IPTests(c, ip), d)
                  = IF IPPolicy(c, ip) = NoPolicy THEN d ELSE IPPolicy(c, ip)
<1> DEFINE I == {p \in Policies : IPHit(c, ip)[p]}
<1>1. IPTests(c, ip) = PolicyTests(IPHit(c, ip)) /\ IPHit(c, ip) \in [Policies -> BOOLEAN]
  BY DEF IPTests, IPHit
<1>2. {i \in Policies : matchIP(c.cidrs[i], ip)} = I
  <2>1. \A p \in Policies : c.cidrs[p] \in Seq(CIDRs)
    BY RouterInputsAssumption
  <2>2. QED
    BY <2>1, MatchIPAgree DEF IPHit
<1>3. IPPolicy(c, ip) = FirstIn(I, NoPolicy)
  BY <1>2 DEF IPPolicy, FirstPolicy, FirstIn
<1>4. I # {} => FirstIn(I, NoPolicy) # NoPolicy /\ FirstIn(I, d) = FirstIn(I, NoPolicy)
  BY FirstInPolicy DEF FirstIn
<1>5. QED
  BY <1>1, <1>3, <1>4, PolicyVerdict DEF FirstIn

\* The spec's domain-list tests of name decide as Route's domain loop.
LEMMA DomSide ==
    ASSUME NEW c, NEW name, NEW d
    PROVE  /\ DomTests(c, name) \in Seq(Test)
           /\ Hits(DomTests(c, name)) = {} <=> DomPolicy(c, name) = NoPolicy
           /\ Verdict(DomTests(c, name), d)
                  = IF DomPolicy(c, name) = NoPolicy THEN d ELSE DomPolicy(c, name)
<1> DEFINE I == {p \in Policies : DomHit(c, name)[p]}
<1>1. DomTests(c, name) = PolicyTests(DomHit(c, name))
      /\ DomHit(c, name) \in [Policies -> BOOLEAN]
  BY DEF DomTests, DomHit, matchDomain
<1>2. DomPolicy(c, name) = FirstIn(I, NoPolicy)
  BY DEF DomPolicy, FirstPolicy, FirstIn, DomHit
<1>3. I # {} => FirstIn(I, NoPolicy) # NoPolicy /\ FirstIn(I, d) = FirstIn(I, NoPolicy)
  BY FirstInPolicy DEF FirstIn
<1>4. QED
  BY <1>1, <1>2, <1>3, PolicyVerdict DEF FirstIn

-----------------------------------------------------------------------------
(* Route follows the spec's rule order.                                    *)

\* For every rule set and address of their types, Client.Route returns the
\* policy of the first test of the spec's rule order that hits, the
\* default policy when none does.
LEMMA RouteAgrees ==
    ASSUME NEW c \in Configs, NEW a \in Addresses
    PROVE  Route(c, a) = SpecRoute(c, a)
<1> DEFINE d == c.defaultPolicy
<1>1. SpecRoute(c, a) = Verdict(SpecTests(c, a), d)
  BY DEF SpecRoute, Verdict
<1>2. CASE a.type = "ip"
  <2>1. a.ip \in IPs /\ SpecTests(c, a) = IPTests(c, a.ip)
    BY <1>2, RouterInputsAssumption DEF SpecTests
  <2>2. Route(c, a) = IF IPPolicy(c, a.ip) # NoPolicy THEN IPPolicy(c, a.ip) ELSE d
    BY <1>2 DEF Route
  <2>3. QED
    BY <1>1, <2>1, <2>2, IPSide
<1>3. CASE a.type = "domain"
  <2> DEFINE R == ResolvedPolicy(c, a)
             dom == DomPolicy(c, a.name)
             st == c.domainStrategy
             DT == DomTests(c, a.name)
  \* The tests of the resolved IP before and after the domain lists.
  <2> PICK S1 : S1 = IF st = IPOnDemand /\ a.resolveOK
                     THEN IPTests(c, a.resolved) ELSE <<>>
    OBVIOUS
  <2> PICK S3 : S3 = IF st = IPIfNonMatch /\ a.resolveOK
                     THEN IPTests(c, a.resolved) ELSE <<>>
    OBVIOUS
  <2>1. a.resolveOK \in BOOLEAN /\ a.resolved \in IPs
    BY <1>3, RouterInputsAssumption
  <2>2. R = IF a.resolveOK THEN IPPolicy(c, a.resolved) ELSE NoPolicy
    BY <2>1 DEF ResolvedPolicy
  \* The resolved-IP tests before the domain lists hit exactly when
  \* IPOnDemand's loop finds a policy, and then give it; likewise after.
  <2>3. /\ S1 \in Seq(Test)
        /\ (Hits(S1) # {}) <=> (st = IPOnDemand /\ R # NoPolicy)
        /\ Hits(S1) # {} => Verdict(S1, d) = R
    <3>1. CASE st = IPOnDemand /\ a.resolveOK
      BY <1>3, <2>1, <2>2, <3>1, IPSide
    <3>2. CASE ~(st = IPOnDemand /\ a.resolveOK)
      <4>1. S1 = <<>> /\ Hits(<<>>) = {}
        BY <3>2 DEF Hits
      <4>2. ~(st = IPOnDemand /\ R # NoPolicy)
        BY <2>1, <2>2, <3>2
      <4>3. S1 \in Seq(Test) /\ Hits(S1) = {}
        <5>1. <<>> \in Seq(Test)
          OBVIOUS
        <5>2. QED
          BY <4>1, <5>1, Zenon
      <4>4. QED
        BY <4>2, <4>3
    <3>3. QED
      BY <3>1, <3>2
  <2>4. /\ S3 \in Seq(Test)
        /\ (Hits(S3) # {}) <=> (st = IPIfNonMatch /\ R # NoPolicy)
        /\ Verdict(S3, d) = IF st = IPIfNonMatch /\ R # NoPolicy THEN R ELSE d
    <3>1. CASE st = IPIfNonMatch /\ a.resolveOK
      BY <1>3, <2>1, <2>2, <3>1, IPSide
    <3>2. CASE ~(st = IPIfNonMatch /\ a.resolveOK)
      <4>1. S3 = <<>> /\ Hits(<<>>) = {}
        BY <3>2 DEF Hits
      <4>2. ~(st = IPIfNonMatch /\ R # NoPolicy)
        BY <2>1, <2>2, <3>2
      <4>3. S3 \in Seq(Test) /\ Hits(S3) = {}
        <5>1. <<>> \in Seq(Test)
          OBVIOUS
        <5>2. QED
          BY <4>1, <5>1, Zenon
      <4>4. Verdict(S3, d) = d
        BY <4>3, VerdictNoHit
      <4>5. QED
        BY <4>2, <4>3, <4>4
    <3>3. QED
      BY <3>1, <3>2
  <2>5. /\ DT \in Seq(Test)
        /\ (Hits(DT) # {}) <=> dom # NoPolicy
        /\ Verdict(DT, d) = IF dom = NoPolicy THEN d ELSE dom
    BY DomSide
  <2>6. SpecTests(c, a) = (S1 \o DT) \o S3
    BY <1>3 DEF SpecTests
  <2>7. Verdict((S1 \o DT) \o S3, d)
          = IF Hits(S1) # {} THEN Verdict(S1, d)
            ELSE IF Hits(DT) # {} THEN Verdict(DT, d)
            ELSE Verdict(S3, d)
    <3>1. S1 \o DT \in Seq(Test)
      BY <2>3, <2>5
    <3>2. /\ Verdict(S1 \o DT, d) = IF Hits(S1) # {} THEN Verdict(S1, d)
                                      ELSE Verdict(DT, d)
          /\ Hits(S1 \o DT) = {} <=> Hits(S1) = {} /\ Hits(DT) = {}
      <4>1. S1 \in Seq(Test) /\ DT \in Seq(Test)
        BY <2>3, <2>5
      <4>2. QED
        BY <4>1, ConcatVerdict, ZenonT(60)
    <3>3. Verdict((S1 \o DT) \o S3, d)
            = IF Hits(S1 \o DT) # {} THEN Verdict(S1 \o DT, d) ELSE Verdict(S3, d)
      <4>1. PICK U : U = S1 \o DT
        OBVIOUS
      <4>2. U \in Seq(Test) /\ S3 \in Seq(Test)
        BY <3>1, <4>1, <2>4
      <4>3. Verdict(U \o S3, d) = IF Hits(U) # {} THEN Verdict(U, d) ELSE Verdict(S3, d)
        BY <4>2, ConcatVerdict, ZenonT(60)
      <4>4. QED
        BY <4>1, <4>3
    <3>4. QED
      BY <3>2, <3>3
  <2>8. Route(c, a) = IF st = IPOnDemand /\ R # NoPolicy THEN R
                      ELSE IF dom # NoPolicy THEN dom
                      ELSE IF st = IPIfNonMatch /\ R # NoPolicy THEN R
                      ELSE d
    BY <1>3 DEF Route, DomPolicy
  <2>9. QED
    BY <1>1, <2>3, <2>4, <2>5, <2>6, <2>7, <2>8
<1>4. QED
  BY <1>2, <1>3, RouterInputsAssumption

\* The router's inputs stay those of its initial state.
InputsOK == cfg \in Configs /\ addr \in Addresses

\* In every run of the router over rule sets and addresses of their
\* types, Client.Route picks the policy of the spec's rule order (Block
\* before Bypass before Proxy, the resolved IP before the domain lists
\* under IPOnDemand and after them under IPIfNonMatch, a failed resolution
\* or an IP of the other family matching nothing), and Client.DialConn
\* sends the address to the dialer of that policy.
THEOREM RouteFollowsSpecHolds == RouteSpec => []RouteFollowsSpec
<1>1. RouteInit => InputsOK
  BY DEF RouteInit, InputsOK
<1>2. InputsOK /\ [UNCHANGED vars]_vars => InputsOK'
  BY DEF InputsOK, vars
<1>3. InputsOK => RouteFollowsSpec
  <2> SUFFICES ASSUME InputsOK PROVE RouteFollowsSpec
    OBVIOUS
  <2>1. Route(cfg, addr) = SpecRoute(cfg, addr)
    BY RouteAgrees DEF InputsOK
  <2>2. QED
    BY <2>1 DEF RouteFollowsSpec, DialConn
<1>4. QED
  BY <1>1, <1>2, <1>3, PTL DEF RouteSpec

=============================================================================
