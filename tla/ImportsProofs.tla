---------------------------- MODULE ImportsProofs ----------------------------
(***************************************************************************)
(* Proofs about subscriptions and configurations, for every panel, every   *)
(* list of firewall rules and all settings: a fetch never replaces a       *)
(* working list by one that does not parse, a firewall rule decides over   *)
(* the default routing, no server is reached through itself, and what a    *)
(* configuration refers to is there.                                       *)
(***************************************************************************)
EXTENDS Imports, FiniteSetTheorems, SequenceTheorems, NaturalsInduction, WellFoundedInduction,
        TLAPS

FWRules == [action : STRING, domain : STRING, cidr : STRING, process : STRING]

-----------------------------------------------------------------------------
(* What a record holds. *)

\* A record is as it was until a list that parses is adopted; what the cores are built
\* from is never empty, and each is what its generator makes of it.
ListInv ==
  /\ stage \notin {"upload", "built"} => panel \in Panels
  /\ stage \in {"due", "retry", "fetched", "failed"} => cache \in {{}, Working}
  /\ IsFiniteSet(cache) /\ \A u \in cache : Parse(u).ok
  /\ stage = "fetched" => got = ParseBody(panel.body)
  /\ stage = "built" =>
       /\ built.opts \in Options
       /\ built.profiles # <<>> /\ built.profiles \in Seq(ToSet(built.profiles))
       /\ built.proxy = GenerateProxyConfigOpts(built.profiles, built.opts)
       /\ built.forwarder = GenerateForwarderConfigSet(built.profiles, built.opts.ports)
       /\ built.tunnel = GenerateTunnelConfigSet(built.profiles, built.opts)

LEMMA ListInit ==
  ASSUME ImportInit PROVE ListInv
<1>1. IsFiniteSet({})
  BY FS_EmptySet
<1> QED
  BY <1>1, ImportsConstantsOK DEF ImportInit, ListInv

\* The profiles of links that parse: none is lost.
LEMMA ProfilesOf ==
  ASSUME NEW links, IsFiniteSet(links), links # {}, \A u \in links : Parse(u).ok
  PROVE  LET s == SetToSeq(ParseAll(links).profiles) IN s # <<>> /\ s \in Seq(ToSet(s))
<1> DEFINE S == {Parse(u) : u \in links}
<1>1. ParseAll(links) = [ok |-> TRUE, profiles |-> S]
  BY Zenon DEF ParseAll
<1>2. ParseAll(links).profiles = S
  BY <1>1
<1>3. IsFiniteSet(S)
  <2> DEFINE f == [u \in links |-> Parse(u)]
  <2>1. f \in [links -> S] /\ \A s \in S : \E u \in links : f[u] = s
    OBVIOUS
  <2> HIDE DEF f, S
  <2>2. f \in Surjection(links, S)
    BY <2>1 DEF Surjection
  <2> QED
    BY <2>2, FS_Surjection
<1>4. S # {}
  OBVIOUS
<1> HIDE DEF S
<1>5. Cardinality(S) \in Nat /\ Cardinality(S) # 0 /\ ExistsBijection(1..Cardinality(S), S)
  BY <1>3, <1>4, FS_CardinalityType, FS_EmptySet
<1>6. \E f \in [1..Cardinality(S) -> S] : IsInjective(f)
  BY <1>5 DEF ExistsBijection, Bijection, Injection
<1>7. SetToSeq(S) \in [1..Cardinality(S) -> S]
  BY <1>6 DEF SetToSeq
<1> DEFINE s == SetToSeq(S)
<1> HIDE DEF s
<1>8. s \in [1..Cardinality(S) -> ToSet(s)]
  BY <1>5, <1>7 DEF s, ToSet
<1>9. s # <<>> /\ s \in Seq(ToSet(s))
  <2> DEFINE n == Cardinality(S)
  <2>1. n \in Nat /\ s \in [1..n -> ToSet(s)]
    BY <1>5, <1>8
  <2> HIDE DEF n
  <2>2. s \in Seq(ToSet(s))
    BY <2>1
  <2>3. 1 \in DOMAIN s
    BY <1>5, <1>7 DEF s
  <2>4. s # <<>>
    BY <2>3
  <2> QED
    BY <2>2, <2>4
<1> QED
  BY <1>2, <1>9 DEF s

LEMMA ListStep ==
  ASSUME ListInv, [ImportNext]_ivars PROVE ListInv'
<1>1. CASE AttemptDirect \/ AttemptProxied
  BY <1>1 DEF AttemptDirect, AttemptProxied, Fetched, ListInv
<1>2. CASE Adopt
  <2>1. CASE got.ok /\ ParseAll(got.links).ok
    <3>1. stage' = "adopted" /\ cache' = got.links /\ panel' = panel /\ got = ParseBody(panel.body)
      BY <1>2, <2>1 DEF Adopt, ListInv
    <3>2. \A u \in got.links : Parse(u).ok
      BY <2>1 DEF ParseAll, Bad
    <3>3. IsFiniteSet(got.links)
      BY <1>2, <2>1, <3>1, ImportsConstantsOK DEF ListInv, Adopt
    <3> QED
      BY <1>2, <3>1, <3>2, <3>3 DEF ListInv, Adopt
  <2>2. CASE ~(got.ok /\ ParseAll(got.links).ok)
    <3>1. stage' = "failed" /\ cache' = cache /\ panel' = panel /\ stage = "fetched"
      BY <1>2, <2>2 DEF Adopt
    <3> QED
      BY <3>1 DEF ListInv
  <2> QED
    BY <2>1, <2>2
<1>3. CASE BuildCores
  <2>1. stage' = "built" /\ UNCHANGED cache /\ stage \in {"adopted", "failed"}
    BY <1>3 DEF BuildCores
  <2>2. PICK o \in Options :
          /\ o.manual \cup cache # {}
          /\ built' = [opts |-> o, profiles |-> SetToSeq(ParseAll(o.manual \cup cache).profiles),
                       proxy |-> GenerateProxyConfigOpts(SetToSeq(ParseAll(o.manual \cup cache).profiles), o),
                       forwarder |-> GenerateForwarderConfigSet(SetToSeq(ParseAll(o.manual \cup cache).profiles), o.ports),
                       tunnel |-> GenerateTunnelConfigSet(SetToSeq(ParseAll(o.manual \cup cache).profiles), o)]
    BY <1>3, Zenon DEF BuildCores
  <2>3. IsFiniteSet(o.manual \cup cache) /\ \A u \in o.manual \cup cache : Parse(u).ok
    <3>1. IsFiniteSet(o.manual) /\ \A u \in o.manual : Parse(u).ok
      BY ImportsConstantsOK
    <3>2. IsFiniteSet(cache) /\ \A u \in cache : Parse(u).ok
      BY DEF ListInv
    <3> QED
      BY <3>1, <3>2, FS_Union
  <2> DEFINE profiles == SetToSeq(ParseAll(o.manual \cup cache).profiles)
  <2>4. profiles # <<>> /\ profiles \in Seq(ToSet(profiles))
    BY <2>2, <2>3, ProfilesOf
  <2> HIDE DEF profiles
  <2>5. built'.opts = o /\ built'.profiles = profiles
        /\ built'.proxy = GenerateProxyConfigOpts(profiles, o)
        /\ built'.forwarder = GenerateForwarderConfigSet(profiles, o.ports)
        /\ built'.tunnel = GenerateTunnelConfigSet(profiles, o)
    BY <2>2 DEF profiles
  <2> QED
    BY <2>1, <2>4, <2>5 DEF ListInv
<1>4. CASE UNCHANGED ivars
  BY <1>4 DEF ivars, ListInv
<1> QED
  BY <1>1, <1>2, <1>3, <1>4 DEF ImportNext

\* Whatever a panel serves and whichever attempt fails, what a record holds parses, and
\* a failed fetch leaves the list that worked.
THEOREM WorkingListSurvives == ImportSpec => []WorkingListKept
<1>1. ImportInit => ListInv
  BY ListInit
<1>2. ListInv /\ [ImportNext]_ivars => ListInv'
  BY ListStep
<1>3. ListInv => WorkingListKept
  BY DEF ListInv, WorkingListKept, ParseAll
<1> QED
  BY <1>1, <1>2, <1>3, PTL DEF ImportSpec

-----------------------------------------------------------------------------
(* The rules of the firewall among the route rules. *)

\* The number of members of K up to k.
Rank(K, k) == Cardinality({j \in K : j <= k})

LEMMA RankGrows ==
  ASSUME NEW n \in Nat, NEW K \in SUBSET (1..n), NEW a \in K, NEW b \in K, a < b
  PROVE  Rank(K, a) \in Nat /\ Rank(K, b) \in Nat /\ Rank(K, a) < Rank(K, b)
<1> DEFINE A == {j \in K : j <= a}
           B == {j \in K : j <= b}
<1>0. K \subseteq 1..n /\ \A k \in K : k \in Nat
  OBVIOUS
<1>1. A \in SUBSET B /\ b \in B /\ b \notin A /\ B \in SUBSET (1..n)
  <2>1. \A j \in K : j <= a => j <= b
    BY <1>0
  <2>2. b <= b /\ ~(b <= a)
    BY <1>0
  <2> QED
    BY <1>0, <2>1, <2>2
<1> HIDE DEF A, B
<1>2. IsFiniteSet(1..n)
  BY FS_Interval
<1>3. IsFiniteSet(B)
  BY <1>1, <1>2, FS_Subset
<1>4. IsFiniteSet(A) /\ Cardinality(A) <= Cardinality(B) /\ Cardinality(A) # Cardinality(B)
  BY <1>1, <1>3, FS_Subset
<1>5. Cardinality(A) \in Nat /\ Cardinality(B) \in Nat
  BY <1>3, <1>4, FS_CardinalityType
<1> QED
  BY <1>4, <1>5 DEF Rank, A, B

\* Ranks number the members of K from 1 to their number, each with one of them.
LEMMA RankNumbers ==
  ASSUME NEW n \in Nat, NEW K \in SUBSET (1..n)
  PROVE  /\ Cardinality(K) \in Nat
         /\ \A k \in K : Rank(K, k) \in 1..Cardinality(K)
         /\ \A a, b \in K : a < b => Rank(K, a) < Rank(K, b)
         /\ \A q \in 1..Cardinality(K) : \E k \in K : Rank(K, k) = q
<1>1. IsFiniteSet(K) /\ Cardinality(K) \in Nat
  <2>1. IsFiniteSet(1..n)
    BY FS_Interval
  <2>2. IsFiniteSet(K)
    BY <2>1, FS_Subset
  <2> QED
    BY <2>2, FS_CardinalityType
<1>2. \A a, b \in K : a < b => Rank(K, a) < Rank(K, b)
  BY RankGrows
<1>3. ASSUME NEW k \in K
      PROVE  Rank(K, k) \in 1..Cardinality(K)
  <2> DEFINE A == {j \in K : j <= k}
  <2>1. A \in SUBSET K /\ k \in A
    OBVIOUS
  <2> HIDE DEF A
  <2>2. IsFiniteSet(A) /\ Cardinality(A) <= Cardinality(K)
    BY <1>1, <2>1, FS_Subset
  <2>3. Cardinality(A) \in Nat /\ Cardinality(A) # 0
    BY <2>1, <2>2, FS_CardinalityType, FS_EmptySet
  <2> QED
    BY <1>1, <2>2, <2>3 DEF Rank, A
<1> DEFINE N == 1..Cardinality(K)
           f == [k \in K |-> Rank(K, k)]
<1>4. f \in [K -> N]
  BY <1>3
<1>5. \A a, b \in K : f[a] = f[b] => a = b
  BY <1>2, <1>3
<1>6. IsFiniteSet(N) /\ Cardinality(N) = Cardinality(K)
  BY <1>1, FS_Interval
<1>7. \A k \in K : f[k] = Rank(K, k)
  OBVIOUS
<1> HIDE DEF f, N
<1>8. f \in Injection(K, N)
  BY <1>4, <1>5 DEF Injection, IsInjective
<1>9. f \in Surjection(K, N)
  BY <1>6, <1>8, FS_Injection
<1>10. \A q \in N : \E k \in K : Rank(K, k) = q
  BY <1>7, <1>9 DEF Surjection
<1> QED
  BY <1>1, <1>2, <1>3, <1>10 DEF N

\* Chosen takes the elements at the places of K and no others, each once, in their order.
LEMMA ChosenOf ==
  ASSUME NEW n \in Nat, NEW K \in SUBSET (1..n), NEW s
  PROVE  /\ Cardinality(K) \in Nat
         /\ DOMAIN Chosen(s, K) = 1..Cardinality(K)
         /\ \A k \in K : Rank(K, k) \in 1..Cardinality(K) /\ Chosen(s, K)[Rank(K, k)] = s[k]
         /\ \A q \in 1..Cardinality(K) : \E k \in K : Rank(K, k) = q
         /\ \A a, b \in K : a < b => Rank(K, a) < Rank(K, b)
<1> DEFINE At(i) == CHOOSE k \in K : Rank(K, k) = i
<1>1. Chosen(s, K) = [i \in 1..Cardinality(K) |-> s[At(i)]]
  BY Zenon DEF Chosen, Rank
<1>2. \A k \in K : k \in Nat
  OBVIOUS
<1>3. /\ Cardinality(K) \in Nat
      /\ \A k \in K : Rank(K, k) \in 1..Cardinality(K)
      /\ \A a, b \in K : a < b => Rank(K, a) < Rank(K, b)
      /\ \A q \in 1..Cardinality(K) : \E k \in K : Rank(K, k) = q
  BY RankNumbers
<1>4. \A q \in 1..Cardinality(K) : At(q) \in K /\ Rank(K, At(q)) = q
  BY <1>3
<1> HIDE DEF At
<1>5. ASSUME NEW k \in K PROVE At(Rank(K, k)) = k
  <2>1. At(Rank(K, k)) \in K /\ Rank(K, At(Rank(K, k))) = Rank(K, k)
    BY <1>3, <1>4
  <2>2. \A a, b \in K : Rank(K, a) = Rank(K, b) => a = b
    BY <1>2, <1>3
  <2> QED
    BY <2>1, <2>2
<1> QED
  BY <1>1, <1>3, <1>5

\* The rules that set a field, and the route rule of one.
Formed(rules) == {k \in DOMAIN rules : Fields(rules[k]) # {}}
FirstField(r) == IF r.domain # "" THEN "domain" ELSE IF r.cidr # "" THEN "cidr" ELSE "process"
RouteRule(r) ==
  Rule(FirstField(r), {r[FirstField(r)]}, IF r.action = "block" THEN "block" ELSE "direct")

RouteRules == {RouteRule(r) : r \in FWRules}

\* firewallRouteRules keeps the order, skips the rules without a field and makes
\* one route rule of each of the others.
LEMMA RouteRulesOf ==
  ASSUME NEW rules \in Seq(FWRules)
  PROVE  LET K == Formed(rules)
             fw == FirewallRouteRules(rules)
         IN  /\ Cardinality(K) \in Nat
             /\ fw \in Seq(RouteRules)
             /\ Len(fw) = Cardinality(K)
             /\ \A k \in K : Rank(K, k) \in 1..Len(fw) /\ fw[Rank(K, k)] = RouteRule(rules[k])
             /\ \A q \in 1..Len(fw) : \E k \in K : Rank(K, k) = q
             /\ \A a, b \in K : a < b => Rank(K, a) < Rank(K, b)
<1> DEFINE K == Formed(rules)
           fw == FirewallRouteRules(rules)
           formed == Chosen(rules, K)
           m == Cardinality(K)
<1>1. Len(rules) \in Nat /\ K \in SUBSET (1..Len(rules)) /\ \A k \in K : rules[k] \in FWRules
  BY DEF Formed
<1>2. fw = [i \in DOMAIN formed |-> RouteRule(formed[i])]
  BY Zenon DEF FirewallRouteRules, Formed, RouteRule, FirstField
<1> HIDE DEF fw, K
<1>3. /\ m \in Nat /\ DOMAIN formed = 1..m
      /\ \A k \in K : Rank(K, k) \in 1..m /\ formed[Rank(K, k)] = rules[k]
      /\ \A q \in 1..m : \E k \in K : Rank(K, k) = q
      /\ \A a, b \in K : a < b => Rank(K, a) < Rank(K, b)
  BY <1>1, ChosenOf
<1> HIDE DEF formed, m
<1>4. \A i \in 1..m : RouteRule(formed[i]) \in RouteRules
  BY <1>1, <1>3 DEF RouteRules
<1>5. fw \in [1..m -> RouteRules]
  BY <1>2, <1>3, <1>4
<1>6. fw \in Seq(RouteRules) /\ Len(fw) = m
  BY <1>3, <1>5
<1>7. \A k \in K : fw[Rank(K, k)] = RouteRule(rules[k])
  BY <1>2, <1>3
<1> QED
  BY <1>3, <1>6, <1>7 DEF K, fw, m

-----------------------------------------------------------------------------
(* Which rule takes a connection. *)

LEMMA ValidSetsOne ==
  ASSUME NEW r \in FWRules, Validate(r)
  PROVE  \/ r.domain # "" /\ r.cidr = "" /\ r.process = ""
         \/ r.domain = "" /\ r.cidr # "" /\ r.process = ""
         \/ r.domain = "" /\ r.cidr = "" /\ r.process # ""
<1>1. Fields(r) \in SUBSET {"domain", "cidr", "process"}
  BY DEF Fields
<1>2. IsFiniteSet({"domain", "cidr", "process"})
  <2>1. IsFiniteSet({"domain"}) /\ IsFiniteSet({"cidr"}) /\ IsFiniteSet({"process"})
    BY FS_Singleton
  <2>2. IsFiniteSet({"domain"} \cup {"cidr"})
    BY <2>1, FS_Union
  <2>3. IsFiniteSet(({"domain"} \cup {"cidr"}) \cup {"process"})
    BY <2>1, <2>2, FS_Union
  <2>4. ({"domain"} \cup {"cidr"}) \cup {"process"} = {"domain", "cidr", "process"}
    OBVIOUS
  <2> QED
    BY <2>3, <2>4
<1>3. IsFiniteSet(Fields(r)) /\ Cardinality(Fields(r)) = 1
  BY <1>1, <1>2, FS_Subset DEF Validate
<1>4. PICK x : Fields(r) = {x}
  BY <1>3, FS_Singleton
<1>5. \A f \in {"domain", "cidr", "process"} : r[f] # "" <=> f = x
  BY <1>4 DEF Fields
<1>6. x \in {"domain", "cidr", "process"}
  BY <1>1, <1>4
<1>7. (r.domain # "" <=> x = "domain") /\ (r.cidr # "" <=> x = "cidr") /\ (r.process # "" <=> x = "process")
  BY <1>5
<1> QED
  BY <1>6, <1>7

\* A valid rule has a route rule, which matches what the rule names.
LEMMA ValidRuleMatches ==
  ASSUME NEW r \in FWRules, Validate(r), NEW process
  PROVE  Fields(r) # {} /\ Matches(RouteRule(r), ConnOf(r, process))
<1>1. CASE r.domain # "" /\ r.cidr = "" /\ r.process = ""
  <2>1. FirstField(r) = "domain" /\ ConnOf(r, process).host = r.domain
    BY <1>1 DEF FirstField, ConnOf
  <2>2. RouteRule(r).match = "domain" /\ RouteRule(r).value = {r.domain}
    BY <2>1 DEF RouteRule, Rule
  <2>3. Matches(RouteRule(r), ConnOf(r, process))
    BY <2>1, <2>2 DEF Matches
  <2> QED
    BY <1>1, <2>3 DEF Fields
<1>2. CASE r.domain = "" /\ r.cidr # "" /\ r.process = ""
  <2>1. FirstField(r) = "cidr" /\ ConnOf(r, process).host = r.cidr
    BY <1>2 DEF FirstField, ConnOf
  <2>2. RouteRule(r).match = "cidr" /\ RouteRule(r).value = {r.cidr}
    BY <2>1 DEF RouteRule, Rule
  <2>3. Matches(RouteRule(r), ConnOf(r, process))
    BY <2>1, <2>2 DEF Matches
  <2> QED
    BY <1>2, <2>3 DEF Fields
<1>3. CASE r.domain = "" /\ r.cidr = "" /\ r.process # ""
  <2>1. FirstField(r) = "process" /\ ConnOf(r, process).process = r.process
    BY <1>3 DEF FirstField, ConnOf
  <2>2. RouteRule(r).match = "process" /\ RouteRule(r).value = {r.process}
    BY <2>1 DEF RouteRule, Rule
  <2>3. Matches(RouteRule(r), ConnOf(r, process))
    BY <2>1, <2>2 DEF Matches
  <2> QED
    BY <1>3, <2>3 DEF Fields
<1> QED
  BY <1>1, <1>2, <1>3, ValidSetsOne

\* A route rule matches only what its rule names.
LEMMA MatchIsNamed ==
  ASSUME NEW r \in FWRules, NEW conn, Matches(RouteRule(r), conn)
  PROVE  NamedBy(r, conn)
<1>1. FirstField(r) \in {"domain", "cidr", "process"}
  BY DEF FirstField
<1>2. RouteRule(r).match = FirstField(r) /\ RouteRule(r).value = {r[FirstField(r)]}
  BY DEF RouteRule, Rule
<1>3. CASE FirstField(r) = "domain"
  BY <1>2, <1>3 DEF Matches, NamedBy
<1>4. CASE FirstField(r) = "cidr"
  BY <1>2, <1>4 DEF Matches, NamedBy
<1>5. CASE FirstField(r) = "process"
  BY <1>2, <1>5 DEF Matches, NamedBy
<1> QED
  BY <1>1, <1>3, <1>4, <1>5

\* The route rules of a configuration: the one that sniffs, those of the firewall, and
\* the defaults.
LEMMA ProxyRulesOf ==
  ASSUME NEW fw \in Seq(RouteRules)
  PROVE  /\ DOMAIN ProxyRules(fw) = 1..(Len(fw) + 3)
         /\ ProxyRules(fw)[1] = Sniff3s
         /\ \A q \in 1..Len(fw) : ProxyRules(fw)[1 + q] = fw[q]
<1> DEFINE ru == Rule("ru", {}, "direct")
           RR == RouteRules \cup {Sniff3s, Private, ru}
           a == <<Sniff3s>>
           z == <<Private, ru>>
<1>1. a \in Seq(RR) /\ Len(a) = 1 /\ a[1] = Sniff3s
  OBVIOUS
<1>2. z \in Seq(RR) /\ Len(z) = 2
  OBVIOUS
<1>3. fw \in Seq(RR)
  OBVIOUS
<1>4. ProxyRules(fw) = (a \o fw) \o z
  BY DEF ProxyRules
<1> HIDE DEF RR, a, z
<1> DEFINE b == a \o fw
<1>5. /\ b \in Seq(RR) /\ Len(b) = 1 + Len(fw)
      /\ \A q \in 1..1 + Len(fw) : b[q] = IF q <= 1 THEN a[q] ELSE fw[q - 1]
  <2>1. /\ b \in Seq(RR) /\ Len(b) = Len(a) + Len(fw)
        /\ \A q \in 1..Len(a) + Len(fw) : b[q] = IF q <= Len(a) THEN a[q] ELSE fw[q - Len(a)]
    BY <1>1, <1>3, ConcatProperties
  <2> HIDE DEF b
  <2> QED
    BY <1>1, <2>1
<1> HIDE DEF b
<1>6. /\ b \o z \in Seq(RR) /\ Len(b \o z) = Len(b) + 2
      /\ \A q \in 1..Len(b) + 2 : (b \o z)[q] = IF q <= Len(b) THEN b[q] ELSE z[q - Len(b)]
  <2>1. b \in Seq(RR) /\ z \in Seq(RR)
    BY <1>2, <1>5
  <2>2. /\ b \o z \in Seq(RR) /\ Len(b \o z) = Len(b) + Len(z)
        /\ \A q \in 1..Len(b) + Len(z) : (b \o z)[q] = IF q <= Len(b) THEN b[q] ELSE z[q - Len(b)]
    BY <2>1, ConcatProperties
  <2> QED
    BY <1>2, <2>2
<1>7. Len(fw) \in Nat
  OBVIOUS
<1> DEFINE p == b \o z
<1>8. ProxyRules(fw) = p
  BY <1>4 DEF b
<1>9. p \in Seq(RR) /\ Len(p) = Len(fw) + 3
      /\ \A q \in 1..1 + Len(fw) : p[q] = IF q <= 1 THEN a[q] ELSE fw[q - 1]
  BY <1>5, <1>6, <1>7
<1> HIDE DEF p
<1>10. DOMAIN p = 1..(Len(fw) + 3) /\ p[1] = Sniff3s
  BY <1>1, <1>7, <1>9
<1>11. ASSUME NEW q \in 1..Len(fw) PROVE p[1 + q] = fw[q]
  <2>1. 1 + q \in 1..1 + Len(fw) /\ ~(1 + q <= 1) /\ (1 + q) - 1 = q
    BY <1>7
  <2> QED
    BY <1>9, <2>1
<1> QED
  BY <1>8, <1>10, <1>11

LEMMA SniffTakesNothing ==
  ASSUME NEW conn PROVE ~Matches(Sniff3s, conn)
<1>1. Sniff3s.match = "sniff"
  BY DEF Sniff3s, Rule
<1> QED
  BY <1>1 DEF Matches

\* The outbound of the first of some route rules that matches.
FirstOf(rules, final, conn) ==
  LET hits == {h \in DOMAIN rules : Matches(rules[h], conn)}
  IN  IF hits = {} THEN final ELSE rules[CHOOSE h \in hits : \A g \in hits : h <= g].outbound

\* The first route rule that matches is the one of the first rule that names it.
LEMMA FirstHit ==
  ASSUME NEW rules \in Seq(FWRules), NEW i \in DOMAIN rules, Validate(rules[i]),
         NEW process, \A j \in 1..i - 1 : ~NamedBy(rules[j], ConnOf(rules[i], process)),
         NEW c, c.route.rules = ProxyRules(FirewallRouteRules(rules))
  PROVE  RouteOf(c, ConnOf(rules[i], process)) = Decision(rules[i])
<1> DEFINE K == Formed(rules)
           fw == FirewallRouteRules(rules)
           P == ProxyRules(fw)
           conn == ConnOf(rules[i], process)
           hits == {h \in DOMAIN P : Matches(P[h], conn)}
           hit == 1 + Rank(K, i)
<1>1. /\ Len(rules) \in Nat /\ DOMAIN rules = 1..Len(rules) /\ i \in 1..Len(rules)
      /\ \A k \in 1..Len(rules) : rules[k] \in FWRules
  OBVIOUS
<1>2. i \in K
  BY <1>1, ValidRuleMatches DEF Formed
<1>3. K \subseteq 1..Len(rules)
  BY <1>1 DEF Formed
<1>4. /\ fw \in Seq(RouteRules)
      /\ \A k \in K : Rank(K, k) \in 1..Len(fw) /\ fw[Rank(K, k)] = RouteRule(rules[k])
      /\ \A q \in 1..Len(fw) : \E k \in K : Rank(K, k) = q
      /\ \A a, b \in K : a < b => Rank(K, a) < Rank(K, b)
  BY RouteRulesOf
<1> HIDE DEF K, fw
<1>5. /\ DOMAIN P = 1..(Len(fw) + 3) /\ P[1] = Sniff3s
      /\ \A q \in 1..Len(fw) : P[1 + q] = fw[q]
  BY <1>4, ProxyRulesOf
<1>6. Len(fw) \in Nat
  BY <1>4
<1> HIDE DEF P, conn
<1>7. hit \in hits /\ P[hit] = RouteRule(rules[i])
  <2>1. Rank(K, i) \in 1..Len(fw) /\ fw[Rank(K, i)] = RouteRule(rules[i])
    BY <1>2, <1>4
  <2>2. hit \in DOMAIN P /\ P[hit] = RouteRule(rules[i])
    BY <1>5, <1>6, <2>1
  <2>3. Matches(RouteRule(rules[i]), conn)
    BY <1>1, ValidRuleMatches DEF conn
  <2> QED
    BY <2>2, <2>3
<1>8. ASSUME NEW h \in hits PROVE hit <= h
  <2> SUFFICES ASSUME h < hit PROVE FALSE
    BY <1>2, <1>4, <1>5, <1>6
  <2>1. h \in 1..(Len(fw) + 3) /\ Matches(P[h], conn)
    BY <1>5
  <2>2. h # 1
    BY <1>5, <2>1, SniffTakesNothing
  <2>3. Rank(K, i) \in 1..Len(fw)
    BY <1>2, <1>4
  <2>4. h - 1 \in 1..Len(fw) /\ h - 1 < Rank(K, i) /\ P[h] = fw[h - 1]
    <3>1. h - 1 \in 1..Len(fw) /\ h - 1 < Rank(K, i) /\ 1 + (h - 1) = h
      BY <1>6, <2>1, <2>2, <2>3
    <3> QED
      BY <1>5, <3>1
  <2>5. PICK k \in K : Rank(K, k) = h - 1
    BY <1>4, <2>4
  <2>6. P[h] = RouteRule(rules[k])
    BY <1>4, <2>4, <2>5
  <2>7. NamedBy(rules[k], conn)
    BY <1>1, <1>3, <2>1, <2>6, MatchIsNamed
  <2>8. ~(i < k) /\ i # k
    BY <1>2, <1>4, <2>1, <2>3, <2>4, <2>5
  <2>9. k \in 1..i - 1
    BY <1>1, <1>3, <2>8
  <2> QED
    BY <2>7, <2>9 DEF conn
<1>9. (CHOOSE h \in hits : \A g \in hits : h <= g) = hit
  <2>1. \A h, g \in hits : h <= g /\ g <= h => h = g
    BY <1>5, <1>6
  <2> HIDE DEF hits, hit
  <2> QED
    BY <1>7, <1>8, <2>1
<1>10. RouteOf(c, conn) = P[hit].outbound
  <2>1. RouteOf(c, conn) = FirstOf(c.route.rules, c.route.final, conn)
    BY Zenon DEF RouteOf, FirstOf
  <2>2. c.route.rules = P
    BY DEF P, fw
  <2>3. RouteOf(c, conn) = FirstOf(P, c.route.final, conn)
    BY <2>1, <2>2
  <2>4. FirstOf(P, c.route.final, conn) =
          (IF hits = {} THEN c.route.final
           ELSE P[CHOOSE h \in hits : \A g \in hits : h <= g].outbound)
    BY Zenon DEF FirstOf
  <2> HIDE DEF hits, hit
  <2> QED
    BY <1>7, <1>9, <2>3, <2>4
<1>11. RouteRule(rules[i]).outbound = Decision(rules[i])
  BY DEF RouteRule, Rule, Decision
<1> QED
  BY <1>7, <1>10, <1>11 DEF conn

LEMMA BuiltFirewall ==
  ASSUME NEW profiles, profiles # <<>>, NEW o
  PROVE  GenerateProxyConfigOpts(profiles, o).route.rules = ProxyRules(FirewallRouteRules(o.firewall))
BY DEF GenerateProxyConfigOpts, Config

-----------------------------------------------------------------------------
(* The nodes of a configuration. *)

\* The outbounds and the endpoint that the protocol modules render.
NodeTypes == {"vless", "vless-xhttp", "vmess", "trojan", "shadowsocks", "hysteria",
              "hysteria2", "tuic", "anytls", "wireguard"}

\* Whatever a profile holds, its module renders a node of one of these types, with the
\* tag and the interface it is given, and what the node dials depends on neither.
LEMMA RenderNodeIs ==
  ASSUME NEW p, NEW o
  PROVE  LET n == RenderNode(p, o)
         IN  /\ n.type \in NodeTypes /\ n.tag = o.tag /\ n.bind = o.bind
             /\ NodeHosts(n) = NodeHosts(RenderNode(p, NoOpts))
<1> DEFINE q == p.params
           Is(n, m) == /\ n.type \in NodeTypes /\ n.tag = o.tag /\ n.bind = o.bind
                       /\ m.type = n.type
                       /\ IF n.type = "wireguard" THEN n.peers = m.peers ELSE n.server = m.server
<1>1. Is(NodeVLESS(q, o), NodeVLESS(q, NoOpts))
  BY DEF NodeVLESS, NodeTypes
<1>2. /\ Is(NodeVMess(q, o), NodeVMess(q, NoOpts))
      /\ Is(NodeTrojan(q, o), NodeTrojan(q, NoOpts))
      /\ Is(NodeSS(q, o), NodeSS(q, NoOpts))
  BY DEF NodeVMess, NodeTrojan, NodeSS, NodeTypes
<1>3. /\ Is(NodeHysteria(q, o), NodeHysteria(q, NoOpts))
      /\ Is(NodeHysteria2(q, o), NodeHysteria2(q, NoOpts))
      /\ Is(NodeTUIC(q, o), NodeTUIC(q, NoOpts))
      /\ Is(NodeAnyTLS(q, o), NodeAnyTLS(q, NoOpts))
  BY DEF NodeHysteria, NodeHysteria2, NodeTUIC, NodeAnyTLS, NodeTypes
<1>4. Is(NodeWireGuard(q, o), NodeWireGuard(q, NoOpts))
  BY DEF NodeWireGuard, NodeTypes
<1> HIDE DEF Is
<1>5. Is(RenderNode(p, o), RenderNode(p, NoOpts))
  BY <1>1, <1>2, <1>3, <1>4 DEF RenderNode
<1> DEFINE n == RenderNode(p, o)
           m == RenderNode(p, NoOpts)
<1>6. /\ n.type \in NodeTypes /\ n.tag = o.tag /\ n.bind = o.bind /\ m.type = n.type
      /\ IF n.type = "wireguard" THEN n.peers = m.peers ELSE n.server = m.server
  BY <1>5 DEF Is
<1> HIDE DEF n, m
<1>7. NodeHosts(n) = NodeHosts(m)
  BY <1>6 DEF NodeHosts
<1> QED
  BY <1>6, <1>7 DEF n, m

\* The nodes of some profiles, under their tags and bound to the interface.
LEMMA RenderedIs ==
  ASSUME NEW profiles, NEW iface
  PROVE  /\ DOMAIN Rendered(profiles, iface) = DOMAIN profiles
         /\ \A i \in DOMAIN profiles :
              LET n == Rendered(profiles, iface)[i]
              IN  /\ n.type \in NodeTypes
                  /\ n.tag = ServerTags(Len(profiles))[i] /\ n.bind = iface
                  /\ NodeHosts(n) = NodeHosts(RenderNode(profiles[i], NoOpts))
<1> DEFINE s == Rendered(profiles, iface)
           opts(i) == RenderOpts(ServerTags(Len(profiles))[i], iface)
<1>1. s = [i \in DOMAIN profiles |-> RenderNode(profiles[i], opts(i))]
  BY Zenon DEF Rendered
<1>2. \A i : opts(i).tag = ServerTags(Len(profiles))[i] /\ opts(i).bind = iface
  BY DEF RenderOpts
<1> HIDE DEF s, opts
<1>3. \A i \in DOMAIN profiles : s[i] = RenderNode(profiles[i], opts(i))
  BY <1>1
<1>4. ASSUME NEW i \in DOMAIN profiles
      PROVE  /\ s[i].type \in NodeTypes
             /\ s[i].tag = ServerTags(Len(profiles))[i] /\ s[i].bind = iface
             /\ NodeHosts(s[i]) = NodeHosts(RenderNode(profiles[i], NoOpts))
  BY <1>2, <1>3, RenderNodeIs
<1> QED
  BY <1>1, <1>4 DEF s

\* What the servers of some profiles dial is the same whatever they are bound to.
LEMMA RenderedHosts ==
  ASSUME NEW profiles, NEW iface
  PROVE  HostsOf(Rendered(profiles, iface)) = HostsOf(Rendered(profiles, ""))
<1> DEFINE s == Rendered(profiles, iface)
           t == Rendered(profiles, "")
           Same(r) == /\ DOMAIN r = DOMAIN profiles
                      /\ \A i \in DOMAIN profiles : NodeHosts(r[i]) = NodeHosts(RenderNode(profiles[i], NoOpts))
<1>1. Same(s) /\ Same(t)
  <2>1. Same(s)
    BY RenderedIs
  <2>2. Same(t)
    BY RenderedIs
  <2> QED
    BY <2>1, <2>2
<1> HIDE DEF s, t
<1>2. HostsOf(s) = HostsOf(t)
  BY <1>1 DEF HostsOf
<1> QED
  BY <1>2 DEF s, t

-----------------------------------------------------------------------------
(* What takes the traffic of the cores. *)

LEMMA Smallest ==
  ASSUME NEW T, T \subseteq Nat, T # {}
  PROVE  \E x \in T : \A y \in T : x <= y
<1> DEFINE R == OpToRel(<, Nat)
<1>1. IsWellFoundedOn(R, Nat)
  BY NatLessThanWellFounded
<1>2. \A a, b \in Nat : a < b => <<a, b>> \in R
  BY DEF OpToRel
<1> HIDE DEF R
<1>3. PICK x \in T : \A y \in T : ~(<<y, x>> \in R)
  BY <1>1, WFMin
<1>4. \A y \in T : ~(y < x)
  BY <1>2, <1>3
<1> QED
  BY <1>4

\* A connection that some route rule matches goes where one of those says.
LEMMA SomeHit ==
  ASSUME NEW c, NEW conn, NEW n \in Nat, DOMAIN c.route.rules = 1..n,
         NEW k \in 1..n, Matches(c.route.rules[k], conn)
  PROVE  \E h \in 1..n : /\ Matches(c.route.rules[h], conn)
                         /\ RouteOf(c, conn) = c.route.rules[h].outbound
<1> DEFINE P == c.route.rules
           hits == {h \in DOMAIN P : Matches(P[h], conn)}
           first == CHOOSE h \in hits : \A g \in hits : h <= g
<1>1. k \in hits /\ hits \subseteq Nat
  OBVIOUS
<1>2. RouteOf(c, conn) = FirstOf(P, c.route.final, conn)
  BY Zenon DEF RouteOf, FirstOf
<1>3. FirstOf(P, c.route.final, conn) = (IF hits = {} THEN c.route.final ELSE P[first].outbound)
  BY Zenon DEF FirstOf
<1>4. \A h \in hits : h \in 1..n /\ Matches(P[h], conn)
  OBVIOUS
<1> HIDE DEF P, hits
<1>5. \E h \in hits : \A g \in hits : h <= g
  BY <1>1, Smallest
<1>6. first \in hits
  BY <1>5
<1> HIDE DEF first
<1>7. RouteOf(c, conn) = P[first].outbound
  BY <1>1, <1>2, <1>3
<1> QED
  BY <1>4, <1>6, <1>7 DEF P

\* A set as a sequence: every member, once.
LEMMA SetToSeqOf ==
  ASSUME NEW S, IsFiniteSet(S)
  PROVE  /\ SetToSeq(S) \in Seq(S) /\ Len(SetToSeq(S)) = Cardinality(S)
         /\ Cardinality(S) \in Nat
         /\ \A x \in S : \E i \in 1..Cardinality(S) : SetToSeq(S)[i] = x
<1> DEFINE n == Cardinality(S)
           s == SetToSeq(S)
<1>1. n \in Nat /\ ExistsBijection(1..n, S)
  BY FS_CardinalityType
<1>2. \E f \in [1..n -> S] : IsInjective(f)
  BY <1>1 DEF ExistsBijection, Bijection, Injection
<1>3. s \in [1..n -> S] /\ IsInjective(s)
  BY <1>2 DEF SetToSeq
<1>4. IsFiniteSet(1..n) /\ Cardinality(1..n) = n
  BY <1>1, FS_Interval
<1>5. n = Cardinality(S)
  OBVIOUS
<1> HIDE DEF n, s
<1>6. s \in Injection(1..n, S)
  BY <1>3 DEF Injection
<1>7. s \in Surjection(1..n, S)
  BY <1>4, <1>5, <1>6, FS_Injection
<1>8. \A x \in S : \E i \in 1..n : s[i] = x
  BY <1>7 DEF Surjection
<1>9. s \in Seq(S) /\ Len(s) = n
  BY <1>1, <1>3
<1> QED
  BY <1>1, <1>8, <1>9 DEF n, s

\* The direct rules for the servers given by their addresses.
LEMMA GuardsOf ==
  ASSUME NEW nodes
  PROVE  LET R == {LoopGuard(h) : h \in HostsOf(nodes) \cap (IPv4 \cup IPv6)}
         IN  LoopGuards(nodes) = SetToSeq(R) /\ IsFiniteSet(R)
<1> DEFINE H == HostsOf(nodes) \cap (IPv4 \cup IPv6)
           R == {LoopGuard(h) : h \in H}
           f == [h \in H |-> LoopGuard(h)]
<1>1. LoopGuards(nodes) = SetToSeq(R)
  BY Zenon DEF LoopGuards
<1>2. IsFiniteSet(H)
  BY HostsOK, FS_Subset
<1>3. f \in [H -> R] /\ \A g \in R : \E h \in H : f[h] = g
  OBVIOUS
<1> HIDE DEF f, H, R
<1>4. f \in Surjection(H, R)
  BY <1>3 DEF Surjection
<1>5. IsFiniteSet(R)
  BY <1>2, <1>4, FS_Surjection
<1> QED
  BY <1>1, <1>5 DEF R, H

\* The rules in front of the guards do not take traffic to a server from them: two
\* match nothing, the third is direct too.
LEMMA GuardTakes ==
  ASSUME NEW nodes, NEW c, NEW h \in HostsOf(nodes), Literal(h),
         c.route.rules = <<Sniff3s, Hijack, Private>> \o LoopGuards(nodes)
  PROVE  RouteOf(c, [host |-> h, process |-> ""]) = "direct"
<1> DEFINE R == {LoopGuard(x) : x \in HostsOf(nodes) \cap (IPv4 \cup IPv6)}
           G == SetToSeq(R)
           a == <<Sniff3s, Hijack, Private>>
           RR == R \cup {Sniff3s, Hijack, Private}
           conn == [host |-> h, process |-> ""]
           P == a \o G
           n == 3 + Len(G)
<1>1. c.route.rules = P /\ IsFiniteSet(R)
  BY GuardsOf
<1>2. LoopGuard(h) \in R
  BY DEF Literal
<1>3. a \in Seq(RR) /\ Len(a) = 3 /\ a[1] = Sniff3s /\ a[2] = Hijack /\ a[3] = Private
  OBVIOUS
<1> HIDE DEF R, a
<1>4. /\ G \in Seq(R) /\ Len(G) \in Nat
      /\ \A x \in R : \E i \in 1..Len(G) : G[i] = x
  BY <1>1, SetToSeqOf
<1> HIDE DEF G
<1>5. G \in Seq(RR)
  BY <1>4
<1> HIDE DEF RR
<1>6. /\ P \in Seq(RR) /\ Len(P) = Len(a) + Len(G)
      /\ \A q \in 1..Len(a) + Len(G) : P[q] = IF q <= Len(a) THEN a[q] ELSE G[q - Len(a)]
  BY <1>3, <1>5, ConcatProperties
<1> HIDE DEF P
<1>7. /\ n \in Nat /\ DOMAIN P = 1..n
      /\ \A q \in 1..n : P[q] = IF q <= 3 THEN a[q] ELSE G[q - 3]
  BY <1>3, <1>4, <1>6
<1>8. PICK i \in 1..Len(G) : G[i] = LoopGuard(h)
  BY <1>2, <1>4
<1>9. i + 3 \in 1..n /\ P[i + 3] = LoopGuard(h)
  <2>1. i + 3 \in 1..n /\ ~(i + 3 <= 3) /\ (i + 3) - 3 = i
    BY <1>4
  <2> QED
    BY <1>7, <1>8, <2>1
<1>10. conn.host = h /\ conn.process = ""
  OBVIOUS
<1> HIDE DEF conn, n
<1>11. Matches(LoopGuard(h), conn)
  <2>1. LoopGuard(h).match = "cidr" /\ LoopGuard(h).value = {h}
    BY DEF LoopGuard, Rule
  <2> QED
    BY <1>10, <2>1 DEF Matches
<1>12. PICK q \in 1..n : Matches(P[q], conn) /\ RouteOf(c, conn) = P[q].outbound
  BY <1>1, <1>7, <1>9, <1>11, SomeHit
<1>13. P[q] \in R \cup {Sniff3s, Hijack, Private}
  BY <1>6, <1>7 DEF RR
<1>14. ~Matches(Sniff3s, conn) /\ ~Matches(Hijack, conn)
  <2>1. Sniff3s.match = "sniff" /\ Hijack.match = "dns"
    BY DEF Sniff3s, Hijack, Rule
  <2> QED
    BY <2>1 DEF Matches
<1>15. Private.outbound = "direct" /\ \A r \in R : r.outbound = "direct"
  BY DEF Private, R, LoopGuard, Rule
<1> QED
  BY <1>12, <1>13, <1>14, <1>15 DEF conn

-----------------------------------------------------------------------------
(* Where Config puts the nodes. *)

\* The tags of a sequence of outbounds, endpoints or DNS servers; that no two share one.
TagSet(s) == {n.tag : n \in ToSet(s)}
Unique(s) == \A i, j \in DOMAIN s : s[i].tag = s[j].tag => i = j

LEMMA JoinOf ==
  ASSUME NEW S, NEW a \in Seq(S), NEW b \in Seq(S)
  PROVE  /\ a \o b \in Seq(S)
         /\ ToSet(a \o b) = ToSet(a) \cup ToSet(b)
         /\ Unique(a) /\ Unique(b) /\ TagSet(a) \cap TagSet(b) = {} => Unique(a \o b)
<1> DEFINE m == Len(a)
           n == Len(b)
           s == a \o b
<1>1. m \in Nat /\ n \in Nat /\ DOMAIN a = 1..m /\ DOMAIN b = 1..n
  OBVIOUS
<1>2. /\ s \in Seq(S) /\ Len(s) = m + n
      /\ \A i \in 1..m + n : s[i] = IF i <= m THEN a[i] ELSE b[i - m]
  BY ConcatProperties
<1> HIDE DEF s
<1>3. DOMAIN s = 1..m + n
  BY <1>2
<1> HIDE DEF m, n
<1>4. \A i \in 1..m : i \in 1..m + n /\ s[i] = a[i]
  BY <1>1, <1>2
<1>5. \A i \in 1..n : m + i \in 1..m + n /\ s[m + i] = b[i]
  <2> SUFFICES ASSUME NEW i \in 1..n PROVE m + i \in 1..m + n /\ s[m + i] = b[i]
    OBVIOUS
  <2>1. m + i \in 1..m + n /\ ~(m + i <= m) /\ (m + i) - m = i
    BY <1>1
  <2> QED
    BY <1>2, <2>1
<1>6. \A i \in 1..m + n : (i \in 1..m /\ s[i] = a[i]) \/ (i - m \in 1..n /\ s[i] = b[i - m])
  <2> SUFFICES ASSUME NEW i \in 1..m + n
               PROVE  (i \in 1..m /\ s[i] = a[i]) \/ (i - m \in 1..n /\ s[i] = b[i - m])
    OBVIOUS
  <2>1. CASE i <= m
    BY <1>1, <1>2, <2>1
  <2>2. CASE ~(i <= m)
    BY <1>1, <1>2, <2>2
  <2> QED
    BY <2>1, <2>2
<1>7. ToSet(s) = ToSet(a) \cup ToSet(b)
  <2>1. ASSUME NEW x \in ToSet(s) PROVE x \in ToSet(a) \cup ToSet(b)
    <3>1. PICK i \in 1..m + n : x = s[i]
      BY <1>3 DEF ToSet
    <3> QED
      BY <1>1, <1>6, <3>1 DEF ToSet
  <2>2. ASSUME NEW x \in ToSet(a) PROVE x \in ToSet(s)
    BY <1>1, <1>3, <1>4 DEF ToSet
  <2>3. ASSUME NEW x \in ToSet(b) PROVE x \in ToSet(s)
    <3>1. PICK i \in 1..n : x = b[i]
      BY <1>1 DEF ToSet
    <3>2. m + i \in DOMAIN s /\ s[m + i] = x
      BY <1>3, <1>5, <3>1
    <3> QED
      BY <3>2 DEF ToSet
  <2> QED
    BY <2>1, <2>2, <2>3
<1>8. ASSUME Unique(a), Unique(b), TagSet(a) \cap TagSet(b) = {} PROVE Unique(s)
  <2> SUFFICES ASSUME NEW i \in 1..m + n, NEW j \in 1..m + n, s[i].tag = s[j].tag
               PROVE  i = j
    BY <1>3 DEF Unique
  <2>1. \A k \in 1..m, l \in 1..n : a[k].tag # b[l].tag
    <3>1. \A k \in 1..m : a[k].tag \in TagSet(a)
      BY <1>1 DEF TagSet, ToSet
    <3>2. \A l \in 1..n : b[l].tag \in TagSet(b)
      BY <1>1 DEF TagSet, ToSet
    <3> QED
      BY <1>8, <3>1, <3>2
  <2>2. CASE i \in 1..m /\ s[i] = a[i]
    <3>1. CASE j \in 1..m /\ s[j] = a[j]
      BY <1>1, <1>8, <2>2, <3>1 DEF Unique
    <3>2. CASE j - m \in 1..n /\ s[j] = b[j - m]
      BY <2>1, <2>2, <3>2
    <3> QED
      BY <1>6, <3>1, <3>2
  <2>3. CASE i - m \in 1..n /\ s[i] = b[i - m]
    <3>1. CASE j \in 1..m /\ s[j] = a[j]
      BY <2>1, <2>3, <3>1
    <3>2. CASE j - m \in 1..n /\ s[j] = b[j - m]
      <4>1. i - m = j - m
        BY <1>1, <1>8, <2>3, <3>2 DEF Unique
      <4> QED
        BY <1>1, <4>1
    <3> QED
      BY <1>6, <3>1, <3>2
  <2> QED
    BY <1>6, <2>2, <2>3
<1> QED
  BY <1>2, <1>7, <1>8 DEF s

LEMMA ChosenSeq ==
  ASSUME NEW S, NEW s \in Seq(S), NEW K \in SUBSET DOMAIN s
  PROVE  /\ Chosen(s, K) \in Seq(S)
         /\ ToSet(Chosen(s, K)) = {s[k] : k \in K}
         /\ Unique(s) => Unique(Chosen(s, K))
<1> DEFINE n == Len(s)
           m == Cardinality(K)
           t == Chosen(s, K)
<1>1. n \in Nat /\ DOMAIN s = 1..n /\ K \in SUBSET (1..n) /\ \A k \in 1..n : s[k] \in S
  OBVIOUS
<1> HIDE DEF n
<1>2. /\ m \in Nat /\ DOMAIN t = 1..m
      /\ \A k \in K : Rank(K, k) \in 1..m /\ t[Rank(K, k)] = s[k]
      /\ \A q \in 1..m : \E k \in K : Rank(K, k) = q
  BY <1>1, ChosenOf
<1>3. t = [q \in 1..m |-> t[q]]
  BY <1>2 DEF Chosen
<1> HIDE DEF m, t
<1>4. \A q \in 1..m : \E k \in K : Rank(K, k) = q /\ t[q] = s[k]
  BY <1>2
<1>5. t \in [1..m -> S]
  BY <1>1, <1>3, <1>4
<1>6. t \in Seq(S)
  BY <1>2, <1>5
<1>7. ToSet(t) = {s[k] : k \in K}
  BY <1>2, <1>4 DEF ToSet
<1>8. ASSUME Unique(s) PROVE Unique(t)
  <2> SUFFICES ASSUME NEW p \in 1..m, NEW q \in 1..m, t[p].tag = t[q].tag PROVE p = q
    BY <1>2 DEF Unique
  <2>1. PICK a \in K : Rank(K, a) = p /\ t[p] = s[a]
    BY <1>4
  <2>2. PICK b \in K : Rank(K, b) = q /\ t[q] = s[b]
    BY <1>4
  <2>3. a = b
    BY <1>1, <1>8, <2>1, <2>2 DEF Unique
  <2> QED
    BY <2>1, <2>2, <2>3
<1> QED
  BY <1>6, <1>7, <1>8 DEF t

\* placeNode: every node is an outbound or an endpoint and never both, beside the
\* outbounds that belong to the configuration itself.
LEMMA Placed ==
  ASSUME NEW S, NEW nodes \in Seq(S), NEW extra \in Seq(S), NEW in, NEW dns, NEW route
  PROVE  LET c == Config(in, nodes, extra, dns, route)
         IN  /\ c.ok /\ c.dns = dns /\ c.route = route
             /\ c.outbounds \in Seq(S) /\ c.endpoints \in Seq(S)
             /\ ToSet(c.outbounds) \cup ToSet(c.endpoints) = ToSet(nodes) \cup ToSet(extra)
             /\ Unique(nodes) /\ Unique(extra) /\ TagSet(nodes) \cap TagSet(extra) = {} =>
                  Unique(c.outbounds \o c.endpoints)
<1> DEFINE c == Config(in, nodes, extra, dns, route)
           E == {i \in DOMAIN nodes : IsEndpoint(nodes[i])}
           O == DOMAIN nodes \ E
           a == Chosen(nodes, O)
           b == Chosen(nodes, E)
           out == a \o extra
<1>1. c.ok /\ c.dns = dns /\ c.route = route /\ c.outbounds = out /\ c.endpoints = b
  BY DEF Config
<1>2. O \in SUBSET DOMAIN nodes /\ E \in SUBSET DOMAIN nodes /\ O \cup E = DOMAIN nodes /\ O \cap E = {}
  OBVIOUS
<1> HIDE DEF O, E, c
<1>3. /\ a \in Seq(S) /\ ToSet(a) = {nodes[k] : k \in O}
      /\ Unique(nodes) => Unique(a)
  BY <1>2, ChosenSeq
<1>4. /\ b \in Seq(S) /\ ToSet(b) = {nodes[k] : k \in E}
      /\ Unique(nodes) => Unique(b)
  BY <1>2, ChosenSeq
<1> HIDE DEF a, b
<1>5. /\ out \in Seq(S) /\ ToSet(out) = ToSet(a) \cup ToSet(extra)
      /\ Unique(a) /\ Unique(extra) /\ TagSet(a) \cap TagSet(extra) = {} => Unique(out)
  BY <1>3, JoinOf
<1> HIDE DEF out
<1>6. Unique(out) /\ Unique(b) /\ TagSet(out) \cap TagSet(b) = {} => Unique(out \o b)
  BY <1>4, <1>5, JoinOf
<1>7. ToSet(nodes) = ToSet(a) \cup ToSet(b)
  BY <1>2, <1>3, <1>4 DEF ToSet
<1>8. ASSUME Unique(nodes), Unique(extra), TagSet(nodes) \cap TagSet(extra) = {}
      PROVE  Unique(out \o b)
  <2>1. TagSet(a) \cap TagSet(extra) = {} /\ TagSet(b) \cap TagSet(extra) = {}
    BY <1>7, <1>8 DEF TagSet
  <2>2. TagSet(a) \cap TagSet(b) = {}
    <3> SUFFICES ASSUME NEW x \in TagSet(a), x \in TagSet(b) PROVE FALSE
      OBVIOUS
    <3>1. PICK k \in O : x = nodes[k].tag
      BY <1>3 DEF TagSet
    <3>2. PICK l \in E : x = nodes[l].tag
      BY <1>4 DEF TagSet
    <3>3. k = l
      BY <1>2, <1>8, <3>1, <3>2 DEF Unique
    <3> QED
      BY <1>2, <3>3
  <2>3. TagSet(out) = TagSet(a) \cup TagSet(extra)
    BY <1>5 DEF TagSet
  <2> QED
    BY <1>3, <1>4, <1>5, <1>6, <1>8, <2>1, <2>2, <2>3
<1> QED
  BY <1>1, <1>4, <1>5, <1>7, <1>8 DEF c

-----------------------------------------------------------------------------
(* Who resolves the names of the servers. *)

\* A name that has to be resolved before the proxy is up is answered to a client by the
\* bootstrap server, and a dialer does not ask for it through the proxy.
Booted(c, name) ==
  /\ Answers(c, name).tag = "boot-dns" /\ Answers(c, name).detour = ""
  /\ DialerAsks(c, name).detour = ""

LEMMA BootAnswers ==
  ASSUME NEW c, NEW boot, NEW name \in boot,
         c.dns = [servers |-> DNSServers(boot), rules |-> DNSRules(boot), final |-> "proxy-dns"],
         c.route.resolver = "local"
  PROVE  Booted(c, name)
<1> DEFINE p == DNSServer("proxy-dns", "https", "proxy")
           l == DNSServer("local", "local", "")
           b == DNSServer("boot-dns", "https", "")
           rule == [domain |-> boot, server |-> "boot-dns"]
<1>1. p.tag = "proxy-dns" /\ l.tag = "local" /\ b.tag = "boot-dns" /\ l.detour = "" /\ b.detour = ""
  BY DEF DNSServer
<1>2. c.dns.servers = <<p, l>> \o <<b>>
  <2>1. DNSServers(boot) = <<p, l>> \o <<b>>
    BY Zenon DEF DNSServers
  <2>2. c.dns.servers = DNSServers(boot)
    OBVIOUS
  <2> QED
    BY <2>1, <2>2, Zenon
<1>3. c.dns.rules = <<rule>>
  BY DEF DNSRules
<1> HIDE DEF p, l, b
<1>4. ServersOf(c) = {p, l, b}
  <2>1. <<p, l>> \in Seq({p, l, b}) /\ <<b>> \in Seq({p, l, b})
    OBVIOUS
  <2>2. ToSet(c.dns.servers) = ToSet(<<p, l>>) \cup ToSet(<<b>>)
    BY <1>2, <2>1, JoinOf
  <2>3. ToSet(<<p, l>>) = {p, l} /\ ToSet(<<b>>) = {b}
    BY DEF ToSet
  <2> QED
    BY <2>2, <2>3 DEF ServersOf
<1>5. ServerNamed(c, "local") = l /\ ServerNamed(c, "boot-dns") = b
  BY <1>1, <1>4 DEF ServerNamed
<1>6. DialerAsks(c, name) = l
  BY <1>5 DEF DialerAsks
<1>7. Answers(c, name) = b
  <2> DEFINE hits == {i \in DOMAIN c.dns.rules : name \in c.dns.rules[i].domain}
  <2>1. hits = {1} /\ c.dns.rules[1].server = "boot-dns"
    BY <1>3
  <2>2. Answers(c, name) =
          ServerNamed(c, IF hits = {} THEN c.dns.final
                         ELSE c.dns.rules[CHOOSE i \in hits : \A j \in hits : i <= j].server)
    BY Zenon DEF Answers
  <2> HIDE DEF hits
  <2>3. (CHOOSE i \in hits : \A j \in hits : i <= j) = 1
    BY <2>1
  <2>4. hits # {}
    BY <2>1
  <2> QED
    BY <1>5, <2>1, <2>2, <2>3, <2>4
<1> QED
  BY <1>1, <1>6, <1>7 DEF Booted

\* BootHosts holds every name of a server, and with a group the one of the probe.
LEMMA BootHostsHold ==
  ASSUME NEW nodes, NEW u, NEW name,
         name \in (HostsOf(nodes) \cup (IF Len(nodes) > 1 THEN {WithDefaultURLTest(u).url} ELSE {}))
                    \ (IPv4 \cup IPv6 \cup {"bad"})
  PROVE  name \in BootHosts(nodes, WithDefaultURLTest(u))
<1> DEFINE url == WithDefaultURLTest(u).url
<1>1. \A n : "" \notin NodeHosts(n)
  BY DEF NodeHosts
<1>2. "" \notin HostsOf(nodes)
  BY <1>1 DEF HostsOf
<1>3. url = OrDefault(u.url, "", "gstatic.example")
  BY DEF WithDefaultURLTest
<1>4. url # ""
  BY <1>3 DEF OrDefault
<1> HIDE DEF url
<1>5. CASE name \in HostsOf(nodes)
  BY <1>2, <1>5 DEF BootHosts
<1>6. CASE Len(nodes) > 1 /\ name = url
  <2>1. ProbeHost(url) = url
    BY <1>6 DEF ProbeHost, Literal, url
  <2> QED
    BY <1>4, <1>6, <2>1 DEF BootHosts, url
<1> QED
  BY <1>5, <1>6 DEF url

-----------------------------------------------------------------------------
(* What the generators make. *)

\* The outbounds that are not servers.
ProxyExtra(profiles, o) ==
  Groups(ServerTags(Len(profiles)), WithDefaultURLTest(o.urltest)) \o <<Direct(o.iface)>>
    \o FirewallOutbounds(FirewallRouteRules(o.firewall))
TunnelExtra(profiles, o) ==
  Groups(ServerTags(Len(profiles)), WithDefaultURLTest(o.urltest)) \o <<Direct("")>>

DNSOf(boot) == [servers |-> DNSServers(boot), rules |-> DNSRules(boot), final |-> "proxy-dns"]

\* The parts of the three configurations that the properties speak of.
\* A configuration of these servers and outbounds.
MadeOf(c, nodes, extra) == \E in : c = Config(in, nodes, extra, c.dns, c.route)

LEMMA ConfigIs ==
  ASSUME NEW in, NEW nodes, NEW extra, NEW dns, NEW route
  PROVE  LET c == Config(in, nodes, extra, dns, route)
         IN  c.dns = dns /\ c.route = route
BY DEF Config

LEMMA ProxyIs ==
  ASSUME NEW profiles, profiles # <<>>, NEW o, NEW c, c = GenerateProxyConfigOpts(profiles, o)
  PROVE  /\ MadeOf(c, Rendered(profiles, o.iface), ProxyExtra(profiles, o))
         /\ c.dns = DNSOf(BootHosts(Rendered(profiles, o.iface), WithDefaultURLTest(o.urltest)))
         /\ c.route.final = "proxy" /\ c.route.resolver = "local"
         /\ c.route.rules = ProxyRules(FirewallRouteRules(o.firewall))
<1> DEFINE in == {[tag |-> "socks-in", port |-> WithDefaultPorts(o.ports).socks],
                  [tag |-> "http-in", port |-> WithDefaultPorts(o.ports).http]}
           dns == DNSOf(BootHosts(Rendered(profiles, o.iface), WithDefaultURLTest(o.urltest)))
           rules == ProxyRules(FirewallRouteRules(o.firewall))
           route == [rules |-> rules, final |-> "proxy", resolver |-> "local",
                     iface |-> o.iface, detect |-> FALSE]
<1>1. c = Config(in, Rendered(profiles, o.iface), ProxyExtra(profiles, o), dns, route)
  BY Zenon DEF GenerateProxyConfigOpts, ProxyExtra, DNSOf
<1> HIDE DEF in, dns, rules
<1>2. route.final = "proxy" /\ route.resolver = "local" /\ route.rules = rules
  OBVIOUS
<1> HIDE DEF route
<1>3. c.dns = dns /\ c.route = route
  BY <1>1, ConfigIs
<1>4. MadeOf(c, Rendered(profiles, o.iface), ProxyExtra(profiles, o))
  BY <1>1, <1>3, Zenon DEF MadeOf
<1> QED
  BY <1>2, <1>3, <1>4, Zenon DEF dns, rules

LEMMA TunnelIs ==
  ASSUME NEW profiles, NEW o, NEW c, c = GenerateTunnelConfigSet(profiles, o), c # NoConfig
  PROVE  /\ MadeOf(c, Rendered(profiles, ""), TunnelExtra(profiles, o))
         /\ c.dns = DNSOf(BootHosts(Rendered(profiles, ""), WithDefaultURLTest(o.urltest)))
         /\ c.route.final = "proxy" /\ c.route.resolver = "local"
         /\ c.route.rules = <<Sniff3s, Hijack, Private>> \o LoopGuards(Rendered(profiles, ""))
<1> DEFINE nodes == Rendered(profiles, "")
           in == {[tag |-> "tun-in", port |-> 0]}
           dns == DNSOf(BootHosts(nodes, WithDefaultURLTest(o.urltest)))
           rules == <<Sniff3s, Hijack, Private>> \o LoopGuards(nodes)
           route == [rules |-> rules, final |-> "proxy", resolver |-> "local",
                     iface |-> "", detect |-> TRUE]
           made == Config(in, nodes, TunnelExtra(profiles, o), dns, route)
<1>1. c = NoConfig \/ c = made
  BY Zenon DEF GenerateTunnelConfigSet, TunnelExtra, DNSOf
<1> HIDE DEF nodes, made, in, dns, rules
<1>3. route.final = "proxy" /\ route.resolver = "local" /\ route.rules = rules
  OBVIOUS
<1> HIDE DEF route
<1>4. c = made
  BY <1>1
<1>5. c = Config(in, nodes, TunnelExtra(profiles, o), dns, route)
  BY <1>4, Zenon DEF made
<1>6. c.dns = dns /\ c.route = route
  BY <1>5, ConfigIs
<1>7. MadeOf(c, nodes, TunnelExtra(profiles, o))
  BY <1>5, <1>6, Zenon DEF MadeOf
<1> QED
  BY <1>3, <1>6, <1>7, Zenon DEF nodes, dns, rules

ForwarderExtra(port) == <<[type |-> "socks", tag |-> "socks-out", port |-> port], Direct("")>>
ForwarderDNS ==
  [servers |-> <<DNSServer("fwd-dns", "https", "socks-out")>>, rules |-> <<>>, final |-> "fwd-dns"]

LEMMA ForwarderIs ==
  ASSUME NEW profiles, profiles # <<>>, NEW ports,
         NEW c, c = GenerateForwarderConfigSet(profiles, ports)
  PROVE  /\ \E in, port : c = Config(in, <<>>, ForwarderExtra(port), c.dns, c.route)
         /\ c.dns = ForwarderDNS
         /\ c.route.final = "socks-out" /\ c.route.resolver = ""
         /\ c.route.rules = <<Sniff3s, Hijack, Private>> \o LoopGuards(Rendered(profiles, ""))
<1> DEFINE in == {[tag |-> "tun-in", port |-> 0]}
           port == WithDefaultPorts(ports).socks
           rules == <<Sniff3s, Hijack, Private>> \o LoopGuards(Rendered(profiles, ""))
           route == [rules |-> rules, final |-> "socks-out", resolver |-> "",
                     iface |-> "", detect |-> TRUE]
<1>1. c = Config(in, <<>>, ForwarderExtra(port), ForwarderDNS, route)
  BY Zenon DEF GenerateForwarderConfigSet, ForwarderExtra, ForwarderDNS
<1> HIDE DEF in, port, rules
<1>2. route.final = "socks-out" /\ route.resolver = "" /\ route.rules = rules
  OBVIOUS
<1> HIDE DEF route
<1>3. c.dns = ForwarderDNS /\ c.route = route
  BY <1>1, ConfigIs
<1>4. \E x, y : c = Config(x, <<>>, ForwarderExtra(y), c.dns, c.route)
  BY <1>1, <1>3, Zenon
<1> QED
  BY <1>2, <1>3, <1>4, Zenon DEF rules

\* The two groups of several servers.
AutoGroup(tags, u) == [type |-> "urltest", tag |-> "auto", members |-> ToSet(tags), test |-> u]
ProxyGroup(tags) ==
  [type |-> "selector", tag |-> "proxy", members |-> {"auto"} \cup ToSet(tags), default |-> "auto"]
GroupSet(tags, u) == IF Len(tags) = 1 THEN {} ELSE {AutoGroup(tags, u), ProxyGroup(tags)}
Block == [type |-> "block", tag |-> "block"]

\* What the outbounds that are not servers are, and that no two have the same tag.
LEMMA ExtraOf ==
  ASSUME NEW tags, NEW u, NEW iface
  PROVE  LET a == Groups(tags, u) \o <<Direct(iface)>>
             S == GroupSet(tags, u) \cup {Direct(iface)}
         IN  /\ a \in Seq(S) /\ ToSet(a) = S /\ Unique(a)
             /\ TagSet(a) \subseteq {"auto", "proxy", "direct"}
<1> DEFINE g == Groups(tags, u)
           d == <<Direct(iface)>>
           a == g \o d
           G == GroupSet(tags, u)
           S == G \cup {Direct(iface)}
<1>1. Direct(iface).tag = "direct"
      /\ AutoGroup(tags, u).tag = "auto" /\ ProxyGroup(tags).tag = "proxy"
  BY DEF Direct, AutoGroup, ProxyGroup
<1>2. g \in Seq(G) /\ ToSet(g) = G /\ Unique(g)
  <2>1. CASE Len(tags) = 1
    <3>1. g = <<>> /\ G = {}
      BY <2>1 DEF Groups, GroupSet
    <3> QED
      BY <3>1 DEF ToSet, Unique
  <2>2. CASE Len(tags) # 1
    <3>1. g = <<AutoGroup(tags, u), ProxyGroup(tags)>> /\ G = {AutoGroup(tags, u), ProxyGroup(tags)}
      BY <2>2, Zenon DEF Groups, GroupSet, AutoGroup, ProxyGroup
    <3> QED
      BY <1>1, <3>1 DEF ToSet, Unique
  <2> QED
    BY <2>1, <2>2
<1>3. d \in Seq(S) /\ ToSet(d) = {Direct(iface)} /\ Unique(d)
  BY DEF ToSet, Unique
<1>4. TagSet(g) \subseteq {"auto", "proxy"}
  BY <1>1, <1>2 DEF TagSet, GroupSet
<1>5. TagSet(d) = {"direct"}
  BY <1>1, <1>3 DEF TagSet
<1> HIDE DEF g, d, G
<1>6. g \in Seq(S)
  BY <1>2
<1> HIDE DEF S
<1>7. TagSet(g) \cap TagSet(d) = {}
  BY <1>4, <1>5
<1>8. a \in Seq(S) /\ ToSet(a) = ToSet(g) \cup ToSet(d) /\ Unique(a)
  BY <1>2, <1>3, <1>6, <1>7, JoinOf
<1> HIDE DEF a
<1>9. ToSet(a) = S /\ TagSet(a) \subseteq {"auto", "proxy", "direct"}
  <2>1. ToSet(a) = S
    BY <1>2, <1>3, <1>8 DEF S
  <2>2. TagSet(a) = TagSet(g) \cup TagSet(d)
    BY <1>8 DEF TagSet
  <2> QED
    BY <1>4, <1>5, <2>1, <2>2
<1> QED
  BY <1>8, <1>9 DEF a, S, G, g, d

\* The block outbound is there if and only if a route rule refers to it.
BlockSet(r) == IF \E i \in DOMAIN r : r[i].outbound = "block" THEN {Block} ELSE {}

LEMMA BlockOf ==
  ASSUME NEW S, NEW a \in Seq(S), ToSet(a) = S, Unique(a), "block" \notin TagSet(a), NEW r
  PROVE  LET b == a \o FirewallOutbounds(r)
         IN  b \in Seq(S \cup BlockSet(r)) /\ ToSet(b) = S \cup BlockSet(r) /\ Unique(b)
<1> DEFINE f == FirewallOutbounds(r)
           F == BlockSet(r)
           T == S \cup F
<1>1. f \in Seq(F) /\ ToSet(f) = F /\ Unique(f)
  <2>1. CASE \E i \in DOMAIN r : r[i].outbound = "block"
    <3>1. f = <<Block>> /\ F = {Block}
      BY <2>1, Zenon DEF FirewallOutbounds, Block, BlockSet
    <3> HIDE DEF f, F
    <3> QED
      BY <3>1 DEF ToSet, Unique
  <2>2. CASE ~\E i \in DOMAIN r : r[i].outbound = "block"
    <3>1. f = <<>> /\ F = {}
      BY <2>2, Zenon DEF FirewallOutbounds, BlockSet
    <3> HIDE DEF f, F
    <3> QED
      BY <3>1 DEF ToSet, Unique
  <2> QED
    BY <2>1, <2>2
<1>2. TagSet(f) \subseteq {"block"}
  BY <1>1 DEF TagSet, BlockSet, Block
<1> HIDE DEF f, F
<1>3. f \in Seq(T) /\ a \in Seq(T)
  BY <1>1
<1> HIDE DEF T
<1>4. TagSet(a) \cap TagSet(f) = {}
  BY <1>2
<1>5. a \o f \in Seq(T) /\ ToSet(a \o f) = ToSet(a) \cup ToSet(f) /\ Unique(a \o f)
  BY <1>1, <1>3, <1>4, JoinOf
<1>6. ToSet(a \o f) = T
  BY <1>1, <1>5 DEF T
<1> QED
  BY <1>5, <1>6 DEF T, F, f

LEMMA ProxyExtraOf ==
  ASSUME NEW profiles, NEW o
  PROVE  LET e == ProxyExtra(profiles, o)
             S == GroupSet(ServerTags(Len(profiles)), WithDefaultURLTest(o.urltest))
                    \cup {Direct(o.iface)} \cup BlockSet(FirewallRouteRules(o.firewall))
         IN  e \in Seq(S) /\ ToSet(e) = S /\ Unique(e)
<1> DEFINE tags == ServerTags(Len(profiles))
           u == WithDefaultURLTest(o.urltest)
           r == FirewallRouteRules(o.firewall)
           a == Groups(tags, u) \o <<Direct(o.iface)>>
           A == GroupSet(tags, u) \cup {Direct(o.iface)}
<1>1. ProxyExtra(profiles, o) = a \o FirewallOutbounds(r)
  BY Zenon DEF ProxyExtra
<1>2. a \in Seq(A) /\ ToSet(a) = A /\ Unique(a) /\ "block" \notin TagSet(a)
  <2>1. a \in Seq(A) /\ ToSet(a) = A /\ Unique(a) /\ TagSet(a) \subseteq {"auto", "proxy", "direct"}
    BY ExtraOf
  <2> HIDE DEF a, A
  <2> QED
    BY <2>1
<1> HIDE DEF a, A, r
<1>3. LET b == a \o FirewallOutbounds(r)
      IN  b \in Seq(A \cup BlockSet(r)) /\ ToSet(b) = A \cup BlockSet(r) /\ Unique(b)
  BY <1>2, BlockOf
<1> QED
  BY <1>1, <1>3 DEF A, r

-----------------------------------------------------------------------------
(* No server is reached only through itself. *)

\* The nodes of some profiles are a sequence.
LEMMA RenderedSeq ==
  ASSUME NEW profiles, profiles \in Seq(ToSet(profiles)), profiles # <<>>, NEW iface
  PROVE  LET nodes == Rendered(profiles, iface)
         IN  /\ nodes \in Seq(ToSet(nodes))
             /\ Len(nodes) = Len(profiles) /\ Len(profiles) \in Nat \ {0}
             /\ DOMAIN profiles = 1..Len(profiles)
<1> DEFINE nodes == Rendered(profiles, iface)
           n == Len(profiles)
<1>1. n \in Nat /\ DOMAIN profiles = 1..n /\ n # 0
  BY EmptySeq
<1>2. nodes = [i \in DOMAIN profiles |->
                 RenderNode(profiles[i], RenderOpts(ServerTags(Len(profiles))[i], iface))]
  BY Zenon DEF Rendered
<1> HIDE DEF n
<1>3. nodes \in [1..n -> ToSet(nodes)]
  BY <1>1, <1>2 DEF ToSet
<1> HIDE DEF nodes
<1>4. nodes \in Seq(ToSet(nodes)) /\ Len(nodes) = n
  BY <1>1, <1>3
<1> QED
  BY <1>1, <1>4 DEF n, nodes

\* The names of the servers and of the probe are resolved past the proxy.
LEMMA NamesBooted ==
  ASSUME NEW profiles, profiles \in Seq(ToSet(profiles)), profiles # <<>>, NEW u, NEW c,
         NEW iface, c.dns = DNSOf(BootHosts(Rendered(profiles, iface), WithDefaultURLTest(u))),
         c.route.resolver = "local",
         NEW name \in BootNames(profiles, u)
  PROVE  Booted(c, name)
<1> DEFINE s == Rendered(profiles, iface)
           t == Rendered(profiles, "")
           boot == BootHosts(s, WithDefaultURLTest(u))
<1>1. HostsOf(s) = HostsOf(t)
  BY RenderedHosts
<1>2. Len(s) = Len(profiles) /\ Len(t) = Len(profiles)
  BY RenderedSeq
<1>3. c.dns = DNSOf(boot)
  OBVIOUS
<1>0. name \in (HostsOf(t) \cup (IF Len(t) > 1 THEN {WithDefaultURLTest(u).url} ELSE {}))
                 \ (IPv4 \cup IPv6 \cup {"bad"})
  BY DEF BootNames
<1> HIDE DEF s, t
<1>4. name \in (HostsOf(s) \cup (IF Len(s) > 1 THEN {WithDefaultURLTest(u).url} ELSE {}))
                 \ (IPv4 \cup IPv6 \cup {"bad"})
  BY <1>0, <1>1, <1>2
<1>5. name \in boot
  BY <1>4, BootHostsHold
<1> HIDE DEF boot
<1>6. c.dns = [servers |-> DNSServers(boot), rules |-> DNSRules(boot), final |-> "proxy-dns"]
  BY <1>3 DEF DNSOf
<1> QED
  BY <1>5, <1>6, BootAnswers

LEMMA AllBound ==
  ASSUME NEW profiles, profiles \in Seq(ToSet(profiles)), profiles # <<>>, NEW o,
         NEW c, c = GenerateProxyConfigOpts(profiles, o),
         NEW n \in ToSet(c.outbounds) \cup ToSet(c.endpoints),
         n.type \notin {"urltest", "selector", "block"}
  PROVE  n.bind = o.iface
<1> DEFINE nodes == Rendered(profiles, o.iface)
           extra == ProxyExtra(profiles, o)
           tags == ServerTags(Len(profiles))
           u == WithDefaultURLTest(o.urltest)
           r == FirewallRouteRules(o.firewall)
           S == ToSet(nodes) \cup ToSet(extra)
<1>1. nodes \in Seq(ToSet(nodes))
  BY RenderedSeq
<1>2. /\ extra \in Seq(ToSet(extra))
      /\ ToSet(extra) = GroupSet(tags, u) \cup {Direct(o.iface)} \cup BlockSet(r)
  <2> DEFINE X == GroupSet(tags, u) \cup {Direct(o.iface)} \cup BlockSet(r)
  <2>1. extra \in Seq(X) /\ ToSet(extra) = X
    BY ProxyExtraOf
  <2> HIDE DEF extra, X
  <2>2. extra \in Seq(ToSet(extra)) /\ ToSet(extra) = X
    BY <2>1
  <2> QED
    BY <2>2 DEF X
<1>3. \A x \in ToSet(nodes) : x.bind = o.iface
  BY RenderedIs DEF ToSet
<1>4. MadeOf(c, nodes, extra)
  BY ProxyIs
<1> HIDE DEF nodes, extra, r
<1>5. nodes \in Seq(S) /\ extra \in Seq(S)
  BY <1>1, <1>2
<1>6. ToSet(c.outbounds) \cup ToSet(c.endpoints) = ToSet(nodes) \cup ToSet(extra)
  <2>1. PICK in : c = Config(in, nodes, extra, c.dns, c.route)
    BY <1>4 DEF MadeOf
  <2> QED
    BY <1>5, <2>1, Placed
<1>7. CASE n \in ToSet(nodes)
  BY <1>3, <1>7
<1>8. CASE n \in GroupSet(tags, u)
  BY <1>8 DEF GroupSet, AutoGroup, ProxyGroup
<1>9. CASE n = Direct(o.iface)
  BY <1>9 DEF Direct
<1>10. CASE n = Block
  BY <1>10 DEF Block
<1> HIDE DEF tags, u
<1> QED
  BY <1>2, <1>6, <1>7, <1>8, <1>9, <1>10 DEF BlockSet

\* Whatever the servers, the options and the interface: the names of the servers are
\* answered by the bootstrap server and never asked for through the proxy, the TUN leaves traffic to their addresses alone,
\* and what the proxy dials is bound to the interface it was built for.
THEOREM ServersAreReached == ImportSpec => []NoBootstrapLoop
<1>1. ImportInit => ListInv
  BY ListInit
<1>2. ListInv /\ [ImportNext]_ivars => ListInv'
  BY ListStep
<1>3. ListInv => NoBootstrapLoop
  <2> SUFFICES ASSUME ListInv, stage = "built" PROVE NoBootstrapLoop
    BY DEF NoBootstrapLoop
  <2> DEFINE ps == built.profiles
             o == built.opts
             t == Rendered(ps, "")
             u == o.urltest
             names == BootNames(ps, u)
             proxy == built.proxy
             fwd == built.forwarder
             tun == built.tunnel
  <2>1. /\ ps # <<>> /\ ps \in Seq(ToSet(ps)) /\ proxy = GenerateProxyConfigOpts(ps, o)
        /\ fwd = GenerateForwarderConfigSet(ps, o.ports) /\ tun = GenerateTunnelConfigSet(ps, o)
    BY DEF ListInv
  <2> HIDE DEF ps, o, proxy, fwd, tun
  <2>2. ASSUME NEW name \in names
        PROVE  Booted(proxy, name)
    <3>1. /\ proxy.dns = DNSOf(BootHosts(Rendered(ps, o.iface), WithDefaultURLTest(u)))
          /\ proxy.route.resolver = "local"
      BY <2>1, ProxyIs
    <3> HIDE DEF u
    <3> QED
      BY <2>1, <2>2, <3>1, NamesBooted
  <2>3. ASSUME NEW name \in names, tun # NoConfig
        PROVE  Booted(tun, name)
    <3>1. /\ tun.dns = DNSOf(BootHosts(t, WithDefaultURLTest(u))) /\ tun.route.resolver = "local"
      BY <2>1, <2>3, TunnelIs
    <3> HIDE DEF u
    <3> QED
      BY <2>1, <2>3, <3>1, NamesBooted
  <2>4. ASSUME NEW h \in HostsOf(t), Literal(h)
        PROVE  RouteOf(fwd, [host |-> h, process |-> ""]) = "direct"
    <3>1. fwd.route.rules = <<Sniff3s, Hijack, Private>> \o LoopGuards(t)
      BY <2>1, ForwarderIs
    <3> QED
      BY <2>4, <3>1, GuardTakes
  <2>5. ASSUME NEW h \in HostsOf(t), Literal(h), tun # NoConfig
        PROVE  RouteOf(tun, [host |-> h, process |-> ""]) = "direct"
    <3>1. tun.route.rules = <<Sniff3s, Hijack, Private>> \o LoopGuards(t)
      BY <2>1, <2>5, TunnelIs
    <3> QED
      BY <2>5, <3>1, GuardTakes
  <2>6. ASSUME NEW n \in ToSet(proxy.outbounds) \cup ToSet(proxy.endpoints),
               n.type \notin {"urltest", "selector", "block"}
        PROVE  n.bind = o.iface
    BY <2>1, <2>6, AllBound
  <2>7. /\ \A c \in {proxy, tun} : c.ok =>
             \A name \in names : Booted(c, name)
        /\ \A c \in {fwd, tun} : c.ok =>
             \A h \in HostsOf(t) : Literal(h) => RouteOf(c, [host |-> h, process |-> ""]) = "direct"
    <3>1. ~NoConfig.ok
      BY DEF NoConfig
    <3> QED
      BY <2>2, <2>3, <2>4, <2>5, <3>1
  <2> QED
    BY <2>6, <2>7, Zenon DEF NoBootstrapLoop, Booted, ps, o, proxy, fwd, tun
<1> QED
  BY <1>1, <1>2, <1>3, PTL DEF ImportSpec

-----------------------------------------------------------------------------
(* What the firewall decides. *)

\* What is neither private nor the address of a server passes all rules of the forwarder.
LEMMA Relayed ==
  ASSUME NEW nodes, NEW c, NEW conn,
         conn.host \notin Private10 \cup (HostsOf(nodes) \cap (IPv4 \cup IPv6)),
         c.route.rules = <<Sniff3s, Hijack, Private>> \o LoopGuards(nodes)
  PROVE  RouteOf(c, conn) = c.route.final
<1> DEFINE H == HostsOf(nodes) \cap (IPv4 \cup IPv6)
           R == {LoopGuard(x) : x \in H}
           G == SetToSeq(R)
           a == <<Sniff3s, Hijack, Private>>
           RR == R \cup {Sniff3s, Hijack, Private}
           P == a \o G
           hits == {h \in DOMAIN P : Matches(P[h], conn)}
<1>1. c.route.rules = P /\ IsFiniteSet(R)
  BY GuardsOf
<1>2. a \in Seq(RR)
  OBVIOUS
<1>3. \A r \in R : ~Matches(r, conn)
  <2> SUFFICES ASSUME NEW x \in H PROVE ~Matches(LoopGuard(x), conn)
    OBVIOUS
  <2>1. LoopGuard(x).match = "cidr" /\ LoopGuard(x).value = {x}
    BY DEF LoopGuard, Rule
  <2>2. conn.host # x
    OBVIOUS
  <2> QED
    BY <2>1, <2>2 DEF Matches
<1>4. ~Matches(Sniff3s, conn) /\ ~Matches(Hijack, conn) /\ ~Matches(Private, conn)
  <2>1. Sniff3s.match = "sniff" /\ Hijack.match = "dns" /\ Private.match = "private"
    BY DEF Sniff3s, Hijack, Private, Rule
  <2> QED
    BY <2>1 DEF Matches
<1> HIDE DEF R, a
<1>5. G \in Seq(R)
  BY <1>1, SetToSeqOf
<1> HIDE DEF G
<1>6. G \in Seq(RR) /\ \A r \in RR : ~Matches(r, conn)
  BY <1>3, <1>4, <1>5
<1> HIDE DEF RR
<1>7. P \in Seq(RR)
  BY <1>2, <1>6, ConcatProperties
<1> HIDE DEF P
<1>8. hits = {}
  BY <1>6, <1>7
<1>9. RouteOf(c, conn) = FirstOf(P, c.route.final, conn)
  <2>1. RouteOf(c, conn) = FirstOf(c.route.rules, c.route.final, conn)
    BY Zenon DEF RouteOf, FirstOf
  <2> QED
    BY <1>1, <2>1
<1>10. FirstOf(P, c.route.final, conn) =
         (IF hits = {} THEN c.route.final
          ELSE P[CHOOSE h \in hits : \A g \in hits : h <= g].outbound)
  BY Zenon DEF FirstOf
<1> HIDE DEF hits
<1> QED
  BY <1>8, <1>9, <1>10

\* Whatever rules the user has, the first that names a connection decides it, before
\* the direct routes of private addresses and Russian domains; and so it does for what
\* the TUN captures, if it is neither private nor the address of a server.
THEOREM FirewallDecides == ImportSpec => []FirewallWins
<1>1. ImportInit => ListInv
  BY ListInit
<1>2. ListInv /\ [ImportNext]_ivars => ListInv'
  BY ListStep
<1>3. ListInv => FirewallWins
  <2> DEFINE rules == built.opts.firewall
             nodes == Rendered(built.profiles, "")
             guarded == HostsOf(nodes) \cap (IPv4 \cup IPv6)
  <2> SUFFICES ASSUME ListInv, stage = "built", NEW i \in DOMAIN rules
               PROVE  /\ Decides(rules, i, ConnOf(rules[i], "other")) =>
                           RouteOf(built.proxy, ConnOf(rules[i], "other")) = Decision(rules[i])
                      /\ /\ rules[i].process = ""
                         /\ ConnOf(rules[i], "singctl").host \notin Private10 \cup guarded
                         /\ Decides(rules, i, ConnOf(rules[i], "singctl"))
                         => TunRouteOf(ConnOf(rules[i], "other")) = Decision(rules[i])
    BY Zenon DEF FirewallWins
  <2>1. rules \in Seq(FWRules)
    BY ImportsConstantsOK DEF ListInv, FWRules
  <2>2. built.proxy.route.rules = ProxyRules(FirewallRouteRules(rules))
    BY BuiltFirewall DEF ListInv
  <2>3. /\ built.forwarder.route.final = "socks-out"
        /\ built.forwarder.route.rules = <<Sniff3s, Hijack, Private>> \o LoopGuards(nodes)
    <3> DEFINE fwd == built.forwarder
               ps == built.profiles
               ports == built.opts.ports
    <3>1. ps # <<>> /\ fwd = GenerateForwarderConfigSet(ps, ports)
      BY DEF ListInv
    <3> HIDE DEF fwd, ps, ports
    <3>2. /\ fwd.route.final = "socks-out"
          /\ fwd.route.rules = <<Sniff3s, Hijack, Private>> \o LoopGuards(Rendered(ps, ""))
      BY <3>1, ForwarderIs
    <3> QED
      BY <3>2 DEF fwd, ps
  <2> HIDE DEF rules, nodes
  <2>4. ASSUME NEW process, Decides(rules, i, ConnOf(rules[i], process))
        PROVE  RouteOf(built.proxy, ConnOf(rules[i], process)) = Decision(rules[i])
    <3>1. Validate(rules[i]) /\ \A j \in 1..i - 1 : ~NamedBy(rules[j], ConnOf(rules[i], process))
      BY <2>4 DEF Decides
    <3> QED
      BY <2>1, <2>2, <3>1, FirstHit
  <2>5. ASSUME rules[i].process = "", ConnOf(rules[i], "singctl").host \notin Private10 \cup guarded,
               Decides(rules, i, ConnOf(rules[i], "singctl"))
        PROVE  TunRouteOf(ConnOf(rules[i], "other")) = Decision(rules[i])
    <3> DEFINE conn == ConnOf(rules[i], "other")
    <3>1. /\ [conn EXCEPT !.process = "singctl"] = ConnOf(rules[i], "singctl")
          /\ conn.host = ConnOf(rules[i], "singctl").host
      <4> DEFINE h == IF rules[i].domain # "" THEN rules[i].domain ELSE rules[i].cidr
      <4>1. /\ conn = [host |-> h, process |-> "other"]
            /\ ConnOf(rules[i], "singctl") = [host |-> h, process |-> "singctl"]
        BY <2>5, Zenon DEF ConnOf
      <4> HIDE DEF conn, h
      <4> QED
        BY <4>1
    <3> HIDE DEF conn
    <3>2. conn.host \notin Private10 \cup guarded
      BY <2>5, <3>1
    <3>3. RouteOf(built.forwarder, conn) = "socks-out"
      BY <2>3, <3>2, Relayed
    <3>4. RouteOf(built.proxy, ConnOf(rules[i], "singctl")) = Decision(rules[i])
      BY <2>4, <2>5
    <3> QED
      BY <3>1, <3>3, <3>4 DEF TunRouteOf, conn
  <2> QED
    BY <2>4, <2>5
<1> QED
  BY <1>1, <1>2, <1>3, PTL DEF ImportSpec

-----------------------------------------------------------------------------
(* What refers to what. *)

LEMMA UniqueCount ==
  ASSUME NEW S, NEW s \in Seq(S), Unique(s)
  PROVE  Cardinality(TagSet(s)) = Len(s)
<1> DEFINE n == Len(s)
           T == TagSet(s)
           f == [i \in 1..n |-> s[i].tag]
<1>1. n \in Nat /\ DOMAIN s = 1..n
  OBVIOUS
<1> HIDE DEF n
<1>2. IsFiniteSet(1..n) /\ Cardinality(1..n) = n
  BY <1>1, FS_Interval
<1>3. f \in [1..n -> T] /\ \A x \in T : \E i \in 1..n : f[i] = x
  BY <1>1 DEF TagSet, ToSet
<1>4. \A i, j \in 1..n : f[i] = f[j] => i = j
  BY <1>1 DEF Unique
<1> HIDE DEF f, T
<1>5. ExistsBijection(1..n, T)
  BY <1>3, <1>4 DEF ExistsBijection, Bijection, Injection, Surjection, IsInjective
<1>6. Cardinality(T) = n
  BY <1>2, <1>5, FS_Bijection
<1> QED
  BY <1>6 DEF n, T

LEMMA ServerTagsOf ==
  ASSUME TagsDiffer(Nat \ {0}), NEW n \in Nat \ {0}
  PROVE  LET t == ServerTags(n)
         IN  /\ DOMAIN t = 1..n /\ Len(t) = n
             /\ \A i, j \in 1..n : t[i] = t[j] => i = j
             /\ ToSet(t) \cap {"auto", "direct", "block"} = {}
             /\ IF n = 1 THEN ToSet(t) = {"proxy"} ELSE "proxy" \notin ToSet(t)
<1> DEFINE t == ServerTags(n)
<1>1. CASE n = 1
  <2>1. t = <<"proxy">>
    BY <1>1 DEF ServerTags
  <2> HIDE DEF t
  <2>2. DOMAIN t = 1..1 /\ Len(t) = 1 /\ t[1] = "proxy" /\ ToSet(t) = {"proxy"}
    BY <2>1 DEF ToSet
  <2> QED
    BY <1>1, <2>2 DEF t
<1>2. CASE n # 1
  <2>1. t = [i \in 1..n |-> ProxyServerTag(i)]
    BY <1>2 DEF ServerTags
  <2>2. \A i \in 1..n : i \in Nat \ {0}
    OBVIOUS
  <2>3. /\ \A i \in 1..n : ProxyServerTag(i) \notin {"auto", "proxy", "direct", "block"}
        /\ \A i, j \in 1..n : ProxyServerTag(i) = ProxyServerTag(j) => i = j
    BY <2>2 DEF TagsDiffer
  <2> HIDE DEF t
  <2>4. DOMAIN t = 1..n /\ Len(t) = n /\ \A i \in 1..n : t[i] = ProxyServerTag(i)
    BY <2>1
  <2>5. \A x \in ToSet(t) : x \notin {"auto", "proxy", "direct", "block"}
    BY <2>3, <2>4 DEF ToSet
  <2>6. ToSet(t) \cap {"auto", "direct", "block"} = {} /\ "proxy" \notin ToSet(t)
    BY <2>5
  <2> QED
    BY <1>2, <2>3, <2>4, <2>6 DEF t
<1> QED
  BY <1>1, <1>2

\* The tags of the servers are their own.
LEMMA NodesTagged ==
  ASSUME TagsDiffer(Nat \ {0}), NEW profiles, profiles \in Seq(ToSet(profiles)), profiles # <<>>,
         NEW iface
  PROVE  LET nodes == Rendered(profiles, iface)
         IN  /\ nodes \in Seq(ToSet(nodes)) /\ Unique(nodes)
             /\ TagSet(nodes) = ToSet(ServerTags(Len(profiles)))
             /\ \A x \in ToSet(nodes) : x.type \in NodeTypes
<1> DEFINE nodes == Rendered(profiles, iface)
           n == Len(profiles)
           t == ServerTags(n)
<1>1. nodes \in Seq(ToSet(nodes)) /\ n \in Nat \ {0} /\ DOMAIN profiles = 1..n
  BY RenderedSeq
<1>2. DOMAIN nodes = 1..n /\ \A i \in 1..n : nodes[i].tag = t[i] /\ nodes[i].type \in NodeTypes
  <2>1. /\ DOMAIN nodes = DOMAIN profiles
        /\ \A i \in DOMAIN profiles : nodes[i].tag = t[i] /\ nodes[i].type \in NodeTypes
    BY RenderedIs
  <2> HIDE DEF nodes, n, t
  <2> QED
    BY <1>1, <2>1
<1> HIDE DEF nodes, n
<1>3. DOMAIN t = 1..n /\ \A i, j \in 1..n : t[i] = t[j] => i = j
  BY <1>1, ServerTagsOf
<1> HIDE DEF t
<1>4. Unique(nodes)
  BY <1>2, <1>3 DEF Unique
<1>5. TagSet(nodes) = ToSet(t)
  BY <1>2, <1>3 DEF TagSet, ToSet
<1>6. \A x \in ToSet(nodes) : x.type \in NodeTypes
  BY <1>2 DEF ToSet
<1> QED
  BY <1>1, <1>4, <1>5, <1>6 DEF nodes, t, n

\* A configuration that holds these servers and outbounds, each under a tag of its own.
ToldApart(c, nodes, extra) ==
  /\ Tags(c) = TagSet(nodes) \cup TagSet(extra)
  /\ ToSet(c.outbounds \o c.endpoints) = ToSet(nodes) \cup ToSet(extra)
  /\ Cardinality(Tags(c)) = Len(c.outbounds \o c.endpoints)

\* A configuration whose own outbounds and servers are told apart has no tag twice.
LEMMA TagsOnce ==
  ASSUME NEW S, NEW nodes \in Seq(S), NEW extra \in Seq(S), ToSet(nodes) \cup ToSet(extra) = S,
         Unique(nodes), Unique(extra), TagSet(nodes) \cap TagSet(extra) = {},
         NEW in, NEW dns, NEW route
  PROVE  ToldApart(Config(in, nodes, extra, dns, route), nodes, extra)
<1> DEFINE c == Config(in, nodes, extra, dns, route)
           a == c.outbounds
           b == c.endpoints
<1>1. /\ a \in Seq(S) /\ b \in Seq(S) /\ ToSet(a) \cup ToSet(b) = S /\ Unique(a \o b)
  BY Placed
<1> HIDE DEF c
<1>2. Tags(c) = {x.tag : x \in S}
  BY <1>1 DEF Tags
<1>3. {x.tag : x \in S} = TagSet(nodes) \cup TagSet(extra)
  BY DEF TagSet
<1> HIDE DEF a, b
<1>4. a \o b \in Seq(S) /\ ToSet(a \o b) = ToSet(a) \cup ToSet(b)
  BY <1>1, JoinOf
<1>5. ToSet(a \o b) = S
  BY <1>1, <1>4
<1>6. TagSet(a \o b) = {x.tag : x \in S}
  BY <1>5 DEF TagSet
<1>7. Cardinality(TagSet(a \o b)) = Len(a \o b)
  BY <1>1, <1>4, UniqueCount
<1> QED
  BY <1>2, <1>3, <1>5, <1>6, <1>7 DEF a, b, c, ToldApart

\* The groups refer to other outbounds than themselves, and to all of the servers.
GroupsClosed(c) ==
  LET nodes == c.outbounds \o c.endpoints IN
  \A i \in DOMAIN nodes : nodes[i].type \in {"urltest", "selector"} =>
    nodes[i].members \subseteq Tags(c) \ {nodes[i].tag}

\* A proxy or a tunnel: every server has a tag of its own, the groups are over them,
\* and "proxy" is the one server or the group.
OverServers(c, B) ==
  /\ Cardinality(Tags(c)) = Len(c.outbounds \o c.endpoints)
  /\ GroupsClosed(c)
  /\ {"proxy", "direct"} \subseteq Tags(c)
  /\ B # {} => "block" \in Tags(c)

LEMMA GroupsOverServers ==
  ASSUME TagsDiffer(Nat \ {0}), NEW profiles, profiles \in Seq(ToSet(profiles)), profiles # <<>>,
         NEW iface, NEW u, NEW extra, NEW B, B \subseteq {Block},
         extra \in Seq(ToSet(extra)), Unique(extra),
         ToSet(extra) = GroupSet(ServerTags(Len(profiles)), u) \cup {Direct(iface)} \cup B,
         NEW in, NEW dns, NEW route
  PROVE  OverServers(Config(in, Rendered(profiles, iface), extra, dns, route), B)
<1> DEFINE nodes == Rendered(profiles, iface)
           c == Config(in, nodes, extra, dns, route)
           n == Len(profiles)
           t == ServerTags(n)
           G == GroupSet(t, u)
<1>0. n \in Nat \ {0}
  BY RenderedSeq
<1>1. /\ nodes \in Seq(ToSet(nodes)) /\ Unique(nodes) /\ TagSet(nodes) = ToSet(t)
      /\ \A x \in ToSet(nodes) : x.type \in NodeTypes
  BY NodesTagged
<1>2. /\ Len(t) = n /\ ToSet(t) \cap {"auto", "direct", "block"} = {}
      /\ IF n = 1 THEN ToSet(t) = {"proxy"} ELSE "proxy" \notin ToSet(t)
  BY <1>0, ServerTagsOf
<1>3. ToSet(extra) = G \cup {Direct(iface)} \cup B
  OBVIOUS
<1> HIDE DEF nodes, n, t, G
<1>4. G = IF n = 1 THEN {} ELSE {AutoGroup(t, u), ProxyGroup(t)}
  BY <1>2 DEF G, GroupSet
<1>5. /\ Direct(iface).tag = "direct" /\ Block.tag = "block"
      /\ AutoGroup(t, u).tag = "auto" /\ ProxyGroup(t).tag = "proxy"
  BY DEF Direct, Block, AutoGroup, ProxyGroup
<1>6. TagSet(extra) = (IF n = 1 THEN {} ELSE {"auto", "proxy"}) \cup {"direct"}
                        \cup (IF B = {} THEN {} ELSE {"block"})
  <2>1. CASE n = 1
    <3>1. ToSet(extra) = {Direct(iface)} \cup B
      BY <1>3, <1>4, <2>1
    <3> QED
      BY <1>5, <2>1, <3>1 DEF TagSet
  <2>2. CASE n # 1
    <3>1. ToSet(extra) = {AutoGroup(t, u), ProxyGroup(t)} \cup {Direct(iface)} \cup B
      BY <1>3, <1>4, <2>2
    <3> QED
      BY <1>5, <2>2, <3>1 DEF TagSet
  <2> QED
    BY <2>1, <2>2
<1>7. TagSet(nodes) \cap TagSet(extra) = {}
  BY <1>1, <1>2, <1>6
<1>8. /\ Tags(c) = TagSet(nodes) \cup TagSet(extra)
      /\ ToSet(c.outbounds \o c.endpoints) = ToSet(nodes) \cup ToSet(extra)
      /\ Cardinality(Tags(c)) = Len(c.outbounds \o c.endpoints)
  <2> DEFINE S == ToSet(nodes) \cup ToSet(extra)
  <2>1. nodes \in Seq(S) /\ extra \in Seq(S) /\ ToSet(nodes) \cup ToSet(extra) = S
    BY <1>1
  <2> HIDE DEF S
  <2>2. ToldApart(Config(in, nodes, extra, dns, route), nodes, extra)
    BY <1>1, <1>7, <2>1, TagsOnce, Zenon
  <2>3. ToldApart(c, nodes, extra)
    BY <2>2
  <2> HIDE DEF c
  <2> QED
    BY <2>3 DEF ToldApart
<1> HIDE DEF c
<1>9. ASSUME NEW x \in ToSet(c.outbounds \o c.endpoints), x.type \in {"urltest", "selector"}
      PROVE  x.members \subseteq Tags(c) \ {x.tag}
  <2>1. x \notin ToSet(nodes)
    BY <1>1, <1>9 DEF NodeTypes
  <2>2. x # Direct(iface) /\ x \notin B
    BY <1>9 DEF Direct, Block
  <2>3. n # 1 /\ x \in {AutoGroup(t, u), ProxyGroup(t)}
    BY <1>3, <1>4, <1>8, <1>9, <2>1, <2>2
  <2>4. CASE x = AutoGroup(t, u)
    <3>1. x.members = ToSet(t) /\ x.tag = "auto"
      BY <2>4 DEF AutoGroup
    <3> QED
      BY <1>1, <1>2, <1>8, <3>1
  <2>5. CASE x = ProxyGroup(t)
    <3>1. x.members = {"auto"} \cup ToSet(t) /\ x.tag = "proxy"
      BY <2>5 DEF ProxyGroup
    <3> QED
      BY <1>1, <1>2, <1>6, <1>8, <2>3, <3>1
  <2> QED
    BY <2>3, <2>4, <2>5
<1>10. GroupsClosed(c)
  <2> DEFINE all == c.outbounds \o c.endpoints
  <2>1. \A i \in DOMAIN all : all[i] \in ToSet(all)
    BY DEF ToSet
  <2>2. \A x \in ToSet(all) : x.type \in {"urltest", "selector"} => x.members \subseteq Tags(c) \ {x.tag}
    BY <1>9
  <2> HIDE DEF all
  <2>3. \A i \in DOMAIN all : all[i].type \in {"urltest", "selector"} =>
          all[i].members \subseteq Tags(c) \ {all[i].tag}
    BY <2>1, <2>2
  <2> QED
    BY <2>3, Zenon DEF GroupsClosed, all
<1>11. {"proxy", "direct"} \subseteq Tags(c) /\ (B # {} => "block" \in Tags(c))
  BY <1>1, <1>2, <1>6, <1>8
<1> QED
  BY <1>8, <1>10, <1>11 DEF c, nodes, OverServers

\* The DNS part of a configuration: no server named twice, and those the rules, the
\* default and the dialers ask are there.
DNSClosed(c) ==
  LET servers == {s.tag : s \in ServersOf(c)} IN
  /\ Cardinality(servers) = Len(c.dns.servers)
  /\ {c.dns.final} \cup {r.server : r \in ToSet(c.dns.rules)} \subseteq servers
  /\ c.route.resolver \in servers \cup {""}

LEMMA BootDNSClosed ==
  ASSUME NEW boot, NEW c, c.dns = DNSOf(boot), c.route.resolver = "local"
  PROVE  DNSClosed(c) /\ \A s \in ServersOf(c) : s.detour \in {"proxy", ""}
<1> DEFINE p == DNSServer("proxy-dns", "https", "proxy")
           l == DNSServer("local", "local", "")
           b == DNSServer("boot-dns", "https", "")
           B == IF boot = {} THEN <<>> ELSE <<b>>
           S == {p, l, b}
           a == <<p, l>>
           s == a \o B
<1>1. p.tag = "proxy-dns" /\ l.tag = "local" /\ b.tag = "boot-dns"
      /\ p.detour = "proxy" /\ l.detour = "" /\ b.detour = ""
  BY DEF DNSServer
<1>2. DNSServers(boot) = s
  BY Zenon DEF DNSServers
<1>3. c.dns.servers = DNSServers(boot) /\ c.dns.rules = DNSRules(boot) /\ c.dns.final = "proxy-dns"
  BY DEF DNSOf
<1> HIDE DEF p, l, b
<1>4. a \in Seq(S) /\ ToSet(a) = {p, l} /\ Unique(a)
  <2>1. a \in Seq(S)
    OBVIOUS
  <2>2. ToSet(a) = {p, l}
    BY DEF ToSet
  <2>3. DOMAIN a = {1, 2} /\ a[1] = p /\ a[2] = l
    OBVIOUS
  <2> HIDE DEF a
  <2>4. Unique(a)
    BY <1>1, <2>3 DEF Unique
  <2> QED
    BY <2>1, <2>2, <2>4
<1>5. B \in Seq(S) /\ ToSet(B) = (IF boot = {} THEN {} ELSE {b}) /\ Unique(B)
  <2>1. CASE boot = {}
    <3>1. B = <<>>
      BY <2>1
    <3> HIDE DEF B
    <3> QED
      BY <2>1, <3>1 DEF ToSet, Unique
  <2>2. CASE boot # {}
    <3>1. B = <<b>>
      BY <2>2
    <3> HIDE DEF B
    <3> QED
      BY <2>2, <3>1 DEF ToSet, Unique
  <2> QED
    BY <2>1, <2>2
<1> HIDE DEF a, B, S
<1>6. TagSet(a) \cap TagSet(B) = {}
  BY <1>1, <1>4, <1>5 DEF TagSet
<1>7. s \in Seq(S) /\ ToSet(s) = {p, l} \cup ToSet(B) /\ Unique(s)
  BY <1>4, <1>5, <1>6, JoinOf
<1> HIDE DEF s
<1>8. Cardinality(TagSet(s)) = Len(s)
  BY <1>7, UniqueCount
<1>9. ServersOf(c) = ToSet(s) /\ {x.tag : x \in ServersOf(c)} = TagSet(s) /\ c.dns.servers = s
  BY <1>2, <1>3 DEF ServersOf, TagSet
<1>10. TagSet(s) = {"proxy-dns", "local"} \cup (IF boot = {} THEN {} ELSE {"boot-dns"})
  BY <1>1, <1>5, <1>7 DEF TagSet
<1>11. \A r \in ToSet(c.dns.rules) : boot # {} /\ r.server = "boot-dns"
  BY <1>3 DEF DNSRules, ToSet
<1>12. \A x \in ServersOf(c) : x.detour \in {"proxy", ""}
  BY <1>1, <1>5, <1>7, <1>9
<1>13. {c.dns.final} \cup {r.server : r \in ToSet(c.dns.rules)} \subseteq TagSet(s)
  BY <1>3, <1>10, <1>11
<1>14. DNSClosed(c)
  BY <1>8, <1>9, <1>10, <1>13 DEF DNSClosed
<1> QED
  BY <1>12, <1>14

\* The direct rules of the TUN refer to "direct" only.
LEMMA GuardRoutes ==
  ASSUME NEW nodes
  PROVE  \A r \in ToSet(<<Sniff3s, Hijack, Private>> \o LoopGuards(nodes)) : r.outbound \in {"", "direct"}
<1> DEFINE R == {LoopGuard(h) : h \in HostsOf(nodes) \cap (IPv4 \cup IPv6)}
           a == <<Sniff3s, Hijack, Private>>
           g == LoopGuards(nodes)
           S == R \cup {Sniff3s, Hijack, Private}
<1>1. \A r \in S : r.outbound \in {"", "direct"}
  <2>1. \A h : LoopGuard(h).outbound = "direct"
    BY DEF LoopGuard, Rule
  <2>2. Sniff3s.outbound = "" /\ Hijack.outbound = "" /\ Private.outbound = "direct"
    BY DEF Sniff3s, Hijack, Private, Rule
  <2> QED
    BY <2>1, <2>2
<1>2. g = SetToSeq(R) /\ IsFiniteSet(R)
  BY GuardsOf
<1> HIDE DEF R, g
<1>3. g \in Seq(R) /\ ToSet(g) \subseteq R
  <2>1. g \in Seq(R)
    BY <1>2, SetToSeqOf
  <2> QED
    BY <2>1 DEF ToSet
<1>4. a \in Seq(S) /\ ToSet(a) \subseteq S
  BY DEF ToSet
<1>5. g \in Seq(S)
  BY <1>3
<1> HIDE DEF a
<1> HIDE DEF S
<1>6. ToSet(a \o g) = ToSet(a) \cup ToSet(g)
  BY <1>4, <1>5, JoinOf
<1>7. ToSet(a \o g) \subseteq S
  BY <1>3, <1>4, <1>6 DEF S
<1> QED
  BY <1>1, <1>7 DEF a, g

\* The rules of the proxy refer to "direct", and to "block" when it is there.
LEMMA ProxyRoutes ==
  ASSUME NEW fw \in Seq(RouteRules), NEW r \in ToSet(ProxyRules(fw))
  PROVE  r.outbound \in {"", "direct"} \/ (r.outbound = "block" /\ BlockSet(fw) # {})
<1> DEFINE ru == Rule("ru", {}, "direct")
           S == RouteRules \cup {Sniff3s, Private, ru}
           a == <<Sniff3s>>
           z == <<Private, ru>>
<1>1. /\ a \in Seq(S) /\ ToSet(a) = {Sniff3s}
      /\ z \in Seq(S) /\ ToSet(z) = {Private, ru} /\ fw \in Seq(S)
  BY DEF ToSet
<1>2. ProxyRules(fw) = (a \o fw) \o z
  BY DEF ProxyRules
<1>3. Sniff3s.outbound = "" /\ Private.outbound = "direct" /\ ru.outbound = "direct"
  BY DEF Sniff3s, Private, Rule
<1> DEFINE b == a \o fw
<1> HIDE DEF a, z, S, ru
<1>4. b \in Seq(S) /\ ToSet(b) = ToSet(a) \cup ToSet(fw)
  BY <1>1, JoinOf
<1> HIDE DEF b
<1>5. ToSet(b \o z) = ToSet(b) \cup ToSet(z)
  BY <1>1, <1>4, JoinOf
<1>6. r \in ToSet(fw) \cup {Sniff3s, Private, ru}
  BY <1>1, <1>2, <1>4, <1>5 DEF b
<1>7. CASE r \in ToSet(fw)
  <2>1. PICK k \in DOMAIN fw : fw[k] = r
    BY <1>7 DEF ToSet
  <2>2. r \in RouteRules
    BY <2>1
  <2>3. r.outbound \in {"block", "direct"}
    BY <2>2 DEF RouteRules, RouteRule, Rule
  <2>4. r.outbound = "block" => BlockSet(fw) = {Block}
    BY <2>1 DEF BlockSet
  <2> QED
    BY <2>3, <2>4
<1> QED
  BY <1>3, <1>6, <1>7

\* A configuration of which nothing refers to what is not there.
Closed(c) ==
  /\ Cardinality(Tags(c)) = Len(c.outbounds \o c.endpoints)
  /\ GroupsClosed(c)
  /\ \A r \in ToSet(c.route.rules) : r.outbound \in Tags(c) \cup {""}
  /\ c.route.final \in Tags(c)
  /\ \A s \in ServersOf(c) : s.detour \in Tags(c) \cup {""}
  /\ DNSClosed(c)

LEMMA ProxyClosed ==
  ASSUME TagsDiffer(Nat \ {0}), NEW profiles, profiles \in Seq(ToSet(profiles)), profiles # <<>>,
         NEW o, o.firewall \in Seq(FWRules), NEW c, c = GenerateProxyConfigOpts(profiles, o)
  PROVE  Closed(c)
<1> DEFINE iface == o.iface
           nodes == Rendered(profiles, iface)
           extra == ProxyExtra(profiles, o)
           fw == FirewallRouteRules(o.firewall)
           u == WithDefaultURLTest(o.urltest)
           B == BlockSet(fw)
           boot == BootHosts(nodes, u)
           G == GroupSet(ServerTags(Len(profiles)), u)
<1>1. /\ MadeOf(c, nodes, extra)
      /\ c.dns = DNSOf(boot) /\ c.route.final = "proxy" /\ c.route.resolver = "local"
      /\ c.route.rules = ProxyRules(fw)
  BY ProxyIs
<1>2. /\ extra \in Seq(G \cup {Direct(iface)} \cup B)
      /\ ToSet(extra) = G \cup {Direct(iface)} \cup B /\ Unique(extra)
  BY ProxyExtraOf
<1>3. fw \in Seq(RouteRules)
  BY RouteRulesOf
<1>4. B \subseteq {Block}
  BY DEF BlockSet
<1>5. PICK in : c = Config(in, nodes, extra, c.dns, c.route)
  BY <1>1 DEF MadeOf
<1> HIDE DEF iface, extra, fw, u, B, boot
<1>6. extra \in Seq(ToSet(extra))
  BY <1>2
<1>7. OverServers(c, B)
  <2> DEFINE dns == c.dns
             route == c.route
  <2> HIDE DEF dns, route
  <2>1. OverServers(Config(in, Rendered(profiles, iface), extra, dns, route), B)
    BY <1>2, <1>4, <1>6, GroupsOverServers, Zenon
  <2> QED
    BY <1>5, <2>1 DEF dns, route
<1>8. DNSClosed(c) /\ \A s \in ServersOf(c) : s.detour \in {"proxy", ""}
  BY <1>1, BootDNSClosed
<1>9. ASSUME NEW r \in ToSet(c.route.rules)
      PROVE  r.outbound \in Tags(c) \cup {""}
  <2>1. r.outbound \in {"", "direct"} \/ (r.outbound = "block" /\ B # {})
    BY <1>1, <1>3, <1>9, ProxyRoutes DEF B
  <2> QED
    BY <1>7, <2>1 DEF OverServers
<1> QED
  BY <1>1, <1>7, <1>8, <1>9 DEF Closed, OverServers

LEMMA TunnelClosed ==
  ASSUME TagsDiffer(Nat \ {0}), NEW profiles, profiles \in Seq(ToSet(profiles)), profiles # <<>>,
         NEW o, NEW c, c = GenerateTunnelConfigSet(profiles, o), c # NoConfig
  PROVE  Closed(c)
<1> DEFINE nodes == Rendered(profiles, "")
           extra == TunnelExtra(profiles, o)
           u == WithDefaultURLTest(o.urltest)
           boot == BootHosts(nodes, u)
           G == GroupSet(ServerTags(Len(profiles)), u)
           X == G \cup {Direct("")}
<1>1. /\ MadeOf(c, nodes, extra)
      /\ c.dns = DNSOf(boot) /\ c.route.final = "proxy" /\ c.route.resolver = "local"
      /\ c.route.rules = <<Sniff3s, Hijack, Private>> \o LoopGuards(nodes)
  BY TunnelIs
<1>2. extra \in Seq(X) /\ ToSet(extra) = X /\ Unique(extra)
  BY ExtraOf DEF TunnelExtra
<1>3. ToSet(extra) = G \cup {Direct("")} \cup {}
  BY <1>2
<1>4. PICK in : c = Config(in, nodes, extra, c.dns, c.route)
  BY <1>1 DEF MadeOf
<1> HIDE DEF extra, u, boot, X
<1>5. extra \in Seq(ToSet(extra))
  BY <1>2
<1>6. OverServers(c, {})
  <2> DEFINE dns == c.dns
             route == c.route
             B == {}
             none == ""
  <2>0. B \subseteq {Block} /\ ToSet(extra) = G \cup {Direct(none)} \cup B
    BY <1>3
  <2>1. c = Config(in, Rendered(profiles, none), extra, dns, route)
    BY <1>4
  <2> HIDE DEF dns, route, B, none
  <2>2. OverServers(Config(in, Rendered(profiles, none), extra, dns, route), B)
    BY <1>2, <1>5, <2>0, GroupsOverServers, Zenon
  <2> QED
    BY <2>1, <2>2 DEF B
<1>7. DNSClosed(c) /\ \A s \in ServersOf(c) : s.detour \in {"proxy", ""}
  BY <1>1, BootDNSClosed
<1>8. \A r \in ToSet(c.route.rules) : r.outbound \in {"", "direct"}
  BY <1>1, GuardRoutes
<1> QED
  BY <1>1, <1>6, <1>7, <1>8 DEF Closed, OverServers

LEMMA ForwarderClosed ==
  ASSUME NEW profiles, profiles # <<>>, NEW ports, NEW c, c = GenerateForwarderConfigSet(profiles, ports)
  PROVE  Closed(c)
<1> DEFINE nodes == Rendered(profiles, "")
<1>1. /\ \E in, port : c = Config(in, <<>>, ForwarderExtra(port), c.dns, c.route)
      /\ c.dns = ForwarderDNS /\ c.route.final = "socks-out" /\ c.route.resolver = ""
      /\ c.route.rules = <<Sniff3s, Hijack, Private>> \o LoopGuards(nodes)
  BY ForwarderIs
<1>2. PICK in, port : c = Config(in, <<>>, ForwarderExtra(port), c.dns, c.route)
  BY <1>1
<1> DEFINE x == [type |-> "socks", tag |-> "socks-out", port |-> port]
           d == Direct("")
           extra == <<x, d>>
           S == {x, d}
           none == <<>>
<1>3. x.tag = "socks-out" /\ d.tag = "direct" /\ x.type = "socks" /\ d.type = "direct"
  BY DEF Direct
<1>4. ForwarderExtra(port) = extra
  BY DEF ForwarderExtra
<1> HIDE DEF x, d
<1>5. extra \in Seq(S) /\ ToSet(extra) = S /\ DOMAIN extra = {1, 2} /\ extra[1] = x /\ extra[2] = d
  BY DEF ToSet
<1>6. none \in Seq(S) /\ ToSet(none) = {} /\ DOMAIN none = {}
  BY DEF ToSet
<1>7. c = Config(in, none, extra, c.dns, c.route)
  BY <1>2, <1>4
<1> HIDE DEF extra, none, S
<1>8. Unique(extra) /\ TagSet(extra) = {"socks-out", "direct"} /\ Unique(none) /\ TagSet(none) = {}
  BY <1>3, <1>5, <1>6 DEF Unique, TagSet, S
<1>9. ToldApart(c, none, extra)
  <2> DEFINE dns == c.dns
             route == c.route
  <2> HIDE DEF dns, route
  <2>1. ToSet(none) \cup ToSet(extra) = S /\ TagSet(none) \cap TagSet(extra) = {}
    BY <1>5, <1>6, <1>8
  <2>2. ToldApart(Config(in, none, extra, dns, route), none, extra)
    BY <1>5, <1>6, <1>8, <2>1, TagsOnce, Zenon
  <2> QED
    BY <1>7, <2>2 DEF dns, route
<1>10. /\ Tags(c) = {"socks-out", "direct"} /\ ToSet(c.outbounds \o c.endpoints) = {x, d}
       /\ Cardinality(Tags(c)) = Len(c.outbounds \o c.endpoints)
  BY <1>5, <1>6, <1>8, <1>9 DEF ToldApart, S
<1>11. GroupsClosed(c)
  <2> DEFINE all == c.outbounds \o c.endpoints
  <2>1. \A i \in DOMAIN all : all[i] \in {x, d}
    BY <1>10 DEF ToSet
  <2> HIDE DEF all
  <2>2. \A i \in DOMAIN all : all[i].type \notin {"urltest", "selector"}
    BY <1>3, <2>1
  <2> QED
    BY <2>2, Zenon DEF GroupsClosed, all
<1>12. \A r \in ToSet(c.route.rules) : r.outbound \in {"", "direct"}
  BY <1>1, GuardRoutes
<1>13. DNSClosed(c) /\ \A s \in ServersOf(c) : s.detour = "socks-out"
  <2> DEFINE f == DNSServer("fwd-dns", "https", "socks-out")
  <2>1. f.tag = "fwd-dns" /\ f.detour = "socks-out"
    BY DEF DNSServer
  <2>2. c.dns.servers = <<f>> /\ c.dns.rules = <<>> /\ c.dns.final = "fwd-dns"
    <3> DEFINE F == <<f>>
               E == <<>>
    <3>1. c.dns = [servers |-> F, rules |-> E, final |-> "fwd-dns"]
      BY <1>1, Zenon DEF ForwarderDNS
    <3> HIDE DEF F, E
    <3>2. c.dns.servers = F /\ c.dns.rules = E /\ c.dns.final = "fwd-dns"
      BY <3>1
    <3> QED
      BY <3>2 DEF F, E
  <2> HIDE DEF f
  <2>3. ServersOf(c) = {f} /\ ToSet(c.dns.rules) = {} /\ Len(c.dns.servers) = 1
    BY <2>2 DEF ServersOf, ToSet
  <2>4. {s.tag : s \in ServersOf(c)} = {"fwd-dns"} /\ {r.server : r \in ToSet(c.dns.rules)} = {}
    BY <2>1, <2>3
  <2>5. Cardinality({"fwd-dns"}) = 1
    BY FS_Singleton
  <2> QED
    BY <1>1, <2>1, <2>2, <2>3, <2>4, <2>5 DEF DNSClosed
<1> QED
  BY <1>1, <1>10, <1>11, <1>12, <1>13 DEF Closed

\* Whatever servers, options and firewall, with the numerals of the tags told apart:
\* the proxy, the forwarder and the tunnel refer to no outbound and to no DNS server
\* that they do not have, and no tag is there twice.
THEOREM ReferencesAreDefined == TagsDiffer(Nat \ {0}) => (ImportSpec => []ReferencesDefined)
<1> SUFFICES ASSUME TagsDiffer(Nat \ {0}) PROVE ImportSpec => []ReferencesDefined
  OBVIOUS
<1>1. ImportInit => ListInv
  BY ListInit
<1>2. ListInv /\ [ImportNext]_ivars => ListInv'
  BY ListStep
<1>3. ListInv => ReferencesDefined
  <2> SUFFICES ASSUME ListInv, stage = "built" PROVE ReferencesDefined
    BY DEF ReferencesDefined
  <2> DEFINE ps == built.profiles
             o == built.opts
  <2>1. /\ ps # <<>> /\ ps \in Seq(ToSet(ps)) /\ o \in Options
        /\ built.proxy = GenerateProxyConfigOpts(ps, o)
        /\ built.forwarder = GenerateForwarderConfigSet(ps, o.ports)
        /\ built.tunnel = GenerateTunnelConfigSet(ps, o)
    BY DEF ListInv
  <2>2. o.firewall \in Seq(FWRules)
    BY <2>1, ImportsConstantsOK DEF FWRules
  <2>3. Closed(built.proxy)
    BY <2>1, <2>2, ProxyClosed
  <2>4. Closed(built.forwarder)
    BY <2>1, ForwarderClosed
  <2>5. built.tunnel.ok => Closed(built.tunnel)
    <3>1. ~NoConfig.ok
      BY DEF NoConfig
    <3> QED
      BY <2>1, <3>1, TunnelClosed
  <2>6. \A c \in Cores : Closed(c)
    BY <2>3, <2>4, <2>5 DEF Cores
  <2> QED
    BY <2>6, Zenon DEF ReferencesDefined, Closed, GroupsClosed, DNSClosed
<1> QED
  BY <1>1, <1>2, <1>3, PTL DEF ImportSpec
=============================================================================
