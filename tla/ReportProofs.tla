---------------------------- MODULE ReportProofs ----------------------------
(***************************************************************************)
(* What a report tells, for clusters and configurations of every size.     *)
(***************************************************************************)
EXTENDS Report, SequenceTheorems, FiniteSetTheorems, WellFoundedInduction, TLAPS

IsSeq(s) == s \in Seq(ToSet(s))

(* A sequence is the function of its elements. *)
LEMMA SeqDomain ==
  ASSUME NEW s, IsSeq(s)
  PROVE  Len(s) \in Nat /\ DOMAIN s = 1..Len(s) /\ \A i \in DOMAIN s : s[i] \in ToSet(s)
  BY LenProperties DEF IsSeq, ToSet

LEMMA InSeqIsSeq ==
  ASSUME NEW S, NEW s \in Seq(S)
  PROVE  IsSeq(s)
<1>1. Len(s) \in Nat /\ DOMAIN s = 1..Len(s) /\ s \in [1..Len(s) -> S]
  BY LenProperties
<1>2. s \in [1..Len(s) -> ToSet(s)]
  BY <1>1 DEF ToSet
<1> QED
  BY <1>1, <1>2, SeqDef DEF IsSeq

(* A function on 1..n is a sequence. *)
LEMMA FunctionIsSeq ==
  ASSUME NEW S, NEW n \in Nat, NEW f \in [1..n -> S]
  PROVE  f \in Seq(S) /\ Len(f) = n
<1>1. f \in Seq(S)
  BY SeqDef
<1> QED
  BY <1>1, LenProperties

(* What is in the sequence t after s. *)
LEMMA ConcatFacts ==
  ASSUME NEW s, NEW t, IsSeq(s), IsSeq(t)
  PROVE  /\ IsSeq(s \o t)
         /\ Len(s \o t) = Len(s) + Len(t)
         /\ \A i \in DOMAIN s : i \in DOMAIN (s \o t) /\ (s \o t)[i] = s[i]
         /\ \A i \in DOMAIN t : Len(s) + i \in DOMAIN (s \o t) /\ (s \o t)[Len(s) + i] = t[i]
         /\ \A i \in DOMAIN (s \o t) :
              \/ i \in DOMAIN s
              \/ i > Len(s) /\ i - Len(s) \in DOMAIN t /\ (s \o t)[i] = t[i - Len(s)]
<1> DEFINE S == ToSet(s) \cup ToSet(t)
<1>1. s \in Seq(S) /\ t \in Seq(S)
  <2>1. Len(s) \in Nat /\ DOMAIN s = 1..Len(s) /\ s \in [1..Len(s) -> S]
    BY SeqDomain, LenProperties DEF ToSet, IsSeq
  <2>2. Len(t) \in Nat /\ DOMAIN t = 1..Len(t) /\ t \in [1..Len(t) -> S]
    BY SeqDomain, LenProperties DEF ToSet, IsSeq
  <2> QED BY <2>1, <2>2, SeqDef
<1>2. /\ s \o t \in Seq(S)
      /\ Len(s \o t) = Len(s) + Len(t)
      /\ \A i \in 1 .. Len(s) + Len(t) :
           (s \o t)[i] = IF i <= Len(s) THEN s[i] ELSE t[i - Len(s)]
  BY <1>1, ConcatProperties
<1>3. IsSeq(s \o t)
  BY <1>2, InSeqIsSeq
<1>4. /\ Len(s) \in Nat /\ DOMAIN s = 1..Len(s)
      /\ Len(t) \in Nat /\ DOMAIN t = 1..Len(t)
      /\ DOMAIN (s \o t) = 1 .. Len(s) + Len(t)
  BY <1>2, <1>3, SeqDomain
<1> HIDE DEF S
<1>5. \A i \in DOMAIN s : i \in DOMAIN (s \o t) /\ (s \o t)[i] = s[i]
  BY <1>2, <1>4
<1>6. \A i \in DOMAIN t : Len(s) + i \in DOMAIN (s \o t) /\ (s \o t)[Len(s) + i] = t[i]
  BY <1>2, <1>4
<1>7. ASSUME NEW i \in DOMAIN (s \o t), i \notin DOMAIN s
      PROVE  i > Len(s) /\ i - Len(s) \in DOMAIN t /\ (s \o t)[i] = t[i - Len(s)]
  BY <1>2, <1>4, <1>7
<1> QED
  BY <1>2, <1>3, <1>5, <1>6, <1>7

LEMMA ConcatSet ==
  ASSUME NEW s, NEW t, IsSeq(s), IsSeq(t)
  PROVE  /\ ToSet(s \o t) = ToSet(s) \cup ToSet(t)
         /\ IsInjective(s) /\ IsInjective(t) /\ ToSet(s) \cap ToSet(t) = {} => IsInjective(s \o t)
<1>1. ToSet(s \o t) = ToSet(s) \cup ToSet(t)
  <2> DEFINE st == s \o t
  <2>1. /\ \A i \in DOMAIN s : i \in DOMAIN st /\ st[i] = s[i]
        /\ \A i \in DOMAIN t : Len(s) + i \in DOMAIN st /\ st[Len(s) + i] = t[i]
        /\ \A i \in DOMAIN st :
             i \in DOMAIN s \/ (i - Len(s) \in DOMAIN t /\ st[i] = t[i - Len(s)])
    BY ConcatFacts
  <2> HIDE DEF st
  <2>2. ToSet(st) \subseteq ToSet(s) \cup ToSet(t)
    BY <2>1 DEF ToSet
  <2>3. ToSet(s) \cup ToSet(t) \subseteq ToSet(st)
    BY <2>1 DEF ToSet
  <2> QED BY <2>2, <2>3 DEF st
<1>2. ASSUME IsInjective(s), IsInjective(t), ToSet(s) \cap ToSet(t) = {},
             NEW i \in DOMAIN (s \o t), NEW j \in DOMAIN (s \o t), (s \o t)[i] = (s \o t)[j]
      PROVE  i = j
  <2>1. Len(s) \in Nat /\ DOMAIN s = 1..Len(s) /\ Len(t) \in Nat /\ DOMAIN t = 1..Len(t)
    BY SeqDomain
  <2>2. DOMAIN (s \o t) \subseteq Int
    BY <2>1, ConcatFacts, SeqDomain
  <2>3. CASE i \in DOMAIN s /\ j \in DOMAIN s
    BY <1>2, <2>3, ConcatFacts DEF IsInjective
  <2>4. CASE i \notin DOMAIN s /\ j \notin DOMAIN s
    <3>1. t[i - Len(s)] = t[j - Len(s)] /\ i - Len(s) \in DOMAIN t /\ j - Len(s) \in DOMAIN t
      BY <1>2, <2>4, ConcatFacts
    <3>2. i - Len(s) = j - Len(s)
      BY <1>2, <3>1 DEF IsInjective
    <3> QED BY <2>1, <2>2, <3>2
  <2>5. CASE i \in DOMAIN s /\ j \notin DOMAIN s
    BY <1>2, <2>5, ConcatFacts DEF ToSet
  <2>6. CASE i \notin DOMAIN s /\ j \in DOMAIN s
    BY <1>2, <2>6, ConcatFacts DEF ToSet
  <2> QED BY <2>3, <2>4, <2>5, <2>6
<1> QED
  BY <1>1, <1>2 DEF IsInjective

(* A permutation of a finite set has every element once. *)
LEMMA Permutation ==
  ASSUME NEW S, IsFiniteSet(S), NEW f \in [1..Cardinality(S) -> S], IsInjective(f)
  PROVE  /\ Cardinality(S) \in Nat
         /\ f \in Seq(S) /\ Len(f) = Cardinality(S)
         /\ \A x \in S : \E i \in DOMAIN f : f[i] = x
<1>1. Cardinality(S) \in Nat
  BY FS_CardinalityType
<1>2. f \in Injection(1..Cardinality(S), S)
  BY DEF Injection
<1>3. Cardinality(1..Cardinality(S)) = Cardinality(S)
  BY <1>1, FS_Interval
<1>4. f \in Surjection(1..Cardinality(S), S)
  BY <1>2, <1>3, FS_Injection
<1> QED
  BY <1>1, <1>4, FunctionIsSeq DEF Surjection

LEMMA SetToSeqFacts ==
  ASSUME NEW S, IsFiniteSet(S)
  PROVE  LET s == SetToSeq(S)
         IN  /\ s \in Seq(S) /\ DOMAIN s = 1..Len(s) /\ Len(s) \in Nat
             /\ IsInjective(s)
             /\ \A x \in S : \E i \in DOMAIN s : s[i] = x
<1> DEFINE n == Cardinality(S)
           s == SetToSeq(S)
<1>1. ExistsBijection(1..n, S)
  BY FS_CardinalityType
<1>2. \E f \in [1..n -> S] : IsInjective(f)
  BY <1>1 DEF ExistsBijection, Bijection, Injection
<1>3. s \in [1..n -> S] /\ IsInjective(s)
  BY <1>2 DEF SetToSeq
<1>4. \A f \in [1..n -> S] : IsInjective(f) =>
        /\ f \in Seq(S) /\ DOMAIN f = 1..Len(f) /\ Len(f) \in Nat
        /\ \A x \in S : \E i \in DOMAIN f : f[i] = x
  BY Permutation, LenProperties
<1> QED
  BY <1>3, <1>4
-----------------------------------------------------------------------------
(* Which row and which column of a table with 1 or 3 columns is the i-th. *)
LEMMA Grid ==
  ASSUME NEW n \in Nat, NEW m \in {1, 3}
  PROVE  /\ \A i \in 1 .. n * m :
              /\ (i - 1) % m \in 0 .. m - 1
              /\ (i - 1) \div m \in 0 .. n - 1
              /\ i = 1 + m * ((i - 1) \div m) + ((i - 1) % m)
         /\ \A q \in 0 .. n - 1, r \in 0 .. m - 1 :
              /\ 1 + (m * q + r) \in 1 .. n * m
              /\ (m * q + r) % m = r
              /\ (m * q + r) \div m = q
<1>1. CASE m = 1
  BY <1>1
<1>2. CASE m = 3
  BY <1>2
<1> QED BY <1>1, <1>2

(* ListIn calls for each kind in each namespace, once. *)
LEMMA ListInFacts ==
  ASSUME NEW nss, IsSeq(nss), IsInjective(nss),
         NEW kinds, IsSeq(kinds), IsInjective(kinds), Len(kinds) \in {1, 3}
  PROVE  LET L == ListIn(nss, kinds)
         IN  /\ IsSeq(L)
             /\ IsInjective(L)
             /\ \A i \in DOMAIN L : L[i].res \in ToSet(kinds) /\ L[i].ns \in ToSet(nss)
             /\ \A k \in ToSet(kinds), n \in ToSet(nss) :
                  \E i \in DOMAIN L : L[i] = [res |-> k, ns |-> n]
<1> DEFINE n == Len(nss)
           m == Len(kinds)
           R(i) == 1 + ((i - 1) % m)
           Q(i) == 1 + ((i - 1) \div m)
           L == ListIn(nss, kinds)
<1>1. /\ n \in Nat /\ m \in {1, 3} /\ DOMAIN nss = 1..n /\ DOMAIN kinds = 1..m
      /\ \A q \in 1..n : nss[q] \in ToSet(nss)
      /\ \A r \in 1..m : kinds[r] \in ToSet(kinds)
  BY SeqDomain
<1>2. /\ \A i \in 1 .. n * m : R(i) \in 1..m /\ Q(i) \in 1..n
      /\ \A i, j \in 1 .. n * m : R(i) = R(j) /\ Q(i) = Q(j) => i = j
      /\ \A q \in 1..n, r \in 1..m : \E i \in 1 .. n * m : R(i) = r /\ Q(i) = q
  <2> HIDE DEF n, m
  <2>1. ASSUME NEW i \in 1 .. n * m
        PROVE  /\ R(i) \in 1..m /\ Q(i) \in 1..n
               /\ i = 1 + m * (Q(i) - 1) + (R(i) - 1)
    <3>1. (i - 1) % m \in 0 .. m - 1 /\ (i - 1) \div m \in 0 .. n - 1
          /\ i = 1 + m * ((i - 1) \div m) + ((i - 1) % m)
      BY <1>1, Grid
    <3> QED BY <1>1, <3>1
  <2>2. ASSUME NEW q \in 1..n, NEW r \in 1..m
        PROVE  \E i \in 1 .. n * m : R(i) = r /\ Q(i) = q
    <3> DEFINE i == 1 + (m * (q - 1) + (r - 1))
    <3>1. q - 1 \in 0 .. n - 1 /\ r - 1 \in 0 .. m - 1
      BY <1>1
    <3>2. /\ i \in 1 .. n * m
          /\ (m * (q - 1) + (r - 1)) % m = r - 1
          /\ (m * (q - 1) + (r - 1)) \div m = q - 1
      BY <1>1, <3>1, Grid
    <3>3. i - 1 = m * (q - 1) + (r - 1)
      BY <1>1
    <3>4. R(i) = r /\ Q(i) = q
      <4>1. (i - 1) % m = r - 1 /\ (i - 1) \div m = q - 1
        BY <3>2, <3>3
      <4> HIDE DEF i
      <4> QED BY <4>1, <1>1
    <3> QED BY <3>2, <3>4
  <2>3. \A i, j \in 1 .. n * m : R(i) = R(j) /\ Q(i) = Q(j) => i = j
    <3> HIDE DEF R, Q
    <3> QED BY <2>1
  <2> QED BY <2>1, <2>2, <2>3
<1> HIDE DEF R, Q
<1>3. DOMAIN L = 1 .. n * m /\ \A i \in 1 .. n * m : L[i] = [res |-> kinds[R(i)], ns |-> nss[Q(i)]]
  BY DEF ListIn, R, Q
<1> HIDE DEF L
<1>4. L = [i \in 1 .. n * m |-> [res |-> kinds[R(i)], ns |-> nss[Q(i)]]]
  BY DEF ListIn, R, Q, L
<1>5. n * m \in Nat
  BY <1>1
<1>6. IsSeq(L)
  <2> DEFINE S == [res : ToSet(kinds), ns : ToSet(nss)]
  <2>1. L \in [1 .. n * m -> S]
    BY <1>1, <1>2, <1>4
  <2>2. L \in Seq(S)
    BY <1>5, <2>1, FunctionIsSeq
  <2> HIDE DEF S
  <2> QED BY <2>2, InSeqIsSeq
<1>7. \A i, j \in 1 .. n * m : L[i] = L[j] => i = j
  <2> SUFFICES ASSUME NEW i \in 1 .. n * m, NEW j \in 1 .. n * m, L[i] = L[j] PROVE i = j
    OBVIOUS
  <2>1. kinds[R(i)] = kinds[R(j)] /\ nss[Q(i)] = nss[Q(j)]
    BY <1>3
  <2>2. R(i) = R(j) /\ Q(i) = Q(j)
    BY <1>1, <1>2, <2>1 DEF IsInjective
  <2> QED BY <1>2, <2>2
<1>8. \A i \in DOMAIN L : L[i].res \in ToSet(kinds) /\ L[i].ns \in ToSet(nss)
  BY <1>1, <1>2, <1>3 DEF ToSet
<1>9. \A k \in ToSet(kinds), x \in ToSet(nss) : \E i \in DOMAIN L : L[i] = [res |-> k, ns |-> x]
  <2> SUFFICES ASSUME NEW k \in ToSet(kinds), NEW x \in ToSet(nss)
               PROVE  \E i \in DOMAIN L : L[i] = [res |-> k, ns |-> x]
    OBVIOUS
  <2>1. PICK r \in 1..m : kinds[r] = k
    BY <1>1 DEF ToSet
  <2>2. PICK q \in 1..n : nss[q] = x
    BY <1>1 DEF ToSet
  <2>3. PICK i \in 1 .. n * m : R(i) = r /\ Q(i) = q
    BY <1>2
  <2> QED BY <1>3, <2>1, <2>2, <2>3
<1> QED
  BY <1>3, <1>6, <1>7, <1>8, <1>9 DEF IsInjective, L

Ids == {"provenance", "rbacposture", "certlifecycle", "tlsscan"}

(* The namespaces a namespaced call is made for. *)
Scope == ToSet(namespaces(cfg.namespaces))

(* The calls a collector makes. *)
MadeBy(col, call) ==
  \/ col = "provenance" /\ call.res \in Workloads /\ call.ns \in Scope
  \/ col = "provenance" /\ call.res = "webhook" /\ call.ns = All
  \/ /\ col = "rbacposture" /\ call.ns = All
     /\ call.res \in {"clusterrole", "clusterrolebinding", "serviceaccount"}
  \/ col = "certlifecycle" /\ call.res \in {"certificate", "Issuer"} /\ call.ns \in Scope
  \/ col = "certlifecycle" /\ call.res = "ClusterIssuer" /\ call.ns = All
  \/ col = "tlsscan" /\ call.res = "endpoint" /\ call.ns \in ToSet(Endpoints)

LEMMA Kinds1 ==
  ASSUME NEW S, NEW a \in S
  PROVE  /\ << a >> \in Seq(S) /\ Len(<< a >>) = 1
         /\ IsInjective(<< a >>)
         /\ ToSet(<< a >>) = {a}
<1>1. << a >> \in Seq(S) /\ Len(<< a >>) = 1
  OBVIOUS
<1>2. DOMAIN << a >> = {1} /\ << a >>[1] = a
  OBVIOUS
<1>3. IsInjective(<< a >>)
  BY <1>2 DEF IsInjective
<1>4. ToSet(<< a >>) = {a}
  BY <1>2 DEF ToSet
<1> QED BY <1>1, <1>3, <1>4

LEMMA Kinds3 ==
  ASSUME NEW S, NEW a \in S, NEW b \in S, NEW c \in S, a # b, b # c, a # c
  PROVE  /\ << a, b, c >> \in Seq(S) /\ Len(<< a, b, c >>) = 3
         /\ IsInjective(<< a, b, c >>)
         /\ ToSet(<< a, b, c >>) = {a, b, c}
<1> DEFINE s == << a, b, c >>
<1>1. s \in Seq(S) /\ Len(s) = 3
  OBVIOUS
<1>2. DOMAIN s = {1, 2, 3} /\ s[1] = a /\ s[2] = b /\ s[3] = c
  <2>1. DOMAIN s = 1..3
    OBVIOUS
  <2> QED BY <2>1
<1> HIDE DEF s
<1>3. IsInjective(s)
  BY <1>2 DEF IsInjective
<1>4. ToSet(s) = {a, b, c}
  BY <1>2 DEF ToSet
<1> QED BY <1>1, <1>3, <1>4 DEF s

LEMMA ScopeFacts ==
  ASSUME cfg \in Configs
  PROVE  /\ IsSeq(namespaces(cfg.namespaces)) /\ IsInjective(namespaces(cfg.namespaces))
         /\ Scope = {All} \/ (All \notin Scope /\ Scope = ToSet(cfg.namespaces))
         /\ Scope = {All} <=> cfg.namespaces = << >>
<1>1. /\ IsSeq(cfg.namespaces) /\ IsInjective(cfg.namespaces)
      /\ All \notin ToSet(cfg.namespaces)
  BY CollectorsAssumption, InSeqIsSeq
<1>2. CASE cfg.namespaces = << >>
  <2>1. namespaces(cfg.namespaces) = << All >>
    BY <1>2 DEF namespaces
  <2>2. All \in {All}
    OBVIOUS
  <2>3. << All >> \in Seq({All}) /\ IsInjective(<< All >>) /\ ToSet(<< All >>) = {All}
    BY <2>2, Kinds1
  <2>4. IsSeq(<< All >>)
    BY <2>3, InSeqIsSeq
  <2> QED BY <1>2, <2>1, <2>3, <2>4 DEF Scope
<1>3. CASE cfg.namespaces # << >>
  <2>1. namespaces(cfg.namespaces) = cfg.namespaces
    BY <1>3 DEF namespaces
  <2> QED BY <1>1, <1>3, <2>1 DEF Scope
<1> QED BY <1>2, <1>3

LEMMA EndpointsFacts ==
  ASSUME cfg \in Configs
  PROVE  /\ IsSeq(Endpoints) /\ IsInjective(Endpoints)
         /\ ToSet(Endpoints) = {o.ns : o \in {e \in cfg.objects : e.res = "endpoint"}}
<1> DEFINE E == {e \in cfg.objects : e.res = "endpoint"}
           S == {o.ns : o \in E}
<1>1. IsFiniteSet(cfg.objects)
  BY CollectorsAssumption
<1>2. IsFiniteSet(E)
  BY <1>1, FS_Subset
<1>3. IsFiniteSet(S)
  <2> DEFINE f == [o \in E |-> o.ns]
  <2>1. f \in Surjection(E, S)
    BY DEF Surjection
  <2> QED BY <1>2, <2>1, FS_Surjection
<1>4. Endpoints = SetToSeq(S)
  BY DEF Endpoints
<1> HIDE DEF S
<1>5. /\ Endpoints \in Seq(S) /\ IsInjective(Endpoints)
      /\ \A x \in S : \E i \in DOMAIN Endpoints : Endpoints[i] = x
  BY <1>3, <1>4, SetToSeqFacts
<1>6. \A i \in DOMAIN Endpoints : Endpoints[i] \in S
  BY <1>5, LenProperties
<1>7. ToSet(Endpoints) = S
  BY <1>5, <1>6 DEF ToSet
<1> QED
  BY <1>5, <1>7, InSeqIsSeq DEF S

(* The calls of a list over namespaces, as a set. *)
LEMMA ListInSet ==
  ASSUME NEW nss, IsSeq(nss), IsInjective(nss),
         NEW kinds, IsSeq(kinds), IsInjective(kinds), Len(kinds) \in {1, 3}
  PROVE  /\ IsSeq(ListIn(nss, kinds)) /\ IsInjective(ListIn(nss, kinds))
         /\ ToSet(ListIn(nss, kinds)) = [res : ToSet(kinds), ns : ToSet(nss)]
<1> DEFINE L == ListIn(nss, kinds)
<1>1. /\ IsSeq(L) /\ IsInjective(L)
      /\ \A k \in ToSet(kinds), n \in ToSet(nss) : \E i \in DOMAIN L : L[i] = [res |-> k, ns |-> n]
  BY ListInFacts
<1>2. \A i \in DOMAIN L : L[i] \in [res : ToSet(kinds), ns : ToSet(nss)]
  <2> SUFFICES ASSUME NEW i \in DOMAIN L PROVE L[i] \in [res : ToSet(kinds), ns : ToSet(nss)]
    OBVIOUS
  <2>1. L[i].res \in ToSet(kinds) /\ L[i].ns \in ToSet(nss)
    BY ListInFacts
  <2>2. L[i] = [res |-> L[i].res, ns |-> L[i].ns]
    BY DEF ListIn
  <2> HIDE DEF L
  <2> QED BY <2>1, <2>2
<1> HIDE DEF L
<1>3. ToSet(L) = [res : ToSet(kinds), ns : ToSet(nss)]
  <2>1. ToSet(L) \subseteq [res : ToSet(kinds), ns : ToSet(nss)]
    BY <1>2 DEF ToSet
  <2>2. ASSUME NEW c \in [res : ToSet(kinds), ns : ToSet(nss)] PROVE c \in ToSet(L)
    <3>1. c.res \in ToSet(kinds) /\ c.ns \in ToSet(nss) /\ c = [res |-> c.res, ns |-> c.ns]
      OBVIOUS
    <3>2. PICK i \in DOMAIN L : L[i] = c
      BY <1>1, <3>1
    <3> QED BY <3>2 DEF ToSet
  <2> QED BY <2>1, <2>2
<1> QED
  BY <1>1, <1>3 DEF L

LEMMA ListIn1 ==
  ASSUME NEW nss, IsSeq(nss), IsInjective(nss), NEW a
  PROVE  /\ IsSeq(ListIn(nss, << a >>)) /\ IsInjective(ListIn(nss, << a >>))
         /\ ToSet(ListIn(nss, << a >>)) = [res : {a}, ns : ToSet(nss)]
<1>1. a \in {a}
  OBVIOUS
<1>2. << a >> \in Seq({a}) /\ Len(<< a >>) = 1 /\ IsInjective(<< a >>) /\ ToSet(<< a >>) = {a}
  BY <1>1, Kinds1
<1>3. IsSeq(<< a >>)
  BY <1>2, InSeqIsSeq
<1>4. ToSet(ListIn(nss, << a >>)) = [res : ToSet(<< a >>), ns : ToSet(nss)]
  BY <1>2, <1>3, ListInSet
<1> QED
  BY <1>2, <1>3, <1>4, ListInSet

LEMMA ListIn3 ==
  ASSUME NEW nss, IsSeq(nss), IsInjective(nss), NEW a, NEW b, NEW c, a # b, b # c, a # c
  PROVE  /\ IsSeq(ListIn(nss, << a, b, c >>)) /\ IsInjective(ListIn(nss, << a, b, c >>))
         /\ ToSet(ListIn(nss, << a, b, c >>)) = [res : {a, b, c}, ns : ToSet(nss)]
<1> DEFINE k == << a, b, c >>
<1>1. a \in {a, b, c} /\ b \in {a, b, c} /\ c \in {a, b, c}
  OBVIOUS
<1>2. k \in Seq({a, b, c}) /\ Len(k) = 3 /\ IsInjective(k) /\ ToSet(k) = {a, b, c}
  BY <1>1, Kinds3
<1>3. IsSeq(k)
  BY <1>2, InSeqIsSeq
<1> HIDE DEF k
<1>4. ToSet(ListIn(nss, k)) = [res : ToSet(k), ns : ToSet(nss)]
  BY <1>2, <1>3, ListInSet
<1>5. IsSeq(ListIn(nss, k)) /\ IsInjective(ListIn(nss, k))
  BY <1>2, <1>3, ListInSet
<1> QED
  BY <1>2, <1>4, <1>5 DEF k

(* Every collector makes each of its calls once. *)
LEMMA CallsFacts ==
  ASSUME cfg \in Configs, NEW col \in Ids
  PROVE  LET C == CallsOf(col)
         IN  /\ IsSeq(C) /\ IsInjective(C)
             /\ \A call \in ToSet(C) : call = [res |-> call.res, ns |-> call.ns] /\ MadeBy(col, call)
             /\ \A res, ns : MadeBy(col, [res |-> res, ns |-> ns]) =>
                               [res |-> res, ns |-> ns] \in ToSet(C)
<1> DEFINE C == CallsOf(col)
           nss == namespaces(cfg.namespaces)
           everywhere == << All >>
<1>1. IsSeq(nss) /\ IsInjective(nss)
  BY ScopeFacts
<1>2. IsSeq(everywhere) /\ IsInjective(everywhere) /\ ToSet(everywhere) = {All}
  <2>1. All \in {All}
    OBVIOUS
  <2>2. << All >> \in Seq({All}) /\ IsInjective(<< All >>) /\ ToSet(<< All >>) = {All}
    BY <2>1, Kinds1
  <2> QED BY <2>2, InSeqIsSeq
<1>3. Scope = ToSet(nss)
  BY DEF Scope
<1> HIDE DEF nss, everywhere
<1>4. CASE col = "provenance"
  <2> DEFINE s == ListIn(nss, << "Deployment", "StatefulSet", "DaemonSet" >>)
             t == ListIn(everywhere, << "webhook" >>)
  <2>1. C = s \o t
    BY <1>4 DEF CallsOf, nss, everywhere
  <2>2. /\ IsSeq(s) /\ IsInjective(s) /\ ToSet(s) = [res : Workloads, ns : Scope]
        /\ IsSeq(t) /\ IsInjective(t) /\ ToSet(t) = [res : {"webhook"}, ns : {All}]
    <3>1. IsSeq(s) /\ IsInjective(s) /\ ToSet(s) = [res : Workloads, ns : Scope]
      <4>1. /\ "Deployment" # "StatefulSet" /\ "StatefulSet" # "DaemonSet"
            /\ "Deployment" # "DaemonSet"
        OBVIOUS
      <4>2. /\ IsSeq(s) /\ IsInjective(s)
            /\ ToSet(s) = [res : {"Deployment", "StatefulSet", "DaemonSet"}, ns : ToSet(nss)]
        BY <1>1, <4>1, ListIn3
      <4> QED BY <1>3, <4>2 DEF Workloads
    <3>2. IsSeq(t) /\ IsInjective(t) /\ ToSet(t) = [res : {"webhook"}, ns : {All}]
      BY <1>2, ListIn1
    <3> QED BY <3>1, <3>2
  <2> HIDE DEF s, t, C
  <2>3. ToSet(s) \cap ToSet(t) = {}
    BY <2>2 DEF Workloads
  <2>4. IsSeq(C) /\ IsInjective(C) /\ ToSet(C) = ToSet(s) \cup ToSet(t)
    BY <2>1, <2>2, <2>3, ConcatFacts, ConcatSet
  <2> QED BY <1>4, <2>2, <2>4 DEF MadeBy, C
<1>5. CASE col = "rbacposture"
  <2>1. C = ListIn(everywhere, << "clusterrole", "clusterrolebinding", "serviceaccount" >>)
    BY <1>5 DEF CallsOf, everywhere
  <2>2. /\ IsSeq(C) /\ IsInjective(C)
        /\ ToSet(C) = [res : {"clusterrole", "clusterrolebinding", "serviceaccount"}, ns : {All}]
    <3>1. /\ "clusterrole" # "clusterrolebinding" /\ "clusterrolebinding" # "serviceaccount"
          /\ "clusterrole" # "serviceaccount"
      OBVIOUS
    <3> DEFINE s == ListIn(everywhere, << "clusterrole", "clusterrolebinding", "serviceaccount" >>)
    <3>2. /\ IsSeq(s) /\ IsInjective(s)
          /\ ToSet(s) = [res : {"clusterrole", "clusterrolebinding", "serviceaccount"},
                          ns : ToSet(everywhere)]
      BY <1>2, <3>1, ListIn3
    <3> HIDE DEF s, C
    <3>3. C = s
      BY <2>1 DEF s
    <3> QED BY <1>2, <3>2, <3>3
  <2> HIDE DEF C
  <2>3. \A call \in ToSet(C) : call = [res |-> call.res, ns |-> call.ns] /\ MadeBy(col, call)
    BY <1>5, <2>2 DEF MadeBy
  <2>4. \A res, ns : MadeBy(col, [res |-> res, ns |-> ns]) => [res |-> res, ns |-> ns] \in ToSet(C)
    BY <1>5, <2>2 DEF MadeBy
  <2> QED BY <2>2, <2>3, <2>4 DEF C
<1>6. CASE col = "certlifecycle"
  <2> DEFINE s == ListIn(nss, << "certificate" >>)
             t == ListIn(nss, << "Issuer" >>)
             u == ListIn(everywhere, << "ClusterIssuer" >>)
  <2>1. C = (s \o t) \o u
    BY <1>6 DEF CallsOf, nss, everywhere
  <2>2. /\ IsSeq(s) /\ IsInjective(s) /\ ToSet(s) = [res : {"certificate"}, ns : Scope]
        /\ IsSeq(t) /\ IsInjective(t) /\ ToSet(t) = [res : {"Issuer"}, ns : Scope]
        /\ IsSeq(u) /\ IsInjective(u) /\ ToSet(u) = [res : {"ClusterIssuer"}, ns : {All}]
    BY <1>1, <1>2, <1>3, ListIn1
  <2> HIDE DEF s, t, u, C
  <2>3. ToSet(s) \cap ToSet(t) = {} /\ (ToSet(s) \cup ToSet(t)) \cap ToSet(u) = {}
    BY <2>2
  <2>4. IsSeq(s \o t) /\ IsInjective(s \o t) /\ ToSet(s \o t) = ToSet(s) \cup ToSet(t)
    BY <2>2, <2>3, ConcatFacts, ConcatSet
  <2>5. IsSeq(C) /\ IsInjective(C) /\ ToSet(C) = (ToSet(s) \cup ToSet(t)) \cup ToSet(u)
    BY <2>1, <2>2, <2>3, <2>4, ConcatFacts, ConcatSet
  <2> QED BY <1>6, <2>2, <2>5 DEF MadeBy, C
<1>7. CASE col = "tlsscan"
  <2>1. C = ListIn(Endpoints, << "endpoint" >>)
    BY <1>7 DEF CallsOf
  <2>2. IsSeq(C) /\ IsInjective(C) /\ ToSet(C) = [res : {"endpoint"}, ns : ToSet(Endpoints)]
    BY <2>1, EndpointsFacts, ListIn1
  <2> HIDE DEF C
  <2>3. \A call \in ToSet(C) : call = [res |-> call.res, ns |-> call.ns] /\ MadeBy(col, call)
    BY <1>7, <2>2 DEF MadeBy
  <2>4. \A res, ns : MadeBy(col, [res |-> res, ns |-> ns]) => [res |-> res, ns |-> ns] \in ToSet(C)
    BY <1>7, <2>2 DEF MadeBy
  <2> QED BY <2>2, <2>3, <2>4 DEF C
<1> QED
  BY <1>4, <1>5, <1>6, <1>7 DEF Ids
-----------------------------------------------------------------------------
(* What the model's constants allow. *)
LEMMA ObjectFacts ==
  ASSUME cfg \in Configs, NEW o \in cfg.objects
  PROVE  /\ o \in Objects
         /\ o = [res |-> o.res, ns |-> o.ns, name |-> o.name]
         /\ o.res \in Namespaced \cup ClusterScoped \cup {"endpoint"}
         /\ o.ns # All
         /\ o.res \in ClusterScoped => o.ns = ""
         /\ o.res = "endpoint" => o.name = ""
         /\ Absent \notin Contents[o]
<1>1. o \in Objects
  BY CollectorsAssumption
<1>2. o \in [res : Namespaced \cup ClusterScoped \cup {"endpoint"}, ns : STRING, name : STRING]
  BY <1>1, ObjectsAssumption
<1> QED
  BY <1>1, <1>2, ObjectsAssumption

(* What a collector asks for is what it covers, *)
LEMMA SelectedIsCovered ==
  ASSUME cfg \in Configs, NEW col \in Ids, NEW call, MadeBy(col, call),
         NEW o \in cfg.objects, Selects(call, o)
  PROVE  Covers(col, o) /\ InScope(o)
<1>1. o.res = call.res /\ call.ns \in {All, o.ns}
  BY DEF Selects
<1>2. Covers(col, o)
  BY <1>1 DEF MadeBy, Covers, Workloads
<1>3. InScope(o)
  <2>1. CASE call.res \in Workloads \cup {"certificate", "Issuer"}
    <3>1. call.ns \in Scope
      BY <2>1 DEF MadeBy, Workloads
    <3> QED BY <1>1, <3>1, ScopeFacts DEF InScope
  <2>2. CASE call.res \notin Workloads \cup {"certificate", "Issuer"}
    BY <1>1, <2>2 DEF InScope
  <2> QED BY <2>1, <2>2
<1> QED BY <1>2, <1>3

(* and the other way round. *)
LEMMA CoveredIsSelected ==
  ASSUME cfg \in Configs, NEW col \in Ids, NEW o \in cfg.objects, Covers(col, o), InScope(o)
  PROVE  \E m \in DOMAIN CallsOf(col) : Selects(CallsOf(col)[m], o)
<1>1. \E n : MadeBy(col, [res |-> o.res, ns |-> n]) /\ n \in {All, o.ns}
  <2>1. CASE o.res \in Workloads \cup {"certificate", "Issuer"}
    <3>1. PICK n \in Scope : n \in {All, o.ns}
      BY <2>1, ScopeFacts DEF InScope
    <3>2. MadeBy(col, [res |-> o.res, ns |-> n])
      BY <2>1 DEF Covers, MadeBy, Workloads
    <3> QED BY <3>1, <3>2
  <2>2. CASE o.res = "endpoint"
    <3>1. o.ns \in ToSet(Endpoints)
      BY <2>2, EndpointsFacts
    <3>2. MadeBy(col, [res |-> o.res, ns |-> o.ns])
      BY <2>2, <3>1 DEF Covers, MadeBy, Workloads
    <3> QED BY <3>2
  <2>3. CASE o.res \notin Workloads \cup {"certificate", "Issuer", "endpoint"}
    <3>1. MadeBy(col, [res |-> o.res, ns |-> All])
      BY <2>3 DEF Covers, MadeBy, Workloads
    <3> QED BY <3>1
  <2> QED BY <2>1, <2>2, <2>3
<1>2. PICK n : MadeBy(col, [res |-> o.res, ns |-> n]) /\ n \in {All, o.ns}
  BY <1>1
<1>3. [res |-> o.res, ns |-> n] \in ToSet(CallsOf(col))
  BY <1>2, CallsFacts
<1> QED
  BY <1>2, <1>3 DEF ToSet, Selects
-----------------------------------------------------------------------------
(* What is known of the cluster, *)
WorldType ==
  /\ cfg \in Configs
  /\ now \in Int
  /\ DOMAIN world = cfg.objects
  /\ \A o \in cfg.objects : world[o] \in Contents[o] \cup {Absent}

Summarised == {"webhook", "serviceaccount"}

(* the record of an object that has one of its own, *)
RecordOf(o) ==
  CASE o.res \in Workloads -> workloadRecord(o, world[o])
    [] o.res = "clusterrole" -> roleRecord(o, world[o])
    [] o.res = "clusterrolebinding" -> bindingRecord(o, world[o])
    [] o.res = "certificate" -> certRecord(o, world[o])
    [] o.res \in {"Issuer", "ClusterIssuer"} -> issuerRecord(o, world[o])
    [] o.res = "endpoint" -> scan(o.ns, world[o])

(* and its target. *)
TargetOf(o) ==
  CASE o.res \in Workloads -> << "workload/image", Qualified(o) >>
    [] o.res = "clusterrole" -> << "rbac/cluster-role", << o.name >> >>
    [] o.res = "clusterrolebinding" -> << "rbac/binding", << o.name >> >>
    [] o.res = "certificate" -> << "cert-manager/certificate", Qualified(o) >>
    [] o.res \in {"Issuer", "ClusterIssuer"} -> << "cert-manager/issuer", issuerName(o) >>
    [] o.res = "endpoint" -> << "tls/endpoint", << o.ns >> >>

(* Whole days are cut towards zero. *)
LEMMA DaysFacts ==
  ASSUME now \in Int, NEW t \in Int
  PROVE  DaysRight(Days(t), now, t)
<1>1. CASE t >= now
  <2>1. Days(t) = (t - now) \div 2
    BY <1>1 DEF Days
  <2> QED BY <1>1, <2>1 DEF DaysRight
<1>2. CASE t < now
  <2>1. Days(t) = -((now - t) \div 2)
    BY <1>2 DEF Days
  <2> QED BY <1>2, <2>1 DEF DaysRight
<1> QED BY <1>1, <1>2

(* A role is recorded if it lets someone read secrets or has a wildcard. *)
LEMMA RoleFacts ==
  ASSUME NEW o, NEW c
  PROVE  /\ analyzeRole(o, c).secretsRead
              <=> \E v \in {"get", "list", "watch"} : Permits(c, v, "secrets")
         /\ Privileged(analyzeRole(o, c)) <=> Worrying(c)
<1>1. \A r : readsSecrets(r) <=> \E v \in {"get", "list", "watch"} :
                /\ {v, "*"} \cap r.verbs # {}
                /\ {"secrets", "*"} \cap r.resources # {}
  BY DEF readsSecrets
<1>2. (\E r \in c.rules : readsSecrets(r))
        <=> \E v \in {"get", "list", "watch"} : Permits(c, v, "secrets")
  BY <1>1 DEF Permits
<1>3. analyzeRole(o, c).secretsRead <=> \E r \in c.rules : readsSecrets(r)
  BY DEF analyzeRole
<1>4. Privileged(analyzeRole(o, c))
        <=> \/ \E r \in c.rules : "*" \in r.verbs
            \/ \E r \in c.rules : "*" \in r.resources
            \/ \E r \in c.rules : "*" \in r.apiGroups
            \/ \E r \in c.rules : readsSecrets(r)
  BY DEF analyzeRole, Privileged
<1> QED
  BY <1>2, <1>3, <1>4 DEF Worrying

(* A record is typed, is of its object and says what it is. *)
Tells(r, o, c) ==
  /\ Target(r) = TargetOf(o)
  /\ r.at = now
  /\ r.failed \in BOOLEAN
  /\ Says(r, o, c)
  /\ o.res \in Workloads => r.obs.kind = o.res

LEMMA RecordOfFacts ==
  ASSUME WorldType, NEW o \in cfg.objects, o.res \notin Summarised, Noteworthy(o, world[o])
  PROVE  Tells(RecordOf(o), o, world[o])
<1> DEFINE c == world[o]
           r == RecordOf(o)
<1>1. /\ o.res \in Namespaced \cup ClusterScoped \cup {"endpoint"}
      /\ o \in Objects
  BY ObjectFacts DEF WorldType
<1>2. c \in Contents[o] \/ c = Absent
  BY DEF WorldType
<1>3. o.res # "endpoint" => c \in Contents[o]
  BY <1>2 DEF Noteworthy
<1>4. CASE o.res \in Workloads
  <2>1. r = workloadRecord(o, c)
    BY <1>4 DEF RecordOf, Workloads
  <2>2. c.containers \in Seq(ToSet(c.containers))
    BY <1>1, <1>3, <1>4, ObjectsAssumption DEF Workloads
  <2>3. /\ r.type = "workload/image" /\ r.name = Qualified(o) /\ r.failed = FALSE /\ r.at = now
        /\ r.obs.kind = o.res
        /\ r.obs.allDigestPinned <=> \A i \in DOMAIN c.containers : c.containers[i].digest
        /\ r.obs.images = [i \in DOMAIN c.containers |->
                             [registry |-> registryOf(c.containers[i]),
                              pinned |-> c.containers[i].digest]]
    <3> DEFINE images == [i \in DOMAIN c.containers |->
                            [registry |-> registryOf(c.containers[i]),
                             pinned |-> c.containers[i].digest]]
               pinned == \A i \in DOMAIN c.containers : c.containers[i].digest
    <3>1. r = [type |-> "workload/image", name |-> Qualified(o), failed |-> FALSE, at |-> now,
               obs |-> [kind |-> o.res, images |-> images, allDigestPinned |-> pinned]]
      BY <2>1 DEF workloadRecord, Observed
    <3> HIDE DEF images, pinned, r
    <3>2. /\ r.type = "workload/image" /\ r.name = Qualified(o) /\ r.failed = FALSE /\ r.at = now
          /\ r.obs.kind = o.res
          /\ r.obs.images = images
      BY <3>1
    <3>3. r.obs.allDigestPinned <=> pinned
      BY <3>1
    <3> QED BY <3>2, <3>3 DEF images, pinned
  <2>4. Len(r.obs.images) = Len(c.containers)
    <3> DEFINE f == [i \in DOMAIN c.containers |->
                       [registry |-> registryOf(c.containers[i]),
                        pinned |-> c.containers[i].digest]]
    <3>1. Len(c.containers) \in Nat /\ DOMAIN c.containers = 1..Len(c.containers)
      BY <2>2, LenProperties
    <3>2. f \in [1..Len(c.containers) -> {f[i] : i \in DOMAIN c.containers}]
      BY <3>1
    <3>3. Len(f) = Len(c.containers)
      <4> DEFINE S == {f[i] : i \in DOMAIN c.containers}
      <4>1. f \in [1..Len(c.containers) -> S]
        BY <3>2
      <4> HIDE DEF f, S
      <4> QED BY <3>1, <4>1, FunctionIsSeq
    <3> QED BY <2>3, <3>3
  <2>5. Says(r, o, c)
    <3> HIDE DEF r, c
    <3>1. r.obs.allDigestPinned <=> \A i \in DOMAIN c.containers : c.containers[i].digest
      BY <2>3
    <3>2. /\ r.type = "workload/image" /\ r.name = << o.ns, o.name >> /\ r.obs.kind = o.res
          /\ Len(r.obs.images) = Len(c.containers)
      BY <2>3, <2>4 DEF Qualified
    <3> QED BY <1>4, <3>1, <3>2 DEF Says, Workloads
  <2>6. TargetOf(o) = << "workload/image", Qualified(o) >>
    BY <1>4 DEF TargetOf, Workloads
  <2> HIDE DEF r, c
  <2>7. Tells(r, o, c)
    BY <1>4, <2>3, <2>5, <2>6 DEF Tells, Target
  <2> QED BY <2>7 DEF r, c
<1>5. CASE o.res = "clusterrole"
  <2>1. r = roleRecord(o, c)
    BY <1>5 DEF RecordOf, Workloads
  <2>2. /\ r.type = "rbac/cluster-role" /\ r.name = << o.name >> /\ r.failed = FALSE /\ r.at = now
        /\ r.obs = analyzeRole(o, c)
    BY <2>1 DEF roleRecord, Observed
  <2>3. TargetOf(o) = << "rbac/cluster-role", << o.name >> >>
    BY <1>5 DEF TargetOf, Workloads
  <2> HIDE DEF r, c
  <2>4. Says(r, o, c)
    BY <1>5, <2>2, RoleFacts DEF Says, Workloads
  <2>5. Tells(r, o, c)
    BY <1>5, <2>2, <2>3, <2>4 DEF Tells, Target, Workloads
  <2> QED BY <2>5 DEF r, c
<1>6. CASE o.res = "clusterrolebinding"
  <2>1. r = bindingRecord(o, c)
    BY <1>6 DEF RecordOf, Workloads
  <2>2. /\ r.type = "rbac/binding" /\ r.name = << o.name >> /\ r.failed = FALSE /\ r.at = now
        /\ r.obs = c
    BY <2>1 DEF bindingRecord, Observed
  <2>3. TargetOf(o) = << "rbac/binding", << o.name >> >>
    BY <1>6 DEF TargetOf, Workloads
  <2> HIDE DEF r, c
  <2>4. Says(r, o, c)
    BY <1>6, <2>2 DEF Says, Workloads
  <2>5. Tells(r, o, c)
    BY <1>6, <2>2, <2>3, <2>4 DEF Tells, Target, Workloads
  <2> QED BY <2>5 DEF r, c
<1>7. CASE o.res = "certificate"
  <2>1. r = certRecord(o, c)
    BY <1>7 DEF RecordOf, Workloads
  <2>2. /\ r.type = "cert-manager/certificate" /\ r.name = Qualified(o)
        /\ r.failed = FALSE /\ r.at = now
        /\ r.obs.notAfter = c.notAfter
        /\ r.obs.days = [i \in DOMAIN c.notAfter |-> Days(c.notAfter[i])]
    BY <2>1 DEF certRecord, Observed
  <2>3. TargetOf(o) = << "cert-manager/certificate", Qualified(o) >>
    BY <1>7 DEF TargetOf, Workloads
  <2>4. c.notAfter \in Seq(Int)
    BY <1>1, <1>3, <1>7, ObjectsAssumption
  <2>5. \A i \in DOMAIN c.notAfter : c.notAfter[i] \in Int
    BY <2>4, LenProperties
  <2> HIDE DEF r, c
  <2>6. \A i \in DOMAIN c.notAfter : DaysRight(r.obs.days[i], r.at, c.notAfter[i])
    BY <2>2, <2>5, DaysFacts DEF WorldType
  <2>7. Says(r, o, c)
    BY <1>7, <2>2, <2>6 DEF Says, Workloads, Qualified
  <2>8. Tells(r, o, c)
    BY <1>7, <2>2, <2>3, <2>7 DEF Tells, Target, Workloads
  <2> QED BY <2>8 DEF r, c
<1>8. CASE o.res \in {"Issuer", "ClusterIssuer"}
  <2>1. r = issuerRecord(o, c)
    BY <1>8 DEF RecordOf, Workloads
  <2>2. /\ r.type = "cert-manager/issuer" /\ r.name = issuerName(o)
        /\ r.failed = FALSE /\ r.at = now
        /\ r.obs.scope = o.res
    BY <2>1 DEF issuerRecord, Observed
  <2>3. TargetOf(o) = << "cert-manager/issuer", issuerName(o) >>
    BY <1>8 DEF TargetOf, Workloads
  <2>4. Last(issuerName(o)) = o.name
    BY <1>8 DEF Last, issuerName, Qualified
  <2> HIDE DEF r, c
  <2>5. Says(r, o, c)
    BY <1>8, <2>2, <2>4 DEF Says, Workloads
  <2>6. Tells(r, o, c)
    BY <1>8, <2>2, <2>3, <2>5 DEF Tells, Target, Workloads
  <2> QED BY <2>6 DEF r, c
<1>9. CASE o.res = "endpoint"
  <2>1. r = scan(o.ns, c)
    BY <1>9 DEF RecordOf, Workloads
  <2>2. TargetOf(o) = << "tls/endpoint", << o.ns >> >>
    BY <1>9 DEF TargetOf, Workloads
  <2>3. /\ r.type = "tls/endpoint" /\ r.name = << o.ns >> /\ r.at = now
        /\ r.failed = (c = Absent)
        /\ c # Absent => r.obs.notAfter = c.expiry /\ r.obs.days = Days(c.expiry)
    <3> HIDE DEF r, c
    <3>1. CASE c = Absent
      <4>1. r = [type |-> "tls/endpoint", name |-> << o.ns >>, failed |-> TRUE, at |-> now,
                 obs |-> "error"]
        BY <2>1, <3>1 DEF scan
      <4> QED BY <3>1, <4>1
    <3>2. CASE c # Absent
      <4> DEFINE obs == [version |-> c.version, minTls12Enforced |-> c.version >= 12,
                         spec |-> c.spec, notAfter |-> c.expiry, days |-> Days(c.expiry),
                         hostnameMatches |-> c.hostname,
                         chainTrusted |-> c.trusted /\ c.hostname]
      <4>1. r = [type |-> "tls/endpoint", name |-> << o.ns >>, failed |-> FALSE, at |-> now,
                 obs |-> obs]
        BY <2>1, <3>2 DEF scan, Observed
      <4>2. obs.notAfter = c.expiry /\ obs.days = Days(c.expiry)
        OBVIOUS
      <4> HIDE DEF obs
      <4> QED BY <3>2, <4>1, <4>2
    <3> QED BY <3>1, <3>2
  <2>4. c # Absent => c.expiry \in Int
    BY <1>1, <1>2, <1>9, ObjectsAssumption
  <2> HIDE DEF r, c
  <2>5. c # Absent => DaysRight(r.obs.days, r.at, c.expiry)
    BY <2>3, <2>4, DaysFacts DEF WorldType
  <2>6. Says(r, o, c)
    BY <1>9, <2>3, <2>5 DEF Says, Workloads
  <2>7. Tells(r, o, c)
    BY <1>9, <2>2, <2>3, <2>6 DEF Tells, Target, Workloads
  <2> QED BY <2>7 DEF r, c
<1> QED
  BY <1>1, <1>4, <1>5, <1>6, <1>7, <1>8, <1>9 DEF Summarised, Namespaced, ClusterScoped
-----------------------------------------------------------------------------
(* rs are the records of the objects of I, one each. *)
Recorded(rs, I) ==
  /\ IsSeq(rs)
  /\ \E s \in [DOMAIN rs -> I] :
       /\ IsInjective(s)
       /\ \A i \in DOMAIN rs : rs[i] = RecordOf(s[i])
       /\ \A o \in I : \E i \in DOMAIN rs : s[i] = o

LEMMA EachRecorded ==
  ASSUME NEW I, IsFiniteSet(I),
         NEW rs, rs = [i \in DOMAIN SetToSeq(I) |-> RecordOf(SetToSeq(I)[i])]
  PROVE  Recorded(rs, I)
<1> DEFINE s == SetToSeq(I)
<1>1. /\ s \in Seq(I) /\ DOMAIN s = 1..Len(s) /\ Len(s) \in Nat
      /\ IsInjective(s)
      /\ \A x \in I : \E i \in DOMAIN s : s[i] = x
  BY SetToSeqFacts
<1>2. rs = [i \in DOMAIN s |-> RecordOf(s[i])]
  OBVIOUS
<1> HIDE DEF s
<1>3. s \in [DOMAIN rs -> I]
  BY <1>1, <1>2, LenProperties
<1>4. IsSeq(rs)
  <2>1. rs \in [1..Len(s) -> ToSet(rs)]
    BY <1>1, <1>2 DEF ToSet
  <2> QED BY <1>1, <2>1, FunctionIsSeq DEF IsSeq
<1> QED
  BY <1>1, <1>2, <1>3, <1>4 DEF Recorded

(* The objects a call finds worth a record. *)
Found(call) == {o \in cfg.objects : Selects(call, o) /\ Noteworthy(o, world[o])}

(* A call's results are recorded one by one, except for the two summaries. *)
LEMMA CallRecords ==
  ASSUME WorldType, NEW col \in Ids, NEW call, MadeBy(col, call), call.res \notin Summarised
  PROVE  Recorded(RecordsOf(call), Found(call))
<1> DEFINE I == Found(call)
           items == Items(call)
           rs == RecordsOf(call)
<1>1. IsFiniteSet(cfg.objects) /\ cfg \in Configs
  BY CollectorsAssumption DEF WorldType
<1>2. I \subseteq cfg.objects /\ \A o \in I : o.res = call.res
  BY DEF Found, Selects
<1>3. IsFiniteSet(I)
  BY <1>1, <1>2, FS_Subset
<1>4. items \subseteq cfg.objects /\ \A o \in items : o.res = call.res
  BY DEF Items, Selects
<1>6. \A i \in DOMAIN SetToSeq(I) : SetToSeq(I)[i] \in I
  BY <1>3, SetToSeqFacts, LenProperties
<1>5. ASSUME call.res \in Workloads PROVE Recorded(rs, I)
  <2>1. rs = Each(workloadRecord, items)
    BY <1>5 DEF RecordsOf, Workloads
  <2>2. items = I
    BY <1>5 DEF Items, Found, Noteworthy, Selects, Workloads
  <2>3. rs = [i \in DOMAIN SetToSeq(I) |-> workloadRecord(SetToSeq(I)[i], world[SetToSeq(I)[i]])]
    BY <2>1, <2>2 DEF Each
  <2>4. \A o \in I : workloadRecord(o, world[o]) = RecordOf(o)
    BY <1>2, <1>5 DEF RecordOf, Workloads
  <2> HIDE DEF I, rs
  <2>5. rs = [i \in DOMAIN SetToSeq(I) |-> RecordOf(SetToSeq(I)[i])]
    BY <1>6, <2>3, <2>4
  <2> QED BY <1>3, <2>5, EachRecorded
<1>7. ASSUME call.res = "clusterrole" PROVE Recorded(rs, I)
  <2>1. rs = Each(roleRecord, {o \in items : Privileged(analyzeRole(o, world[o]))})
    BY <1>7 DEF RecordsOf, Workloads
  <2>2. {o \in items : Privileged(analyzeRole(o, world[o]))} = I
    BY <1>7, RoleFacts DEF Items, Found, Noteworthy, Selects
  <2>3. rs = [i \in DOMAIN SetToSeq(I) |-> roleRecord(SetToSeq(I)[i], world[SetToSeq(I)[i]])]
    BY <2>1, <2>2 DEF Each
  <2>4. \A o \in I : roleRecord(o, world[o]) = RecordOf(o)
    BY <1>2, <1>7 DEF RecordOf, Workloads
  <2> HIDE DEF I, rs
  <2>5. rs = [i \in DOMAIN SetToSeq(I) |-> RecordOf(SetToSeq(I)[i])]
    BY <1>6, <2>3, <2>4
  <2> QED BY <1>3, <2>5, EachRecorded
<1>8. ASSUME call.res = "clusterrolebinding" PROVE Recorded(rs, I)
  <2>1. rs = Each(bindingRecord, {o \in items : world[o].roleRef = "cluster-admin"})
    BY <1>8 DEF RecordsOf, Workloads
  <2>2. {o \in items : world[o].roleRef = "cluster-admin"} = I
    BY <1>8 DEF Items, Found, Noteworthy, Selects
  <2>3. rs = [i \in DOMAIN SetToSeq(I) |-> bindingRecord(SetToSeq(I)[i], world[SetToSeq(I)[i]])]
    BY <2>1, <2>2 DEF Each
  <2>4. \A o \in I : bindingRecord(o, world[o]) = RecordOf(o)
    BY <1>2, <1>8 DEF RecordOf, Workloads
  <2> HIDE DEF I, rs
  <2>5. rs = [i \in DOMAIN SetToSeq(I) |-> RecordOf(SetToSeq(I)[i])]
    BY <1>6, <2>3, <2>4
  <2> QED BY <1>3, <2>5, EachRecorded
<1>9. ASSUME call.res = "certificate" PROVE Recorded(rs, I)
  <2>1. rs = Each(certRecord, items)
    BY <1>9 DEF RecordsOf, Workloads
  <2>2. items = I
    BY <1>9 DEF Items, Found, Noteworthy, Selects
  <2>3. rs = [i \in DOMAIN SetToSeq(I) |-> certRecord(SetToSeq(I)[i], world[SetToSeq(I)[i]])]
    BY <2>1, <2>2 DEF Each
  <2>4. \A o \in I : certRecord(o, world[o]) = RecordOf(o)
    BY <1>2, <1>9 DEF RecordOf, Workloads
  <2> HIDE DEF I, rs
  <2>5. rs = [i \in DOMAIN SetToSeq(I) |-> RecordOf(SetToSeq(I)[i])]
    BY <1>6, <2>3, <2>4
  <2> QED BY <1>3, <2>5, EachRecorded
<1>10. ASSUME call.res \in {"Issuer", "ClusterIssuer"} PROVE Recorded(rs, I)
  <2>1. rs = Each(issuerRecord, items)
    BY <1>10 DEF RecordsOf, Workloads
  <2>2. items = I
    BY <1>10 DEF Items, Found, Noteworthy, Selects
  <2>3. rs = [i \in DOMAIN SetToSeq(I) |-> issuerRecord(SetToSeq(I)[i], world[SetToSeq(I)[i]])]
    BY <2>1, <2>2 DEF Each
  <2>4. \A o \in I : issuerRecord(o, world[o]) = RecordOf(o)
    BY <1>2, <1>10 DEF RecordOf, Workloads
  <2> HIDE DEF I, rs
  <2>5. rs = [i \in DOMAIN SetToSeq(I) |-> RecordOf(SetToSeq(I)[i])]
    BY <1>6, <2>3, <2>4
  <2> QED BY <1>3, <2>5, EachRecorded
<1>11. ASSUME call.res = "endpoint" PROVE Recorded(rs, I)
  <2> DEFINE chosen == CHOOSE o \in cfg.objects : Selects(call, o)
  <2>1. rs = << scan(call.ns, world[chosen]) >>
    BY <1>11 DEF RecordsOf, Workloads
  <2>2. call.ns \in {o.ns : o \in {e \in cfg.objects : e.res = "endpoint"}}
    BY <1>1, <1>11, EndpointsFacts DEF MadeBy, Workloads
  <2>3. PICK e \in cfg.objects : e.res = "endpoint" /\ e.ns = call.ns
    BY <2>2
  <2>4. Selects(call, e)
    BY <1>11, <2>3 DEF Selects
  <2>5. chosen \in cfg.objects /\ Selects(call, chosen)
    BY <2>4
  <2>6. \A o \in cfg.objects : Selects(call, o) => o = e
    <3> SUFFICES ASSUME NEW o \in cfg.objects, Selects(call, o) PROVE o = e
      OBVIOUS
    <3>1. call.ns # All
      BY <1>1, <2>3, ObjectFacts
    <3>2. o.res = "endpoint" /\ o.ns = call.ns
      BY <1>11, <3>1 DEF Selects
    <3>3. o = [res |-> "endpoint", ns |-> call.ns, name |-> ""]
      BY <1>1, <3>2, ObjectFacts
    <3>4. e = [res |-> "endpoint", ns |-> call.ns, name |-> ""]
      BY <1>1, <2>3, ObjectFacts
    <3> QED BY <3>3, <3>4
  <2>7. chosen = e
    BY <2>5, <2>6
  <2>8. I = {e}
    BY <2>3, <2>4, <2>6 DEF Found, Noteworthy
  <2>9. RecordOf(e) = scan(e.ns, world[e])
    BY <2>3 DEF RecordOf, Workloads
  <2> HIDE DEF chosen, I, rs
  <2>10. rs = << RecordOf(e) >>
    BY <2>1, <2>3, <2>7, <2>9
  <2> DEFINE s == << e >>
  <2>11. DOMAIN rs = {1} /\ rs[1] = RecordOf(e) /\ DOMAIN s = {1} /\ s[1] = e
    BY <2>10
  <2>12. s \in [DOMAIN rs -> I]
    BY <2>8, <2>11
  <2>13. IsSeq(rs)
    <3>1. RecordOf(e) \in {RecordOf(e)}
      OBVIOUS
    <3>2. rs \in Seq({RecordOf(e)})
      BY <2>10, <3>1, Kinds1
    <3> QED BY <3>2, InSeqIsSeq
  <2> HIDE DEF s
  <2> QED BY <2>8, <2>11, <2>12, <2>13 DEF Recorded, IsInjective
<1> QED
  BY <1>5, <1>7, <1>8, <1>9, <1>10, <1>11 DEF MadeBy, Summarised
-----------------------------------------------------------------------------
(* Each object has had its present contents since the collection began. *)
HeldType ==
  /\ DOMAIN held = cfg.objects
  /\ \A o \in cfg.objects : world[o] \in held[o]

(* r summarises what was there of a kind. *)
Summarises(r, res) ==
  /\ r.name = << "cluster-wide" >>
  /\ \/ /\ res = "webhook" /\ r.type = "admission/policy"
        /\ \A n \in r.obs.hooks : \E o \in cfg.objects :
             o.res = "webhook" /\ o.name = n /\ held[o] # {Absent}
     \/ /\ res = "serviceaccount" /\ r.type = "rbac/service-account" /\ r.obs.total \in Nat
        /\ \A n \in DOMAIN r.obs.perNamespace : \E o \in cfg.objects :
             o.res = "serviceaccount" /\ o.ns = n /\ held[o] # {Absent}

(* r is of an object that the call selects, as it was at some time. *)
FoundBy(call, r) ==
  /\ call.res \notin Summarised
  /\ \E o \in cfg.objects : \E c \in held[o] :
       Selects(call, o) /\ Noteworthy(o, c) /\ Tells(r, o, c)

Made(call, r) ==
  /\ r.at = now /\ r.failed \in BOOLEAN
  /\ Summarises(r, call.res) \/ FoundBy(call, r)

(* The two summaries. *)
LEMMA SummaryFacts ==
  ASSUME WorldType, HeldType, NEW col \in Ids, NEW call, MadeBy(col, call),
         call.res \in Summarised
  PROVE  \E r : /\ RecordsOf(call) = << r >>
                /\ r.at = now /\ r.failed = FALSE
                /\ Summarises(r, call.res)
                /\ \A o \in cfg.objects : Selects(call, o) /\ Noteworthy(o, world[o])
                                            => Says(r, o, world[o])
<1> DEFINE items == Items(call)
<1>1. \A o \in items : /\ o \in cfg.objects /\ o.res = call.res
                       /\ world[o] # Absent /\ held[o] # {Absent}
  BY DEF Items, Selects, HeldType
<1>2. \A o \in cfg.objects : Selects(call, o) /\ Noteworthy(o, world[o]) => o \in items
  BY DEF Items, Noteworthy, Selects, Summarised
<1>3. CASE call.res = "webhook"
  <2> DEFINE r == admissionRecord(items)
             engines == UNION {world[h].engines : h \in items}
  <2>1. RecordsOf(call) = << r >>
    BY <1>3 DEF RecordsOf, Workloads
  <2>2. /\ r.at = now /\ r.failed = FALSE
        /\ r.type = "admission/policy" /\ r.name = << "cluster-wide" >>
        /\ r.obs.hooks = {h.name : h \in items}
    BY DEF admissionRecord, Observed
  <2>3. r.obs.signatureVerificationDetected <=> engines # {}
    BY DEF admissionRecord, Observed
  <2>4. \A o \in items : world[o].engines \subseteq engines
    OBVIOUS
  <2> HIDE DEF r, engines, items
  <2>5. Summarises(r, call.res)
    <3>1. \A n \in r.obs.hooks : \E o \in cfg.objects :
            o.res = "webhook" /\ o.name = n /\ held[o] # {Absent}
      BY <1>1, <1>3, <2>2
    <3> QED BY <1>3, <2>2, <3>1 DEF Summarises
  <2>6. ASSUME NEW o \in cfg.objects, Selects(call, o), Noteworthy(o, world[o])
        PROVE  Says(r, o, world[o])
    <3>1. o \in items /\ o.res = "webhook"
      BY <1>1, <1>2, <1>3, <2>6
    <3>2. o.name \in r.obs.hooks
      BY <2>2, <3>1
    <3>3. world[o].engines # {} => r.obs.signatureVerificationDetected
      BY <2>3, <2>4, <3>1
    <3> QED BY <2>2, <3>1, <3>2, <3>3 DEF Says, Workloads
  <2> QED BY <2>1, <2>2, <2>5, <2>6
<1>4. CASE call.res = "serviceaccount"
  <2> DEFINE r == saSummary(items)
             spaces == {s.ns : s \in items}
             there == {s \in cfg.objects : s.res = "serviceaccount" /\ held[s] # {Absent}}
  <2>1. RecordsOf(call) = << r >>
    BY <1>4 DEF RecordsOf, Workloads
  <2>2. /\ r.at = now /\ r.failed = FALSE
        /\ r.type = "rbac/service-account" /\ r.name = << "cluster-wide" >>
        /\ DOMAIN r.obs.perNamespace = spaces
        /\ r.obs.total = Cardinality(items)
    BY DEF saSummary, Observed
  <2>3. Cardinality(items) <= Cardinality(there)
    <3>1. IsFiniteSet(cfg.objects)
      BY CollectorsAssumption DEF WorldType
    <3>2. IsFiniteSet(there)
      BY <3>1, FS_Subset
    <3>3. items \subseteq there
      BY <1>1, <1>4
    <3> HIDE DEF items, there
    <3> QED BY <3>2, <3>3, FS_Subset
  <2>8. Cardinality(items) \in Nat
    <3>1. items \subseteq cfg.objects
      BY <1>1
    <3>2. IsFiniteSet(cfg.objects)
      BY CollectorsAssumption DEF WorldType
    <3> HIDE DEF items
    <3> QED BY <3>1, <3>2, FS_Subset, FS_CardinalityType
  <2>4. \A o \in items : o.ns \in spaces
    OBVIOUS
  <2>5. \A n \in spaces : \E o \in items : o.ns = n
    OBVIOUS
  <2> HIDE DEF r, items, spaces
  <2>6. Summarises(r, call.res)
    <3>1. \A n \in DOMAIN r.obs.perNamespace : \E o \in cfg.objects :
            o.res = "serviceaccount" /\ o.ns = n /\ held[o] # {Absent}
      BY <1>1, <1>4, <2>2, <2>5
    <3> QED BY <1>4, <2>2, <2>8, <3>1 DEF Summarises
  <2>7. ASSUME NEW o \in cfg.objects, Selects(call, o), Noteworthy(o, world[o])
        PROVE  Says(r, o, world[o])
    <3>1. o \in items /\ o.res = "serviceaccount"
      BY <1>1, <1>2, <1>4, <2>7
    <3>2. o.ns \in DOMAIN r.obs.perNamespace /\ r.obs.total <= Cardinality(there)
      BY <2>2, <2>3, <2>4, <3>1
    <3> QED BY <2>2, <3>1, <3>2 DEF Says, Workloads
  <2> QED BY <2>1, <2>2, <2>6, <2>7
<1> QED
  BY <1>3, <1>4 DEF Summarised

LEMMA Pairs ==
  ASSUME NEW a, NEW b, NEW c, NEW d, << a, b >> = << c, d >>
  PROVE  a = c /\ b = d
<1>1. << a, b >>[1] = << c, d >>[1] /\ << a, b >>[2] = << c, d >>[2]
  OBVIOUS
<1> QED BY <1>1

LEMMA Singles ==
  ASSUME NEW a, NEW b, << a >> = << b >>
  PROVE  a = b
<1>1. << a >>[1] = << b >>[1]
  OBVIOUS
<1> QED BY <1>1

LEMMA PairNotSingle ==
  ASSUME NEW a, NEW b, NEW c
  PROVE  << a, b >> # << c >>
<1>1. Len(<< a, b >>) = 2 /\ Len(<< c >>) = 1
  OBVIOUS
<1> QED BY <1>1

(* The type of a target tells the kind of the object. *)
LEMMA TargetParts ==
  ASSUME cfg \in Configs, NEW o \in cfg.objects, o.res \notin Summarised
  PROVE  \/ /\ o.res \in Workloads /\ TargetOf(o)[1] = "workload/image"
            /\ TargetOf(o)[2] = << o.ns, o.name >>
         \/ /\ o.res = "clusterrole" /\ TargetOf(o)[1] = "rbac/cluster-role"
            /\ TargetOf(o)[2] = << o.name >>
         \/ /\ o.res = "clusterrolebinding" /\ TargetOf(o)[1] = "rbac/binding"
            /\ TargetOf(o)[2] = << o.name >>
         \/ /\ o.res = "certificate" /\ TargetOf(o)[1] = "cert-manager/certificate"
            /\ TargetOf(o)[2] = << o.ns, o.name >>
         \/ /\ o.res = "Issuer" /\ TargetOf(o)[1] = "cert-manager/issuer"
            /\ TargetOf(o)[2] = << o.ns, o.name >>
         \/ /\ o.res = "ClusterIssuer" /\ TargetOf(o)[1] = "cert-manager/issuer"
            /\ TargetOf(o)[2] = << o.name >>
         \/ /\ o.res = "endpoint" /\ TargetOf(o)[1] = "tls/endpoint"
            /\ TargetOf(o)[2] = << o.ns >>
<1>1. \A a, b : << a, b >>[1] = a /\ << a, b >>[2] = b
  OBVIOUS
<1>2. o.res \in (Namespaced \cup ClusterScoped \cup {"endpoint"}) \ Summarised
  BY ObjectFacts
<1>3. CASE o.res \in Workloads
  <2>1. TargetOf(o) = << "workload/image", << o.ns, o.name >> >>
    BY <1>3 DEF TargetOf, Workloads, Qualified
  <2> QED BY <1>1, <1>3, <2>1
<1>4. CASE o.res = "clusterrole"
  <2>1. TargetOf(o) = << "rbac/cluster-role", << o.name >> >>
    BY <1>4 DEF TargetOf, Workloads
  <2> QED BY <1>1, <1>4, <2>1
<1>5. CASE o.res = "clusterrolebinding"
  <2>1. TargetOf(o) = << "rbac/binding", << o.name >> >>
    BY <1>5 DEF TargetOf, Workloads
  <2> QED BY <1>1, <1>5, <2>1
<1>6. CASE o.res = "certificate"
  <2>1. TargetOf(o) = << "cert-manager/certificate", << o.ns, o.name >> >>
    BY <1>6 DEF TargetOf, Workloads, Qualified
  <2> QED BY <1>1, <1>6, <2>1
<1>7. CASE o.res = "Issuer"
  <2>1. TargetOf(o) = << "cert-manager/issuer", << o.ns, o.name >> >>
    BY <1>7 DEF TargetOf, Workloads, Qualified, issuerName
  <2> QED BY <1>1, <1>7, <2>1
<1>8. CASE o.res = "ClusterIssuer"
  <2>1. TargetOf(o) = << "cert-manager/issuer", << o.name >> >>
    BY <1>8 DEF TargetOf, Workloads, issuerName
  <2> QED BY <1>1, <1>8, <2>1
<1>9. CASE o.res = "endpoint"
  <2>1. TargetOf(o) = << "tls/endpoint", << o.ns >> >>
    BY <1>9 DEF TargetOf, Workloads
  <2> QED BY <1>1, <1>9, <2>1
<1> QED
  BY <1>2, <1>3, <1>4, <1>5, <1>6, <1>7, <1>8, <1>9
  DEF Summarised, Namespaced, ClusterScoped

(* Targets tell objects apart, except workloads of different kinds. *)
LEMMA SameTarget ==
  ASSUME cfg \in Configs, NEW o \in cfg.objects, NEW p \in cfg.objects,
         o.res \notin Summarised, p.res \notin Summarised, TargetOf(o) = TargetOf(p)
  PROVE  \/ o = p
         \/ /\ {o.res, p.res} \subseteq Workloads /\ o.res # p.res
            /\ Qualified(o) = Qualified(p)
<1>1. /\ o = [res |-> o.res, ns |-> o.ns, name |-> o.name]
      /\ o.res \in ClusterScoped => o.ns = ""
      /\ o.res = "endpoint" => o.name = ""
  BY ObjectFacts
<1>2. /\ p = [res |-> p.res, ns |-> p.ns, name |-> p.name]
      /\ p.res \in ClusterScoped => p.ns = ""
      /\ p.res = "endpoint" => p.name = ""
  BY ObjectFacts
<1> DEFINE s == TargetOf(o)[1]
           n == TargetOf(o)[2]
<1>3. \/ o.res \in Workloads /\ s = "workload/image" /\ n = << o.ns, o.name >>
      \/ o.res = "clusterrole" /\ s = "rbac/cluster-role" /\ n = << o.name >>
      \/ o.res = "clusterrolebinding" /\ s = "rbac/binding" /\ n = << o.name >>
      \/ o.res = "certificate" /\ s = "cert-manager/certificate" /\ n = << o.ns, o.name >>
      \/ o.res = "Issuer" /\ s = "cert-manager/issuer" /\ n = << o.ns, o.name >>
      \/ o.res = "ClusterIssuer" /\ s = "cert-manager/issuer" /\ n = << o.name >>
      \/ o.res = "endpoint" /\ s = "tls/endpoint" /\ n = << o.ns >>
  BY TargetParts
<1>4. \/ p.res \in Workloads /\ s = "workload/image" /\ n = << p.ns, p.name >>
      \/ p.res = "clusterrole" /\ s = "rbac/cluster-role" /\ n = << p.name >>
      \/ p.res = "clusterrolebinding" /\ s = "rbac/binding" /\ n = << p.name >>
      \/ p.res = "certificate" /\ s = "cert-manager/certificate" /\ n = << p.ns, p.name >>
      \/ p.res = "Issuer" /\ s = "cert-manager/issuer" /\ n = << p.ns, p.name >>
      \/ p.res = "ClusterIssuer" /\ s = "cert-manager/issuer" /\ n = << p.name >>
      \/ p.res = "endpoint" /\ s = "tls/endpoint" /\ n = << p.ns >>
  BY TargetParts
<1> HIDE DEF s, n
<1>5. /\ << o.ns, o.name >> = << p.ns, p.name >> => o.ns = p.ns /\ o.name = p.name
      /\ << o.name >> = << p.name >> => o.name = p.name
      /\ << o.ns >> = << p.ns >> => o.ns = p.ns
      /\ << o.ns, o.name >> # << p.name >> /\ << o.name >> # << p.ns, p.name >>
  BY Pairs, Singles, PairNotSingle
<1>6. \/ o.res = p.res
      \/ {o.res, p.res} \subseteq Workloads /\ n = << o.ns, o.name >> /\ n = << p.ns, p.name >>
  BY <1>3, <1>4, <1>5
<1>7. CASE o.res = p.res
  <2>1. o.ns = p.ns /\ o.name = p.name
    BY <1>1, <1>2, <1>3, <1>4, <1>5, <1>7 DEF ClusterScoped
  <2> QED BY <1>1, <1>2, <1>7, <2>1
<1> QED
  BY <1>6, <1>7 DEF Qualified

(* What is in the result of a call. *)
LEMMA RecordsMade ==
  ASSUME WorldType, HeldType, NEW col \in Ids, NEW call, MadeBy(col, call)
  PROVE  LET rs == RecordsOf(call)
         IN  /\ IsSeq(rs)
             /\ \A i \in DOMAIN rs : Made(call, rs[i])
             /\ \A i, j \in DOMAIN rs : Target(rs[i]) = Target(rs[j]) => i = j
             /\ \A o \in cfg.objects : Selects(call, o) /\ Noteworthy(o, world[o])
                                         => \E i \in DOMAIN rs : Says(rs[i], o, world[o])
<1> DEFINE rs == RecordsOf(call)
<1>1. CASE call.res \in Summarised
  <2>1. PICK r : /\ rs = << r >>
                 /\ r.at = now /\ r.failed = FALSE
                 /\ Summarises(r, call.res)
                 /\ \A o \in cfg.objects : Selects(call, o) /\ Noteworthy(o, world[o])
                                             => Says(r, o, world[o])
    BY <1>1, SummaryFacts
  <2> HIDE DEF rs
  <2>2. DOMAIN rs = {1} /\ rs[1] = r
    BY <2>1
  <2>3. IsSeq(rs)
    <3>1. r \in {r}
      OBVIOUS
    <3>2. rs \in Seq({r})
      BY <2>1, <3>1, Kinds1
    <3> QED BY <3>2, InSeqIsSeq
  <2>4. Made(call, r)
    BY <2>1 DEF Made
  <2> QED BY <2>1, <2>2, <2>3, <2>4 DEF rs
<1>2. CASE call.res \notin Summarised
  <2>1. Recorded(rs, Found(call))
    BY <1>2, CallRecords
  <2> HIDE DEF rs
  <2>2. PICK s \in [DOMAIN rs -> Found(call)] :
          /\ IsInjective(s)
          /\ \A i \in DOMAIN rs : rs[i] = RecordOf(s[i])
          /\ \A o \in Found(call) : \E i \in DOMAIN rs : s[i] = o
    BY <2>1 DEF Recorded
  <2>3. ASSUME NEW i \in DOMAIN rs
        PROVE  /\ s[i] \in cfg.objects /\ s[i].res = call.res /\ Selects(call, s[i])
               /\ Noteworthy(s[i], world[s[i]])
               /\ Tells(rs[i], s[i], world[s[i]])
    <3>1. s[i] \in Found(call)
      BY <2>2
    <3>2. s[i] \in cfg.objects /\ s[i].res = call.res /\ Selects(call, s[i])
          /\ Noteworthy(s[i], world[s[i]])
      BY <3>1 DEF Found, Selects
    <3>3. Tells(RecordOf(s[i]), s[i], world[s[i]])
      BY <1>2, <3>2, RecordOfFacts
    <3> QED BY <2>2, <3>2, <3>3
  <2>4. \A i \in DOMAIN rs : Made(call, rs[i])
    BY <1>2, <2>3 DEF Made, FoundBy, Tells, HeldType
  <2>5. ASSUME NEW i \in DOMAIN rs, NEW j \in DOMAIN rs, Target(rs[i]) = Target(rs[j])
        PROVE  i = j
    <3>1. TargetOf(s[i]) = TargetOf(s[j])
      BY <2>3, <2>5 DEF Tells
    <3>2. s[i] = s[j]
      BY <1>2, <2>3, <3>1, SameTarget DEF WorldType
    <3> QED BY <2>2, <3>2 DEF IsInjective
  <2>6. ASSUME NEW o \in cfg.objects, Selects(call, o), Noteworthy(o, world[o])
        PROVE  \E i \in DOMAIN rs : Says(rs[i], o, world[o])
    <3>1. PICK i \in DOMAIN rs : s[i] = o
      BY <2>2, <2>6 DEF Found
    <3> QED BY <2>3, <3>1 DEF Tells
  <2>7. IsSeq(rs)
    BY <2>1 DEF Recorded
  <2> QED BY <2>4, <2>5, <2>6, <2>7 DEF rs
<1> QED BY <1>1, <1>2

(* Two calls return records with different targets, twins apart. *)
LEMMA CallsApart ==
  ASSUME cfg \in Configs, NEW col \in Ids, NEW c1, NEW c2, c1 # c2,
         c1 = [res |-> c1.res, ns |-> c1.ns], c2 = [res |-> c2.res, ns |-> c2.ns],
         MadeBy(col, c1), MadeBy(col, c2),
         NEW r1, NEW r2, Made(c1, r1), Made(c2, r2), Target(r1) = Target(r2)
  PROVE  Twins(Target(r1)) /\ r1.obs.kind # r2.obs.kind
<1>1. c1.res # c2.res \/ c1.ns # c2.ns
  OBVIOUS
<1>2. c1.res = c2.res =>
        \/ c1.ns \in Scope /\ c2.ns \in Scope
        \/ c1.ns \in ToSet(Endpoints) /\ c2.ns \in ToSet(Endpoints)
        \/ c1.ns = All /\ c2.ns = All
  BY DEF MadeBy, Workloads
<1>3. r1.type = r2.type /\ Target(r1)[1] = r1.type /\ Target(r2)[1] = r2.type
  <2>1. << r1.type, r1.name >> = << r2.type, r2.name >>
    BY DEF Target
  <2>2. \A a, b : << a, b >>[1] = a
    OBVIOUS
  <2> QED BY <2>1, <2>2, Pairs DEF Target
<1>4. ASSUME Summarises(r1, c1.res), Summarises(r2, c2.res)
      PROVE  FALSE
  <2>1. c1.res = c2.res /\ c1.res \in {"webhook", "serviceaccount"}
    BY <1>3, <1>4 DEF Summarises
  <2>2. c1.ns = All /\ c2.ns = All
    BY <2>1 DEF MadeBy, Workloads
  <2> QED BY <1>1, <2>1, <2>2
<1>5. ASSUME Summarises(r1, c1.res), FoundBy(c2, r2)
      PROVE  FALSE
  <2>1. Summarises(r1, c1.res) => r1.type \in {"admission/policy", "rbac/service-account"}
    BY DEF Summarises
  <2>2. PICK o \in cfg.objects : o.res \notin Summarised /\ Target(r2) = TargetOf(o)
    BY <1>5 DEF FoundBy, Tells, Selects
  <2> QED BY <1>3, <1>5, <2>1, <2>2, TargetParts
<1>6. ASSUME FoundBy(c1, r1), Summarises(r2, c2.res)
      PROVE  FALSE
  <2>1. Summarises(r2, c2.res) => r2.type \in {"admission/policy", "rbac/service-account"}
    BY DEF Summarises
  <2>2. PICK o \in cfg.objects : o.res \notin Summarised /\ Target(r1) = TargetOf(o)
    BY <1>6 DEF FoundBy, Tells, Selects
  <2> QED BY <1>3, <1>6, <2>1, <2>2, TargetParts
<1>7. ASSUME FoundBy(c1, r1), FoundBy(c2, r2)
      PROVE  Twins(Target(r1)) /\ r1.obs.kind # r2.obs.kind
  <2>1. PICK o \in cfg.objects : \E c \in held[o] : Selects(c1, o) /\ Tells(r1, o, c)
    BY <1>7 DEF FoundBy
  <2>2. PICK p \in cfg.objects : \E c \in held[p] : Selects(c2, p) /\ Tells(r2, p, c)
    BY <1>7 DEF FoundBy
  <2>3. /\ o.res = c1.res /\ c1.ns \in {All, o.ns} /\ o.res \notin Summarised
        /\ p.res = c2.res /\ c2.ns \in {All, p.ns} /\ p.res \notin Summarised
    BY <1>7, <2>1, <2>2 DEF Selects, FoundBy
  <2>4. TargetOf(o) = TargetOf(p) /\ Target(r1) = TargetOf(o)
    BY <2>1, <2>2 DEF Tells
  <2>5. ASSUME o = p PROVE FALSE
    <3>1. c1.res = c2.res /\ c1.ns # c2.ns /\ o.ns # All
      BY <1>1, <2>3, <2>5, ObjectFacts
    <3>2. All \in {c1.ns, c2.ns} /\ o.ns \in {c1.ns, c2.ns}
      BY <2>3, <2>5, <3>1
    <3>3. ~(c1.ns \in Scope /\ c2.ns \in Scope)
      BY <3>1, <3>2, ScopeFacts
    <3>4. ToSet(Endpoints) = {e.ns : e \in {x \in cfg.objects : x.res = "endpoint"}}
      BY EndpointsFacts
    <3>5. \A e \in cfg.objects : e.ns # All
      BY ObjectFacts
    <3> QED BY <1>2, <3>1, <3>2, <3>3, <3>4, <3>5
  <2>6. /\ o.res \in Workloads /\ p.res \in Workloads /\ o.res # p.res
        /\ Qualified(o) = Qualified(p)
    BY <2>3, <2>4, <2>5, SameTarget
  <2>7. Target(r1) = << "workload/image", Qualified(o) >>
    BY <2>4, <2>6 DEF TargetOf, Workloads
  <2>8. r1.obs.kind = o.res /\ r2.obs.kind = p.res
    BY <2>1, <2>2, <2>6 DEF Tells
  <2> QED BY <2>6, <2>7, <2>8 DEF Twins
<1> QED
  BY <1>4, <1>5, <1>6, <1>7 DEF Made
-----------------------------------------------------------------------------
(* The types of a collector's records. *)
TypesOf(col) ==
  CASE col = "provenance" -> {"workload/image", "admission/policy"}
    [] col = "rbacposture" -> {"rbac/cluster-role", "rbac/binding", "rbac/service-account"}
    [] col = "certlifecycle" -> {"cert-manager/certificate", "cert-manager/issuer"}
    [] col = "tlsscan" -> {"tls/endpoint"}

LEMMA RegistryFacts ==
  /\ IsSeq(Registry) /\ IsInjective(Registry)
  /\ \A i \in DOMAIN Registry : Registry[i] \in Ids
<1> DEFINE E(c) == IF c \in cfg.enabled THEN << c >> ELSE << >>
<1>1. ASSUME NEW c
      PROVE  IsSeq(E(c)) /\ IsInjective(E(c)) /\ ToSet(E(c)) \subseteq {c}
  <2>1. CASE c \in cfg.enabled
    <3>1. E(c) = << c >>
      BY <2>1
    <3>2. c \in {c}
      OBVIOUS
    <3>3. << c >> \in Seq({c}) /\ IsInjective(<< c >>) /\ ToSet(<< c >>) = {c}
      BY <3>2, Kinds1
    <3> HIDE DEF E
    <3> QED BY <3>1, <3>3, InSeqIsSeq
  <2>2. CASE c \notin cfg.enabled
    <3>1. E(c) = << >>
      BY <2>2
    <3>2. << >> \in Seq({c}) /\ DOMAIN << >> = {}
      OBVIOUS
    <3>3. IsSeq(<< >>)
      BY <3>2, InSeqIsSeq
    <3> HIDE DEF E
    <3> QED BY <3>1, <3>2, <3>3 DEF IsInjective, ToSet
  <2> QED BY <2>1, <2>2
<1> DEFINE a == E("certlifecycle")
           b == a \o E("provenance")
           c == b \o E("rbacposture")
           d == c \o E("tlsscan")
<1>2. Registry = d
  BY DEF Registry
<1> HIDE DEF E
<1>3. IsSeq(a) /\ IsInjective(a) /\ ToSet(a) \subseteq {"certlifecycle"}
  BY <1>1
<1> HIDE DEF a
<1>4. IsSeq(b) /\ IsInjective(b) /\ ToSet(b) \subseteq {"certlifecycle", "provenance"}
  <2> DEFINE e == E("provenance")
  <2>1. IsSeq(e) /\ IsInjective(e) /\ ToSet(e) \subseteq {"provenance"}
    BY <1>1
  <2> HIDE DEF e
  <2>2. b = a \o e
    BY DEF e
  <2>3. ToSet(a) \cap ToSet(e) = {}
    BY <1>3, <2>1
  <2> HIDE DEF b
  <2> QED BY <1>3, <2>1, <2>2, <2>3, ConcatFacts, ConcatSet
<1> HIDE DEF b
<1>5. /\ IsSeq(c) /\ IsInjective(c)
      /\ ToSet(c) \subseteq {"certlifecycle", "provenance", "rbacposture"}
  <2> DEFINE e == E("rbacposture")
  <2>1. IsSeq(e) /\ IsInjective(e) /\ ToSet(e) \subseteq {"rbacposture"}
    BY <1>1
  <2> HIDE DEF e
  <2>2. c = b \o e
    BY DEF e
  <2>3. ToSet(b) \cap ToSet(e) = {}
    BY <1>4, <2>1
  <2> HIDE DEF c
  <2> QED BY <1>4, <2>1, <2>2, <2>3, ConcatFacts, ConcatSet
<1> HIDE DEF c
<1>6. IsSeq(d) /\ IsInjective(d) /\ ToSet(d) \subseteq Ids
  <2> DEFINE e == E("tlsscan")
  <2>1. IsSeq(e) /\ IsInjective(e) /\ ToSet(e) \subseteq {"tlsscan"}
    BY <1>1
  <2> HIDE DEF e
  <2>2. d = c \o e
    BY DEF e
  <2>3. ToSet(c) \cap ToSet(e) = {}
    BY <1>5, <2>1
  <2> HIDE DEF d
  <2>4. ToSet(d) = ToSet(c) \cup ToSet(e)
    BY <1>5, <2>1, <2>2, ConcatSet
  <2>5. ToSet(d) \subseteq Ids
    BY <1>5, <2>1, <2>4 DEF Ids
  <2> QED BY <1>5, <2>1, <2>2, <2>3, <2>5, ConcatFacts, ConcatSet
<1> HIDE DEF d
<1> QED
  BY <1>2, <1>6 DEF ToSet

(* A record comes from a collector, which its target tells, *)
Home(r) ==
  \/ r.collector = "evidenced" /\ r.type = "evidenced/chain-rotation"
  \/ r.collector \in Ids /\ r.type = "evidenced/collector-run" /\ r.name = << r.collector >>
  \/ r.collector \in Ids /\ r.type \in TypesOf(r.collector)

LEMMA HomeFacts ==
  ASSUME NEW q, NEW r, Home(q), Home(r), Target(q) = Target(r)
  PROVE  q.collector = r.collector
<1>1. q.type = r.type /\ q.name = r.name
  BY Pairs DEF Target
<1>2. q.name = << q.collector >> /\ r.name = << r.collector >> => q.collector = r.collector
  BY <1>1, Singles
<1> QED
  BY <1>1, <1>2 DEF Home, TypesOf, Ids

LEMMA MadeHome ==
  ASSUME cfg \in Configs, NEW col \in Ids, NEW call, MadeBy(col, call), NEW r, Made(call, r)
  PROVE  r.type \in TypesOf(col)
<1>1. CASE Summarises(r, call.res)
  BY <1>1 DEF Summarises, MadeBy, TypesOf, Workloads
<1>2. CASE FoundBy(call, r)
  <2>1. PICK o \in cfg.objects :
          o.res = call.res /\ o.res \notin Summarised /\ Target(r) = TargetOf(o)
    BY <1>2 DEF FoundBy, Tells, Selects
  <2>2. Target(r)[1] = r.type
    <3>1. \A a, b : << a, b >>[1] = a
      OBVIOUS
    <3> QED BY <3>1 DEF Target
  <2> QED BY <2>1, <2>2, TargetParts DEF MadeBy, TypesOf, Workloads
<1> QED BY <1>1, <1>2 DEF Made
-----------------------------------------------------------------------------
Collector == Registry[idx]

(* Records with one target are of twins. *)
Apart(q, r) == Target(q) = Target(r) => Twins(Target(q)) /\ q.obs.kind # r.obs.kind

(***************************************************************************)
(* Of the calls C a collector has still to make cs, the last ones; its     *)
(* records os come from those it has made, and tell what stayed as it was  *)
(* of all that these select.                                               *)
(***************************************************************************)
Progress(C, cs, os) ==
  /\ Len(cs) <= Len(C)
  /\ \A i \in DOMAIN cs : cs[i] = C[Len(C) - Len(cs) + i]
  /\ \A i \in DOMAIN os : \E m \in 1 .. Len(C) - Len(cs) : Made(C[m], os[i])
  /\ \A m \in 1 .. Len(C) - Len(cs) : \A o \in cfg.objects :
       Selects(C[m], o) /\ held[o] = {world[o]} /\ Noteworthy(o, world[o])
         => \E i \in DOMAIN os : Says(os[i], o, world[o])
  /\ \A i, j \in DOMAIN os : i # j => Apart(os[i], os[j])

Underway ==
  active => /\ idx \in DOMAIN Registry
            /\ HeldType
            /\ Progress(CallsOf(Collector), calls, out)

(* In the store, the records of this cycle are of collectors that have run; *)
Stored ==
  /\ \A i \in DOMAIN recs :
       /\ recs[i].at \in Int /\ recs[i].at <= cycle
       /\ Home(recs[i])
       /\ ~stepped => recs[i].at <= now
       /\ ~stepped /\ recs[i].at = now =>
            recs[i].collector = "evidenced" \/ \E k \in 1 .. idx - 1 : recs[i].collector = Registry[k]

(* so that a record is later than an earlier one of the same target. *)
StrictlyLater ==
  ~stepped =>
    \A i, j \in DOMAIN recs :
      i < j /\ Target(recs[i]) = Target(recs[j]) =>
        recs[i].at < recs[j].at \/ Twins(Target(recs[i]))

ReportType ==
  /\ WorldType
  /\ active \in BOOLEAN /\ stepped \in BOOLEAN
  /\ idx \in 1 .. Len(Registry) + 1
  /\ cycle \in Int /\ now <= cycle
  /\ IsSeq(calls) /\ IsSeq(out) /\ IsSeq(recs)
  /\ ~active => calls = << >> /\ out = << >>

Inv == ReportType /\ Underway /\ Stored /\ StrictlyLater /\ GapsReported
-----------------------------------------------------------------------------
(* An object keeps the contents that it had, and may get others. *)
HeldGrows == \A o \in cfg.objects : held[o] # {} /\ held[o] \subseteq held'[o]

LEMMA SaysKept ==
  ASSUME cfg \in Configs, cfg' = cfg, HeldGrows,
         NEW r, NEW o \in cfg.objects, NEW c, Says(r, o, c), o.res = "serviceaccount" => r.obs.total \in Nat
  PROVE  Says(r, o, c)'
<1>1. CASE o.res = "serviceaccount"
  <2> DEFINE there == {s \in cfg.objects : s.res = "serviceaccount" /\ held[s] # {Absent}}
  <2>1. IsFiniteSet(cfg.objects)
    BY CollectorsAssumption
  <2>2. there \subseteq there'
    BY DEF HeldGrows
  <2>3. IsFiniteSet(there) /\ IsFiniteSet(there')
    <3>1. there \subseteq cfg.objects /\ there' \subseteq cfg.objects
      OBVIOUS
    <3> HIDE DEF there
    <3> QED BY <2>1, <3>1, FS_Subset
  <2>4. Cardinality(there) <= Cardinality(there') /\ Cardinality(there) \in Nat
        /\ Cardinality(there') \in Nat
    <3> HIDE DEF there
    <3> QED BY <2>2, <2>3, FS_Subset, FS_CardinalityType
  <2>5. /\ r.type = "rbac/service-account" /\ o.ns \in DOMAIN r.obs.perNamespace
        /\ r.obs.total <= Cardinality(there)
    BY <1>1 DEF Says, Workloads
  <2>6. r.obs.total <= Cardinality(there')
    <3> HIDE DEF there
    <3> QED BY <1>1, <2>4, <2>5
  <2> QED BY <1>1, <2>5, <2>6 DEF Says, Workloads
<1>2. CASE o.res # "serviceaccount"
  <2>1. o.res \in Namespaced \cup ClusterScoped \cup {"endpoint"}
    BY ObjectFacts
  <2>2. CASE o.res \in Workloads
    BY <2>2 DEF Says, Workloads
  <2>3. CASE o.res = "webhook"
    BY <2>3 DEF Says, Workloads
  <2>4. CASE o.res = "clusterrole"
    BY <2>4 DEF Says, Workloads
  <2>5. CASE o.res = "clusterrolebinding"
    BY <2>5 DEF Says, Workloads
  <2>6. CASE o.res = "certificate"
    BY <2>6 DEF Says, Workloads
  <2>7. CASE o.res \in {"Issuer", "ClusterIssuer"}
    BY <2>7 DEF Says, Workloads
  <2>8. CASE o.res = "endpoint"
    BY <2>8 DEF Says, Workloads
  <2> QED
    BY <1>2, <2>1, <2>2, <2>3, <2>4, <2>5, <2>6, <2>7, <2>8 DEF Namespaced, ClusterScoped
<1> QED BY <1>1, <1>2

LEMMA MadeKept ==
  ASSUME cfg \in Configs, cfg' = cfg, now' = now, HeldGrows,
         NEW call, NEW r, Made(call, r)
  PROVE  Made(call, r)'
<1>1. ASSUME Summarises(r, call.res)
      PROVE  Summarises(r, call.res)'
  <2>1. \A o \in cfg.objects : held[o] # {Absent} => held'[o] # {Absent}
    BY DEF HeldGrows
  <2>2. \A res, n : (\E o \in cfg.objects : o.res = res /\ o.name = n /\ held[o] # {Absent})
                      => (\E o \in cfg.objects : o.res = res /\ o.name = n /\ held'[o] # {Absent})
    BY <2>1
  <2>3. \A res, n : (\E o \in cfg.objects : o.res = res /\ o.ns = n /\ held[o] # {Absent})
                      => (\E o \in cfg.objects : o.res = res /\ o.ns = n /\ held'[o] # {Absent})
    BY <2>1
  <2> QED BY <1>1, <2>2, <2>3 DEF Summarises
<1>2. ASSUME FoundBy(call, r)
      PROVE  FoundBy(call, r)'
  <2>1. call.res \notin Summarised
    BY <1>2 DEF FoundBy
  <2>2. PICK o \in cfg.objects : \E c \in held[o] :
          Selects(call, o) /\ Noteworthy(o, c) /\ Tells(r, o, c)
    BY <1>2 DEF FoundBy
  <2>3. PICK c \in held[o] : Selects(call, o) /\ Noteworthy(o, c) /\ Tells(r, o, c)
    BY <2>2
  <2>4. Says(r, o, c)'
    BY <2>1, <2>3, SaysKept DEF Tells, Selects, Summarised
  <2>5. Tells(r, o, c)'
    BY <2>3, <2>4 DEF Tells
  <2>6. c \in held'[o]
    BY <2>2, <2>3 DEF HeldGrows
  <2>7. o \in cfg'.objects /\ Selects(call, o)' /\ Noteworthy(o, c)'
    BY <2>3
  <2> QED BY <2>1, <2>5, <2>6, <2>7 DEF FoundBy
<1> QED
  BY <1>1, <1>2 DEF Made

LEMMA ProgressKept ==
  ASSUME WorldType, HeldType, cfg' = cfg, now' = now,
         \A o \in cfg.objects : held'[o] = held[o] \cup {world'[o]},
         NEW C, NEW cs, NEW os, Progress(C, cs, os)
  PROVE  Progress(C, cs, os)'
<1>1. HeldGrows /\ cfg \in Configs
  BY DEF HeldGrows, HeldType, WorldType
<1>2. \A call, r : Made(call, r) => Made(call, r)'
  BY <1>1, MadeKept
<1>3. \A i \in DOMAIN os : \E m \in 1 .. Len(C) - Len(cs) : Made(C[m], os[i])
  BY DEF Progress
<1>4. \A i \in DOMAIN os : \E m \in 1 .. Len(C) - Len(cs) : Made(C[m], os[i])'
  BY <1>2, <1>3
<1>5. ASSUME NEW m \in 1 .. Len(C) - Len(cs), NEW o \in cfg.objects,
             Selects(C[m], o), held'[o] = {world'[o]}, Noteworthy(o, world[o])'
      PROVE  \E i \in DOMAIN os : Says(os[i], o, world[o])'
  <2>1. world'[o] = world[o] /\ held[o] = {world[o]}
    BY <1>5 DEF HeldType
  <2>2. Noteworthy(o, world[o])
    BY <1>5, <2>1 DEF Noteworthy, Worrying, Permits
  <2>3. PICK i \in DOMAIN os : Says(os[i], o, world[o])
    BY <1>5, <2>1, <2>2 DEF Progress
  <2>4. o.res = "serviceaccount" => os[i].obs.total \in Nat
    <3> SUFFICES ASSUME o.res = "serviceaccount" PROVE os[i].obs.total \in Nat
      OBVIOUS
    <3>1. os[i].type = "rbac/service-account"
      BY <2>3 DEF Says, Workloads
    <3>2. PICK n \in 1 .. Len(C) - Len(cs) : Made(C[n], os[i])
      BY <1>3
    <3>3. CASE Summarises(os[i], C[n].res)
      BY <3>1, <3>3 DEF Summarises
    <3>4. CASE FoundBy(C[n], os[i])
      <4>1. PICK p \in cfg.objects : p.res \notin Summarised /\ Target(os[i]) = TargetOf(p)
        BY <3>4 DEF FoundBy, Tells, Selects
      <4>2. Target(os[i])[1] = os[i].type
        <5>1. \A a, b : << a, b >>[1] = a
          OBVIOUS
        <5> QED BY <5>1 DEF Target
      <4> QED BY <1>1, <3>1, <4>1, <4>2, TargetParts
    <3> QED BY <3>2, <3>3, <3>4 DEF Made
  <2>5. Says(os[i], o, world[o])'
    <3>1. \A c : Says(os[i], o, c) => Says(os[i], o, c)'
      BY <1>1, <2>4, SaysKept
    <3> QED BY <2>1, <2>3, <3>1
  <2> QED BY <2>5
<1>6. \A i, j \in DOMAIN os : i # j => Apart(os[i], os[j])'
  BY DEF Progress, Apart, Twins, Target, Qualified
<1>7. /\ Len(cs) <= Len(C)
      /\ \A i \in DOMAIN cs : cs[i] = C[Len(C) - Len(cs) + i]
  BY DEF Progress
<1>8. \A call, o : Selects(call, o)' <=> Selects(call, o)
  BY DEF Selects
<1> QED
  BY <1>4, <1>5, <1>6, <1>7, <1>8 DEF Progress
-----------------------------------------------------------------------------
LEMMA TailFacts ==
  ASSUME NEW s, IsSeq(s), s # << >>
  PROVE  /\ 1 \in DOMAIN s /\ Head(s) = s[1]
         /\ IsSeq(Tail(s)) /\ Len(Tail(s)) = Len(s) - 1
         /\ \A i \in DOMAIN Tail(s) : i + 1 \in DOMAIN s /\ Tail(s)[i] = s[i + 1]
<1> DEFINE S == ToSet(s)
<1>1. s \in Seq(S)
  BY DEF IsSeq
<1> HIDE DEF S
<1>2. /\ Head(s) = s[1]
      /\ Tail(s) \in Seq(S)
      /\ Len(Tail(s)) = Len(s) - 1
      /\ \A i \in 1 .. Len(s) - 1 : Tail(s)[i] = s[i + 1]
  BY <1>1, HeadTailProperties
<1>3. Len(s) \in Nat /\ DOMAIN s = 1..Len(s) /\ Len(s) # 0
  BY <1>1, LenProperties, EmptySeq
<1>4. IsSeq(Tail(s))
  BY <1>2, InSeqIsSeq
<1>5. DOMAIN Tail(s) = 1 .. Len(s) - 1
  BY <1>2, <1>4, SeqDomain
<1> QED
  BY <1>2, <1>3, <1>4, <1>5

LEMMA ApartSymmetric ==
  ASSUME NEW q, NEW r, Apart(q, r)
  PROVE  Apart(r, q)
  BY DEF Apart

(* A call returns. *)
LEMMA CallProgress ==
  ASSUME WorldType, HeldType, NEW col \in Ids,
         NEW cs, IsSeq(cs), cs # << >>, NEW os, IsSeq(os), Progress(CallsOf(col), cs, os)
  PROVE  /\ IsSeq(Tail(cs)) /\ IsSeq(os \o RecordsOf(Head(cs)))
         /\ Progress(CallsOf(col), Tail(cs), os \o RecordsOf(Head(cs)))
<1> DEFINE C == CallsOf(col)
           call == Head(cs)
           rs == RecordsOf(call)
           after == os \o rs
           rest == Tail(cs)
           k == Len(C) - Len(cs)
<1>1. /\ IsSeq(C) /\ IsInjective(C)
      /\ \A c \in ToSet(C) : c = [res |-> c.res, ns |-> c.ns] /\ MadeBy(col, c)
  BY CallsFacts DEF WorldType
<1>2. /\ Len(C) \in Nat /\ DOMAIN C = 1..Len(C)
      /\ Len(cs) \in Nat /\ DOMAIN cs = 1..Len(cs) /\ Len(cs) <= Len(C)
      /\ \A i \in DOMAIN cs : cs[i] = C[k + i]
  BY <1>1, SeqDomain DEF Progress
<1>3. /\ 1 \in DOMAIN cs /\ call = cs[1]
      /\ IsSeq(rest) /\ Len(rest) = Len(cs) - 1
      /\ \A i \in DOMAIN rest : i + 1 \in DOMAIN cs /\ rest[i] = cs[i + 1]
  BY TailFacts
<1> HIDE DEF call, rest, C
<1>4. /\ k \in Nat /\ k + 1 \in DOMAIN C /\ call = C[k + 1] /\ Len(C) - Len(rest) = k + 1
      /\ Len(rest) <= Len(C)
  BY <1>2, <1>3
<1>5. \A i \in DOMAIN rest : rest[i] = C[k + 1 + i]
  <2>1. DOMAIN rest = 1..Len(rest)
    BY <1>3, SeqDomain
  <2>2. \A i \in DOMAIN rest : rest[i] = C[k + (i + 1)] /\ i \in Nat
    BY <1>2, <1>3, <2>1
  <2>3. \A i \in Nat : k + (i + 1) = k + 1 + i
    BY <1>4
  <2> QED BY <2>2, <2>3
<1>6. \A m \in DOMAIN C : C[m] = [res |-> C[m].res, ns |-> C[m].ns] /\ MadeBy(col, C[m])
  BY <1>1, SeqDomain
<1>7. MadeBy(col, call)
  BY <1>4, <1>6
<1>8. /\ IsSeq(rs)
      /\ \A i \in DOMAIN rs : Made(call, rs[i])
      /\ \A i, j \in DOMAIN rs : Target(rs[i]) = Target(rs[j]) => i = j
      /\ \A o \in cfg.objects : Selects(call, o) /\ Noteworthy(o, world[o])
                                  => \E i \in DOMAIN rs : Says(rs[i], o, world[o])
  BY <1>7, RecordsMade
<1> HIDE DEF rs
<1>9. /\ IsSeq(after)
      /\ \A i \in DOMAIN os : i \in DOMAIN after /\ after[i] = os[i]
      /\ \A i \in DOMAIN rs : Len(os) + i \in DOMAIN after /\ after[Len(os) + i] = rs[i]
      /\ \A i \in DOMAIN after :
           \/ i \in DOMAIN os
           \/ i > Len(os) /\ i - Len(os) \in DOMAIN rs /\ after[i] = rs[i - Len(os)]
  BY <1>8, ConcatFacts
<1> HIDE DEF after
<1>10. /\ \A i \in DOMAIN os : \E m \in 1..k : Made(C[m], os[i])
       /\ \A m \in 1..k : \A o \in cfg.objects :
            Selects(C[m], o) /\ held[o] = {world[o]} /\ Noteworthy(o, world[o])
              => \E i \in DOMAIN os : Says(os[i], o, world[o])
       /\ \A i, j \in DOMAIN os : i # j => Apart(os[i], os[j])
  BY DEF Progress, C
<1>11. 1 .. k + 1 = (1..k) \cup {k + 1} /\ k + 1 \notin 1..k
  BY <1>4
<1>12. \A i \in DOMAIN after : \E m \in 1 .. k + 1 : Made(C[m], after[i])
  <2> SUFFICES ASSUME NEW i \in DOMAIN after PROVE \E m \in 1 .. k + 1 : Made(C[m], after[i])
    OBVIOUS
  <2> HIDE DEF k
  <2>1. CASE i \in DOMAIN os
    BY <1>9, <1>10, <1>11, <2>1
  <2>2. CASE i \notin DOMAIN os
    <3>1. Made(C[k + 1], after[i])
      BY <1>4, <1>8, <1>9, <2>2
    <3> QED BY <1>11, <3>1
  <2> QED BY <2>1, <2>2
<1>13. ASSUME NEW m \in 1 .. k + 1, NEW o \in cfg.objects,
              Selects(C[m], o), held[o] = {world[o]}, Noteworthy(o, world[o])
       PROVE  \E i \in DOMAIN after : Says(after[i], o, world[o])
  <2> HIDE DEF k
  <2>1. CASE m \in 1..k
    <3>1. PICK i \in DOMAIN os : Says(os[i], o, world[o])
      BY <1>10, <1>13, <2>1
    <3> QED BY <1>9, <3>1
  <2>2. CASE m = k + 1
    <3>1. PICK i \in DOMAIN rs : Says(rs[i], o, world[o])
      BY <1>4, <1>8, <1>13, <2>2
    <3> QED BY <1>9, <3>1
  <2> QED BY <1>11, <2>1, <2>2
<1>14. ASSUME NEW i \in DOMAIN os, NEW j \in DOMAIN rs
       PROVE  Apart(os[i], rs[j])
  <2>1. PICK m \in 1..k : Made(C[m], os[i])
    BY <1>10
  <2>2. m \in DOMAIN C /\ m # k + 1
    BY <1>2, <1>4
  <2>3. C[m] # C[k + 1]
    BY <1>1, <1>4, <2>2 DEF IsInjective
  <2>4. Made(C[k + 1], rs[j])
    BY <1>4, <1>8
  <2> HIDE DEF k
  <2>5. /\ C[m] = [res |-> C[m].res, ns |-> C[m].ns] /\ MadeBy(col, C[m])
        /\ C[k + 1] = [res |-> C[k + 1].res, ns |-> C[k + 1].ns] /\ MadeBy(col, C[k + 1])
    BY <1>4, <1>6, <2>2
  <2>6. ASSUME Target(os[i]) = Target(rs[j])
        PROVE  Twins(Target(os[i])) /\ os[i].obs.kind # rs[j].obs.kind
    BY <2>1, <2>3, <2>4, <2>5, <2>6, CallsApart DEF WorldType
  <2> QED BY <2>6 DEF Apart
<1>15. ASSUME NEW i \in DOMAIN after, NEW j \in DOMAIN after, i # j
       PROVE  Apart(after[i], after[j])
  <2>1. CASE i \in DOMAIN os /\ j \in DOMAIN os
    BY <1>9, <1>10, <1>15, <2>1
  <2>2. CASE i \in DOMAIN os /\ j \notin DOMAIN os
    BY <1>9, <1>14, <2>2
  <2>3. CASE i \notin DOMAIN os /\ j \in DOMAIN os
    BY <1>9, <1>14, <2>3, ApartSymmetric
  <2>4. CASE i \notin DOMAIN os /\ j \notin DOMAIN os
    <3>1. /\ i - Len(os) \in DOMAIN rs /\ after[i] = rs[i - Len(os)]
          /\ j - Len(os) \in DOMAIN rs /\ after[j] = rs[j - Len(os)]
      BY <1>9, <2>4
    <3>2. i - Len(os) # j - Len(os)
      <4>1. Len(os) \in Nat /\ DOMAIN after \subseteq Int
        BY <1>9, SeqDomain
      <4> QED BY <1>15, <4>1
    <3>3. Target(rs[i - Len(os)]) # Target(rs[j - Len(os)])
      BY <1>8, <3>1, <3>2
    <3> QED BY <3>1, <3>3 DEF Apart
  <2> QED BY <2>1, <2>2, <2>3, <2>4
<1>16. Progress(C, rest, after)
  <2> HIDE DEF k
  <2> QED BY <1>4, <1>5, <1>12, <1>13, <1>15 DEF Progress
<1> QED
  BY <1>3, <1>9, <1>16 DEF C, rest, after, rs, call
-----------------------------------------------------------------------------
(* The invariant is inductive: first what the steps share. *)
LEMMA ConfigKept ==
  ASSUME cfg' = cfg
  PROVE  Registry' = Registry /\ \A col : CallsOf(col)' = CallsOf(col)
<1>1. Registry' = Registry
  BY DEF Registry
<1>2. Endpoints' = Endpoints
  BY DEF Endpoints
<1>3. ASSUME NEW col PROVE CallsOf(col)' = CallsOf(col)
  BY <1>2 DEF CallsOf
<1> QED BY <1>1, <1>3

LEMMA StoreKept ==
  ASSUME Stored, StrictlyLater, GapsReported,
         UNCHANGED << cfg, now, idx, recs, cycle, gaps, stepped >>
  PROVE  (Stored /\ StrictlyLater /\ GapsReported)'
<1>1. Registry' = Registry
  BY ConfigKept
<1>2. \A t : Twins(t)' <=> Twins(t)
  BY DEF Twins
<1>3. Stored'
  BY <1>1 DEF Stored
<1>4. StrictlyLater'
  BY <1>2 DEF StrictlyLater
<1>5. GapsReported'
  BY DEF GapsReported, FailuresSection
<1> QED BY <1>3, <1>4, <1>5

(* The running collector's records `new' are stored. *)
LEMMA AppendKeeps ==
  ASSUME WorldType, Stored, StrictlyLater, IsSeq(recs), idx \in DOMAIN Registry,
         now <= cycle, NEW new, IsSeq(new),
         \A i \in DOMAIN new :
           new[i].at = now /\ Home(new[i]) /\ new[i].collector = Collector,
         \A i, j \in DOMAIN new :
           i # j /\ Target(new[i]) = Target(new[j]) => Twins(Target(new[i])),
         recs' = recs \o new, idx' = idx + 1, UNCHANGED << cfg, now, cycle, stepped >>
  PROVE  (IsSeq(recs) /\ Stored /\ StrictlyLater)'
<1> DEFINE after == recs \o new
<1>1. /\ IsSeq(after)
      /\ \A i \in DOMAIN recs : i \in DOMAIN after /\ after[i] = recs[i]
      /\ \A i \in DOMAIN new : Len(recs) + i \in DOMAIN after /\ after[Len(recs) + i] = new[i]
      /\ \A i \in DOMAIN after :
           \/ i \in DOMAIN recs
           \/ i > Len(recs) /\ i - Len(recs) \in DOMAIN new /\ after[i] = new[i - Len(recs)]
  BY ConcatFacts
<1>2. recs' = after
  OBVIOUS
<1> HIDE DEF after
<1>3. /\ IsSeq(Registry) /\ IsInjective(Registry) /\ idx \in 1..Len(Registry)
      /\ Len(Registry) \in Nat /\ DOMAIN Registry = 1..Len(Registry) /\ Registry' = Registry
  BY RegistryFacts, SeqDomain, ConfigKept
<1>4. 1 .. idx' - 1 = (1 .. idx - 1) \cup {idx}
  BY <1>3
<1>5. now \in Int /\ Len(recs) \in Nat /\ DOMAIN recs = 1..Len(recs) /\ DOMAIN after \subseteq Int
  BY <1>1, SeqDomain DEF WorldType
<1>6. ASSUME NEW i \in DOMAIN after, i \notin DOMAIN recs
      PROVE  after[i].at = now /\ Home(after[i]) /\ after[i].collector = Collector
  BY <1>1, <1>6
<1>7. Stored'
  <2> SUFFICES ASSUME NEW i \in DOMAIN after
               PROVE  /\ after[i].at \in Int /\ after[i].at <= cycle
                      /\ Home(after[i])
                      /\ ~stepped => after[i].at <= now
                      /\ ~stepped /\ after[i].at = now =>
                           \/ after[i].collector = "evidenced"
                           \/ \E k \in 1 .. idx' - 1 : after[i].collector = Registry[k]
    BY <1>2, <1>3 DEF Stored
  <2>1. CASE i \in DOMAIN recs
    BY <1>1, <1>4, <2>1 DEF Stored
  <2>2. CASE i \notin DOMAIN recs
    <3>1. after[i].at = now /\ Home(after[i]) /\ after[i].collector = Registry[idx]
      BY <1>6, <2>2 DEF Collector
    <3>2. idx \in 1 .. idx' - 1
      BY <1>4
    <3> QED BY <1>5, <3>1, <3>2
  <2> QED BY <2>1, <2>2
<1>8. \A t : Twins(t)' <=> Twins(t)
  BY DEF Twins
<1>9. StrictlyLater'
  <2> SUFFICES ASSUME ~stepped, NEW i \in DOMAIN after, NEW j \in DOMAIN after, i < j,
                      Target(after[i]) = Target(after[j])
               PROVE  after[i].at < after[j].at \/ Twins(Target(after[i]))
    BY <1>2, <1>8 DEF StrictlyLater
  <2>1. CASE j \in DOMAIN recs
    <3>1. i \in DOMAIN recs
      BY <1>1, <1>5, <2>1
    <3> QED BY <1>1, <2>1, <3>1 DEF StrictlyLater
  <2>2. CASE i \notin DOMAIN recs /\ j \notin DOMAIN recs
    <3>1. /\ i - Len(recs) \in DOMAIN new /\ after[i] = new[i - Len(recs)]
          /\ j - Len(recs) \in DOMAIN new /\ after[j] = new[j - Len(recs)]
      BY <1>1, <2>2
    <3>2. i - Len(recs) # j - Len(recs)
      BY <1>5
    <3> QED BY <3>1, <3>2
  <2>3. CASE i \in DOMAIN recs /\ j \notin DOMAIN recs
    <3>1. after[i] = recs[i] /\ after[j].at = now /\ Home(after[j]) /\ after[j].collector = Collector
      BY <1>1, <1>6, <2>3
    <3>2. /\ Home(recs[i]) /\ recs[i].at \in Int /\ recs[i].at <= now
          /\ recs[i].at = now => recs[i].collector = "evidenced"
                                   \/ \E k \in 1 .. idx - 1 : recs[i].collector = Registry[k]
      BY <2>3 DEF Stored
    <3>3. recs[i].collector = Collector
      BY <3>1, <3>2, HomeFacts
    <3>4. Collector # "evidenced"
      BY RegistryFacts DEF Collector, Ids
    <3>5. ASSUME NEW k \in 1 .. idx - 1 PROVE Registry[k] # Registry[idx]
      <4>1. k \in DOMAIN Registry /\ k # idx
        BY <1>3
      <4> QED BY <1>3, <4>1 DEF IsInjective
    <3>6. recs[i].at # now
      BY <3>2, <3>3, <3>4, <3>5 DEF Collector
    <3> QED BY <1>5, <3>1, <3>2, <3>6
  <2> QED BY <2>1, <2>2, <2>3
<1> QED
  BY <1>1, <1>2, <1>7, <1>9
-----------------------------------------------------------------------------
LEMMA InitInv == Init => Inv
<1> SUFFICES ASSUME Init PROVE Inv
  OBVIOUS
<1>1. /\ cfg \in Configs /\ now = 1 /\ calls = << >> /\ out = << >> /\ recs = << >>
      /\ cycle = 1 /\ idx = 1 /\ active = FALSE /\ gaps = {} /\ stepped = FALSE
  BY DEF Init, CollectorsInit
<1>2. WorldType
  <2>1. /\ world \in [cfg.objects -> {Absent} \cup UNION {Contents[o] : o \in cfg.objects}]
        /\ \A o \in cfg.objects : world[o] \in Contents[o] \cup {Absent}
    BY DEF Init, CollectorsInit
  <2> QED BY <1>1, <2>1 DEF WorldType
<1>3. IsSeq(<< >>) /\ DOMAIN << >> = {}
  <2>1. << >> \in Seq({}) /\ DOMAIN << >> = {}
    OBVIOUS
  <2> QED BY <2>1, InSeqIsSeq
<1>4. Len(Registry) \in Nat
  BY RegistryFacts, SeqDomain
<1>5. ReportType
  <2>1. IsSeq(calls) /\ IsSeq(out) /\ IsSeq(recs)
    BY <1>1, <1>3
  <2>2. idx \in 1 .. Len(Registry) + 1 /\ cycle \in Int /\ now <= cycle
    BY <1>1, <1>4
  <2> QED BY <1>1, <1>2, <2>1, <2>2 DEF ReportType
<1>6. Underway
  BY <1>1 DEF Underway
<1>7. Stored /\ StrictlyLater /\ GapsReported
  BY <1>1, <1>3 DEF Stored, StrictlyLater, GapsReported
<1> QED BY <1>5, <1>6, <1>7 DEF Inv

(* What is known while a collector runs. *)
LEMMA Running ==
  ASSUME Inv, active
  PROVE  /\ idx \in DOMAIN Registry /\ Collector \in Ids
         /\ DOMAIN Registry = 1..Len(Registry) /\ Len(Registry) \in Nat
         /\ HeldType /\ WorldType
         /\ Progress(CallsOf(Collector), calls, out)
         /\ IsSeq(calls) /\ IsSeq(out) /\ IsSeq(recs)
  BY RegistryFacts, SeqDomain DEF Inv, Underway, ReportType, Collector

LEMMA CollectStep ==
  ASSUME Inv, Collect
  PROVE  Inv'
<1>0. PICK C : C = CallsOf(Collector)
  OBVIOUS
<1>1. /\ calls' = C /\ out' = << >> /\ active' = TRUE
      /\ held' = [o \in cfg.objects |-> {world[o]}]
      /\ UNCHANGED << cfg, world, now, idx, recs, cycle, gaps, stepped >>
      /\ idx <= Len(Registry)
  BY <1>0 DEF Collect, Begin, envVars, Collector
<1>2. ReportType /\ Stored /\ StrictlyLater /\ GapsReported
  BY DEF Inv
<1>3. Registry' = Registry /\ Collector' = Collector /\ CallsOf(Collector)' = C
  <2>1. Registry' = Registry /\ \A col : CallsOf(col)' = CallsOf(col)
    BY <1>1, ConfigKept
  <2>2. Collector' = Collector
    BY <1>1, <2>1 DEF Collector
  <2> QED BY <1>0, <2>1, <2>2
<1>4. idx \in DOMAIN Registry /\ Collector \in Ids
  <2>1. IsSeq(Registry) /\ idx \in 1 .. Len(Registry) + 1
    BY <1>2, RegistryFacts DEF ReportType
  <2>2. idx \in DOMAIN Registry
    BY <1>1, <2>1, SeqDomain
  <2> QED BY <2>2, RegistryFacts DEF Collector
<1>5. IsSeq(C) /\ Len(C) \in Nat /\ DOMAIN C = 1..Len(C)
  BY <1>0, <1>2, <1>4, CallsFacts, SeqDomain DEF ReportType, WorldType
<1>6. IsSeq(<< >>) /\ DOMAIN << >> = {}
  <2>1. << >> \in Seq({}) /\ DOMAIN << >> = {}
    OBVIOUS
  <2> QED BY <2>1, InSeqIsSeq
<1>7. ReportType'
  <2>1. WorldType'
    BY <1>1, <1>2 DEF ReportType, WorldType
  <2>2. (IsSeq(calls) /\ IsSeq(out) /\ IsSeq(recs))'
    BY <1>1, <1>2, <1>5, <1>6 DEF ReportType
  <2>3. (idx \in 1 .. Len(Registry) + 1 /\ cycle \in Int /\ now <= cycle /\ stepped \in BOOLEAN)'
    BY <1>1, <1>2, <1>3 DEF ReportType
  <2> QED BY <1>1, <2>1, <2>2, <2>3 DEF ReportType
<1>8. Underway'
  <2>1. HeldType'
    BY <1>1 DEF HeldType
  <2>2. Progress(C, C, << >>)'
    <3>1. Len(C) - Len(C) = 0 /\ 1..0 = {}
      BY <1>5
    <3>2. \A i \in DOMAIN C : 0 + i = i
      BY <1>5
    <3> QED BY <1>5, <1>6, <3>1, <3>2 DEF Progress
  <2>3. Progress(CallsOf(Collector), calls, out)'
    BY <1>1, <1>3, <2>2
  <2> QED BY <1>1, <1>3, <1>4, <2>1, <2>3 DEF Underway
<1>9. (Stored /\ StrictlyLater /\ GapsReported)'
  BY <1>1, <1>2, StoreKept
<1> QED BY <1>7, <1>8, <1>9 DEF Inv

LEMMA CallStep ==
  ASSUME Inv, CollectorCall
  PROVE  Inv'
<1>0. PICK C : C = CallsOf(Collector)
  OBVIOUS
<1>1. /\ calls # << >> /\ calls' = Tail(calls)
      /\ out' = out \o RecordsOf(Head(calls))
      /\ UNCHANGED << cfg, world, now, held, idx, active, recs, cycle, gaps, stepped >>
  BY DEF CollectorCall, Call, envVars
<1>2. ReportType /\ Stored /\ StrictlyLater /\ GapsReported
  BY DEF Inv
<1>3. active
  BY <1>1, <1>2 DEF ReportType
<1>4. /\ idx \in DOMAIN Registry /\ Collector \in Ids /\ HeldType /\ WorldType
      /\ Progress(C, calls, out) /\ IsSeq(calls) /\ IsSeq(out) /\ IsSeq(recs)
  BY <1>0, <1>3, Running
<1>5. Registry' = Registry /\ Collector' = Collector /\ CallsOf(Collector)' = C
  <2>1. Registry' = Registry /\ \A col : CallsOf(col)' = CallsOf(col)
    BY <1>1, ConfigKept
  <2>2. Collector' = Collector
    BY <1>1, <2>1 DEF Collector
  <2> QED BY <1>0, <2>1, <2>2
<1>6. /\ IsSeq(Tail(calls)) /\ IsSeq(out \o RecordsOf(Head(calls)))
      /\ Progress(C, Tail(calls), out \o RecordsOf(Head(calls)))
  BY <1>0, <1>1, <1>4, CallProgress
<1>7. Progress(CallsOf(Collector), calls, out)'
  <2>1. \A o \in cfg.objects : held'[o] = held[o] \cup {world'[o]}
    BY <1>1, <1>4 DEF HeldType
  <2>2. \A cs, os : Progress(C, cs, os) => Progress(C, cs, os)'
    BY <1>1, <1>4, <2>1, ProgressKept
  <2>3. \A cs, os : cs = Tail(calls) /\ os = out \o RecordsOf(Head(calls))
                      => Progress(C, cs, os)'
    BY <1>6, <2>2
  <2> QED BY <1>1, <1>5, <2>3
<1>8. ReportType'
  <2>1. WorldType'
    BY <1>1, <1>4 DEF WorldType
  <2>2. (IsSeq(calls) /\ IsSeq(out) /\ IsSeq(recs))'
    BY <1>1, <1>4, <1>6
  <2>3. (idx \in 1 .. Len(Registry) + 1 /\ cycle \in Int /\ now <= cycle /\ stepped \in BOOLEAN)'
    BY <1>1, <1>2, <1>5 DEF ReportType
  <2> QED BY <1>1, <1>3, <2>1, <2>2, <2>3 DEF ReportType
<1>9. Underway'
  <2>1. HeldType'
    BY <1>1, <1>4 DEF HeldType
  <2> QED BY <1>1, <1>4, <1>5, <1>7, <2>1 DEF Underway
<1>10. (Stored /\ StrictlyLater /\ GapsReported)'
  BY <1>1, <1>2, StoreKept
<1> QED BY <1>8, <1>9, <1>10 DEF Inv

LEMMA WorldStep ==
  ASSUME Inv, WorldChanges
  PROVE  Inv'
<1>0. PICK C : C = CallsOf(Collector)
  OBVIOUS
<1>1. PICK o \in cfg.objects : \E c \in (Contents[o] \cup {Absent}) \ {world[o]} :
        /\ world' = [world EXCEPT ![o] = c]
        /\ held' = [x \in DOMAIN held |-> held[x] \cup {world'[x]}]
  BY DEF WorldChanges, Change
<1>2. UNCHANGED << cfg, now, calls, out, idx, active, recs, cycle, gaps, stepped >>
  BY DEF WorldChanges, Change
<1>3. ReportType /\ Stored /\ StrictlyLater /\ GapsReported
  BY DEF Inv
<1>4. Registry' = Registry /\ Collector' = Collector /\ CallsOf(Collector)' = C
  <2>1. Registry' = Registry /\ \A col : CallsOf(col)' = CallsOf(col)
    BY <1>2, ConfigKept
  <2>2. Collector' = Collector
    BY <1>2, <2>1 DEF Collector
  <2> QED BY <1>0, <2>1, <2>2
<1>5. ReportType'
  <2>1. WorldType'
    BY <1>1, <1>2, <1>3 DEF ReportType, WorldType
  <2>2. (IsSeq(calls) /\ IsSeq(out) /\ IsSeq(recs))'
    BY <1>2, <1>3 DEF ReportType
  <2>3. (idx \in 1 .. Len(Registry) + 1 /\ cycle \in Int /\ now <= cycle /\ stepped \in BOOLEAN)'
    BY <1>2, <1>3, <1>4 DEF ReportType
  <2>4. (active \in BOOLEAN /\ (~active => calls = << >> /\ out = << >>))'
    BY <1>2, <1>3 DEF ReportType
  <2> QED BY <2>1, <2>2, <2>3, <2>4 DEF ReportType
<1>6. ASSUME active
      PROVE  idx \in DOMAIN Registry /\ HeldType' /\ Progress(CallsOf(Collector), calls, out)'
  <2>1. /\ idx \in DOMAIN Registry /\ HeldType /\ WorldType
        /\ Progress(C, calls, out)
    BY <1>0, <1>6, Running
  <2>2. \A x \in cfg.objects : held'[x] = held[x] \cup {world'[x]}
    BY <1>1, <2>1 DEF HeldType
  <2>3. HeldType'
    BY <1>1, <1>2, <2>1, <2>2 DEF HeldType
  <2>4. \A cs, os : Progress(C, cs, os) => Progress(C, cs, os)'
    BY <1>2, <2>1, <2>2, ProgressKept
  <2> QED BY <1>2, <1>4, <2>1, <2>3, <2>4
<1>7. Underway'
  BY <1>2, <1>4, <1>6 DEF Underway
<1>8. (Stored /\ StrictlyLater /\ GapsReported)'
  BY <1>2, <1>3, StoreKept
<1> QED BY <1>5, <1>7, <1>8 DEF Inv

(* After a collection nothing is left of it. *)
LEMMA ReturnedTypes ==
  ASSUME Inv, active, Returned
  PROVE  /\ WorldType' /\ Underway'
         /\ (active \in BOOLEAN /\ stepped \in BOOLEAN)'
         /\ (idx \in 1 .. Len(Registry) + 1 /\ cycle \in Int /\ now <= cycle)'
         /\ (IsSeq(calls) /\ IsSeq(out))'
         /\ (~active => calls = << >> /\ out = << >>)'
<1>1. /\ active' = FALSE /\ idx' = idx + 1 /\ calls' = << >> /\ out' = << >>
      /\ UNCHANGED << cfg, world, now, cycle, stepped >>
  BY DEF Returned
<1>2. ReportType
  BY DEF Inv
<1>3. WorldType'
  BY <1>1, <1>2 DEF ReportType, WorldType
<1>4. IsSeq(<< >>)
  <2>1. << >> \in Seq({})
    OBVIOUS
  <2> QED BY <2>1, InSeqIsSeq
<1>5. idx' \in 1 .. Len(Registry) + 1 /\ Registry' = Registry
  BY <1>1, Running, ConfigKept
<1>6. (cycle \in Int /\ now <= cycle /\ stepped \in BOOLEAN)'
  BY <1>1, <1>2 DEF ReportType
<1> QED
  BY <1>1, <1>3, <1>4, <1>5, <1>6 DEF Underway

LEMMA CollectOkStep ==
  ASSUME Inv, CollectOk
  PROVE  Inv'
<1> DEFINE new == [i \in DOMAIN out |-> Rec(Collector, out[i])]
           C == CallsOf(Collector)
<1>1. /\ active /\ recs' = recs \o new /\ Returned
      /\ gaps' = gaps \cup {[collector |-> Collector, at |-> out[i].at, name |-> out[i].name] :
                              i \in {k \in DOMAIN out : out[k].failed}}
  BY DEF CollectOk, Collector
<1>2. ReportType /\ Stored /\ StrictlyLater /\ GapsReported
  BY DEF Inv
<1>3. /\ idx \in DOMAIN Registry /\ Collector \in Ids /\ WorldType
      /\ Progress(C, calls, out) /\ IsSeq(calls) /\ IsSeq(out) /\ IsSeq(recs)
  BY <1>1, Running
<1>4. /\ DOMAIN new = DOMAIN out
      /\ \A i \in DOMAIN out : new[i] = Rec(Collector, out[i])
  OBVIOUS
<1>5. IsSeq(new)
  <2>1. Len(out) \in Nat /\ DOMAIN out = 1..Len(out)
    BY <1>3, SeqDomain
  <2> HIDE DEF new
  <2>2. new \in [1..Len(out) -> ToSet(new)]
    <3>1. new = [i \in 1..Len(out) |-> new[i]]
      BY <1>4, <2>1 DEF new
    <3> QED BY <1>4, <2>1, <3>1 DEF ToSet
  <2> QED BY <2>1, <2>2, FunctionIsSeq DEF IsSeq
<1> HIDE DEF new, C
<1>6. ASSUME NEW i \in DOMAIN out
      PROVE  /\ new[i].at = now /\ Home(new[i]) /\ new[i].collector = Collector
             /\ new[i].failed = out[i].failed /\ new[i].name = out[i].name
             /\ out[i].at = now
             /\ Target(new[i]) = Target(out[i])
  <2>1. PICK m \in 1 .. Len(C) - Len(calls) : Made(C[m], out[i])
    BY <1>3 DEF Progress
  <2>2. C[m] \in ToSet(C)
    <3>1. IsSeq(C)
      BY <1>3, CallsFacts DEF C, WorldType
    <3>2. m \in DOMAIN C
      BY <1>3, <3>1, SeqDomain
    <3> QED BY <3>2 DEF ToSet
  <2>3. MadeBy(Collector, C[m])
    BY <1>3, <2>2, CallsFacts DEF C, WorldType
  <2>4. out[i].type \in TypesOf(Collector)
    BY <1>3, <2>1, <2>3, MadeHome DEF WorldType
  <2>5. /\ new[i].collector = Collector /\ new[i].type = out[i].type
        /\ new[i].name = out[i].name /\ new[i].failed = out[i].failed
        /\ new[i].at = out[i].at
    BY <1>4 DEF Rec
  <2>6. out[i].at = now
    BY <2>1 DEF Made
  <2>7. Home(new[i])
    BY <1>3, <2>4, <2>5 DEF Home
  <2> QED BY <2>5, <2>6, <2>7 DEF Target
<1>7. ASSUME NEW i \in DOMAIN new, NEW j \in DOMAIN new, i # j, Target(new[i]) = Target(new[j])
      PROVE  Twins(Target(new[i]))
  <2>1. Apart(out[i], out[j])
    BY <1>3, <1>4, <1>7 DEF Progress
  <2> QED BY <1>4, <1>6, <1>7, <2>1 DEF Apart
<1>8. UNCHANGED << cfg, now, cycle, stepped >> /\ idx' = idx + 1 /\ now <= cycle
  BY <1>1, <1>2 DEF Returned, ReportType
<1>9. (IsSeq(recs) /\ Stored /\ StrictlyLater)'
  BY <1>1, <1>2, <1>3, <1>4, <1>5, <1>6, <1>7, <1>8, AppendKeeps
<1>10. GapsReported'
  <2>1. /\ \A i \in DOMAIN recs : i \in DOMAIN recs' /\ recs'[i] = recs[i]
        /\ \A i \in DOMAIN new : Len(recs) + i \in DOMAIN recs' /\ recs'[Len(recs) + i] = new[i]
    BY <1>1, <1>3, <1>5, ConcatFacts
  <2> SUFFICES ASSUME NEW g \in gaps'
               PROVE  \E i \in DOMAIN recs' :
                        /\ recs'[i].failed /\ recs'[i].collector = g.collector
                        /\ recs'[i].at = g.at /\ recs'[i].name = g.name
    BY DEF GapsReported, FailuresSection
  <2>2. CASE g \in gaps
    BY <1>2, <2>1, <2>2 DEF GapsReported, FailuresSection
  <2>3. CASE g \notin gaps
    <3>1. PICK i \in DOMAIN out :
            /\ out[i].failed
            /\ g = [collector |-> Collector, at |-> out[i].at, name |-> out[i].name]
      BY <1>1, <2>3
    <3>2. /\ g.collector = Collector /\ g.at = now /\ new[i].failed /\ i \in DOMAIN new
          /\ g.name = new[i].name
      BY <1>4, <1>6, <3>1
    <3> QED BY <1>6, <2>1, <3>2
  <2> QED BY <2>2, <2>3
<1> QED
  BY <1>1, <1>9, <1>10, ReturnedTypes DEF Inv, ReportType

LEMMA CollectFailsStep ==
  ASSUME Inv, CollectFails
  PROVE  Inv'
<1> DEFINE r == Rec(Collector, [type |-> "evidenced/collector-run", name |-> << Collector >>,
                                failed |-> TRUE, at |-> now])
           new == << r >>
<1>1. /\ calls # << >> /\ recs' = recs \o new /\ Returned
      /\ gaps' = gaps \cup {[collector |-> Collector, at |-> now, name |-> << Collector >>]}
  BY DEF CollectFails, FailureRecord, Collector
<1>2. ReportType /\ Stored /\ StrictlyLater /\ GapsReported
  BY DEF Inv
<1>3. active
  BY <1>1, <1>2 DEF ReportType
<1>4. idx \in DOMAIN Registry /\ Collector \in Ids /\ WorldType /\ IsSeq(recs)
  BY <1>3, Running
<1>5. /\ r.collector = Collector /\ r.type = "evidenced/collector-run"
      /\ r.name = << Collector >> /\ r.failed = TRUE /\ r.at = now
  BY DEF Rec
<1> HIDE DEF r
<1>6. IsSeq(new) /\ DOMAIN new = {1} /\ new[1] = r
  <2>1. r \in {r}
    OBVIOUS
  <2>2. new \in Seq({r}) /\ DOMAIN new = {1} /\ new[1] = r
    BY <2>1, Kinds1
  <2> QED BY <2>2, InSeqIsSeq
<1> HIDE DEF new
<1>7. Home(r)
  BY <1>4, <1>5 DEF Home
<1>8. UNCHANGED << cfg, now, cycle, stepped >> /\ idx' = idx + 1 /\ now <= cycle
  BY <1>1, <1>2 DEF Returned, ReportType
<1>9. /\ \A i \in DOMAIN new :
           new[i].at = now /\ Home(new[i]) /\ new[i].collector = Collector
      /\ \A i, j \in DOMAIN new :
           i # j /\ Target(new[i]) = Target(new[j]) => Twins(Target(new[i]))
  BY <1>5, <1>6, <1>7
<1>10. (IsSeq(recs) /\ Stored /\ StrictlyLater)'
  BY <1>1, <1>2, <1>4, <1>6, <1>8, <1>9, AppendKeeps
<1>11. GapsReported'
  <2>1. /\ \A i \in DOMAIN recs : i \in DOMAIN recs' /\ recs'[i] = recs[i]
        /\ \A i \in DOMAIN new : Len(recs) + i \in DOMAIN recs' /\ recs'[Len(recs) + i] = new[i]
    <3>1. recs' = recs \o new /\ IsSeq(recs) /\ IsSeq(new)
      BY <1>1, <1>4, <1>6
    <3> QED BY <3>1, ConcatFacts
  <2> SUFFICES ASSUME NEW g \in gaps'
               PROVE  \E i \in DOMAIN recs' :
                        /\ recs'[i].failed /\ recs'[i].collector = g.collector
                        /\ recs'[i].at = g.at /\ recs'[i].name = g.name
    BY DEF GapsReported, FailuresSection
  <2>2. CASE g \in gaps
    BY <1>2, <2>1, <2>2 DEF GapsReported, FailuresSection
  <2>3. CASE g \notin gaps
    <3>1. g.collector = Collector /\ g.at = now /\ g.name = << Collector >>
      BY <1>1, <2>3
    <3>2. Len(recs) + 1 \in DOMAIN recs' /\ recs'[Len(recs) + 1] = r
      BY <1>6, <2>1
    <3> QED BY <1>5, <3>1, <3>2
  <2> QED BY <2>2, <2>3
<1> QED
  BY <1>1, <1>3, <1>10, <1>11, ReturnedTypes DEF Inv, ReportType

LEMMA NextCycleStep ==
  ASSUME Inv, NextCycle
  PROVE  Inv'
<1> DEFINE rotation == [collector |-> "evidenced", type |-> "evidenced/chain-rotation",
                        name |-> << "store" >>, failed |-> FALSE, at |-> now', controls |-> {}]
<1>1. /\ idx > Len(Registry) /\ cycle' = cycle + 1 /\ idx' = 1
      /\ now' \in {now + 1, now - 1}
      /\ stepped' = (stepped \/ now' < now)
      /\ (UNCHANGED << recs, gaps >>) \/ (recs' = << rotation >> /\ gaps' = {})
      /\ UNCHANGED << cfg, world, active, calls, out >>
  BY DEF NextCycle, collecting
<1>2. ReportType /\ Underway /\ Stored /\ StrictlyLater /\ GapsReported
  BY DEF Inv
<1>3. now \in Int /\ cycle \in Int /\ now <= cycle /\ now' \in Int /\ now' <= cycle'
  BY <1>1, <1>2 DEF ReportType, WorldType
<1>4. ~stepped' => ~stepped /\ now' = now + 1
  <2>1. ~stepped' => ~stepped /\ ~(now' < now)
    BY <1>1
  <2>2. ~(now' < now) => now' = now + 1
    BY <1>1, <1>3
  <2> QED BY <2>1, <2>2
<1>5. IsSeq(Registry) /\ Len(Registry) \in Nat /\ DOMAIN Registry = 1..Len(Registry)
      /\ Registry' = Registry
  BY <1>1, RegistryFacts, SeqDomain, ConfigKept
<1>6. ~active
  BY <1>1, <1>2, <1>5 DEF Underway
<1>7. ASSUME recs' = << rotation >>
      PROVE  IsSeq(recs') /\ DOMAIN recs' = {1} /\ recs'[1] = rotation
  <2>1. rotation \in {rotation}
    OBVIOUS
  <2> HIDE DEF rotation
  <2>2. << rotation >> \in Seq({rotation}) /\ DOMAIN << rotation >> = {1}
        /\ << rotation >>[1] = rotation
    BY <2>1, Kinds1
  <2> QED BY <1>7, <2>2, InSeqIsSeq
<1>8. ReportType'
  <2>1. WorldType'
    BY <1>1, <1>2, <1>3 DEF ReportType, WorldType
  <2>2. IsSeq(recs')
    BY <1>1, <1>2, <1>7 DEF ReportType
  <2>3. idx' \in 1 .. Len(Registry') + 1 /\ cycle' \in Int
    BY <1>1, <1>3, <1>5
  <2>4. stepped' \in BOOLEAN /\ active' \in BOOLEAN
    BY <1>1, <1>2 DEF ReportType
  <2>5. (IsSeq(calls) /\ IsSeq(out) /\ (~active => calls = << >> /\ out = << >>))'
    BY <1>1, <1>2 DEF ReportType
  <2> QED BY <1>3, <2>1, <2>2, <2>3, <2>4, <2>5 DEF ReportType
<1>9. Underway'
  BY <1>1, <1>6 DEF Underway
<1>10. CASE UNCHANGED << recs, gaps >>
  <2>1. Stored'
    BY <1>2, <1>3, <1>4, <1>1, <1>10 DEF Stored
  <2>2. StrictlyLater'
    <3>1. \A t : Twins(t)' <=> Twins(t)
      BY <1>1 DEF Twins
    <3> QED BY <1>2, <1>4, <1>10, <3>1 DEF StrictlyLater
  <2>3. GapsReported'
    BY <1>2, <1>10 DEF GapsReported, FailuresSection
  <2> QED BY <1>8, <1>9, <2>1, <2>2, <2>3 DEF Inv
<1>11. CASE recs' = << rotation >> /\ gaps' = {}
  <2>1. DOMAIN recs' = {1} /\ recs'[1] = rotation
    BY <1>7, <1>11
  <2>2. Stored'
    BY <1>3, <2>1 DEF Stored, Home
  <2>3. StrictlyLater'
    BY <2>1 DEF StrictlyLater
  <2>4. GapsReported'
    BY <1>11 DEF GapsReported
  <2> QED BY <1>8, <1>9, <2>2, <2>3, <2>4 DEF Inv
<1> QED BY <1>1, <1>10, <1>11

LEMMA StutterStep ==
  ASSUME Inv, UNCHANGED vars
  PROVE  Inv'
<1>1. UNCHANGED << cfg, world, now, calls, out, held, cycle, idx, active, recs, gaps, stepped >>
  BY DEF vars, envVars, collecting
<1>2. ReportType /\ Underway /\ Stored /\ StrictlyLater /\ GapsReported
  BY DEF Inv
<1>3. Registry' = Registry /\ Collector' = Collector /\ CallsOf(Collector)' = CallsOf(Collector)
  <2>1. Registry' = Registry /\ \A col : CallsOf(col)' = CallsOf(col)
    BY <1>1, ConfigKept
  <2>2. Collector' = Collector
    BY <1>1, <2>1 DEF Collector
  <2> QED BY <2>1, <2>2
<1>4. ReportType'
  <2>1. WorldType'
    BY <1>1, <1>2 DEF ReportType, WorldType
  <2> QED BY <1>1, <1>2, <1>3, <2>1 DEF ReportType
<1>5. Underway'
  <2>1. PICK C : C = CallsOf(Collector)
    OBVIOUS
  <2>2. ASSUME active
        PROVE  HeldType' /\ Progress(CallsOf(Collector), calls, out)'
    <3>1. HeldType /\ WorldType /\ Progress(C, calls, out)
      BY <2>1, <2>2, Running
    <3>2. \A x \in cfg.objects : held'[x] = held[x] \cup {world'[x]}
      BY <1>1, <3>1 DEF HeldType
    <3>3. \A cs, os : Progress(C, cs, os) => Progress(C, cs, os)'
      BY <1>1, <3>1, <3>2, ProgressKept
    <3>4. HeldType'
      BY <1>1, <3>1 DEF HeldType
    <3> QED BY <1>1, <1>3, <2>1, <3>1, <3>3, <3>4
  <2> QED BY <1>1, <1>2, <1>3, <2>2 DEF Underway
<1>6. (Stored /\ StrictlyLater /\ GapsReported)'
  BY <1>1, <1>2, StoreKept
<1> QED BY <1>4, <1>5, <1>6 DEF Inv

THEOREM InvAlways == Spec => []Inv
<1>1. Inv /\ [Next]_vars => Inv'
  BY CollectStep, CallStep, CollectOkStep, CollectFailsStep, WorldStep, NextCycleStep, StutterStep
  DEF Next
<1> QED
  BY <1>1, InitInv, PTL DEF Spec
-----------------------------------------------------------------------------
(* What the invariant says of a collection that is over. *)
LEMMA SeenFromInv == Inv => EverythingSeen
<1> SUFFICES ASSUME Inv, Returning, NEW o \in cfg.objects, Covers(Registry[idx], o), InScope(o),
                    held[o] = {world[o]}, Noteworthy(o, world[o])
             PROVE  \E i \in DOMAIN out : Says(out[i], o, world[o])
  BY DEF EverythingSeen
<1> DEFINE C == CallsOf(Collector)
<1>1. active /\ calls = << >>
  BY DEF Returning
<1>2. Collector \in Ids /\ WorldType /\ Progress(C, calls, out)
  BY <1>1, Running
<1>3. PICK m \in DOMAIN C : Selects(C[m], o)
  BY <1>2, CoveredIsSelected DEF WorldType, Collector
<1>4. m \in 1 .. Len(C) - Len(calls)
  <2>1. IsSeq(C)
    BY <1>2, CallsFacts DEF WorldType
  <2>2. DOMAIN C = 1..Len(C) /\ Len(C) \in Nat
    BY <2>1, SeqDomain
  <2>3. Len(calls) = 0
    BY <1>1
  <2> HIDE DEF C
  <2> QED BY <1>3, <2>2, <2>3
<1> QED
  BY <1>2, <1>3, <1>4 DEF Progress

LEMMA SourceOf ==
  ASSUME Inv, active, NEW i \in DOMAIN out
  PROVE  \E call : MadeBy(Collector, call) /\ Made(call, out[i])
<1> DEFINE C == CallsOf(Collector)
<1>1. /\ Collector \in Ids /\ WorldType /\ Progress(C, calls, out)
      /\ IsSeq(calls)
  BY Running
<1>2. PICK m \in 1 .. Len(C) - Len(calls) : Made(C[m], out[i])
  BY <1>1 DEF Progress
<1>3. IsSeq(C)
  BY <1>1, CallsFacts DEF WorldType
<1>4. C[m] \in ToSet(C)
  <2> HIDE DEF C
  <2>1. DOMAIN C = 1..Len(C) /\ Len(C) \in Nat /\ Len(calls) \in Nat
    BY <1>1, <1>3, SeqDomain
  <2>2. m \in DOMAIN C
    BY <2>1
  <2> QED BY <2>2 DEF ToSet
<1> QED
  BY <1>1, <1>2, <1>4, CallsFacts DEF WorldType

LEMMA InventedFromInv == Inv => NothingInvented
<1> SUFFICES ASSUME Inv, Returning, NEW i \in DOMAIN out
             PROVE  CASE out[i].type = "admission/policy" ->
                           \A n \in out[i].obs.hooks : \E o \in cfg.objects :
                             o.res = "webhook" /\ o.name = n /\ held[o] # {Absent}
                      [] out[i].type = "rbac/service-account" ->
                           \A n \in DOMAIN out[i].obs.perNamespace : \E o \in cfg.objects :
                             o.res = "serviceaccount" /\ o.ns = n /\ held[o] # {Absent}
                      [] OTHER ->
                           \E o \in cfg.objects : \E c \in held[o] :
                             /\ Covers(Registry[idx], o) /\ InScope(o) /\ Noteworthy(o, c)
                             /\ Says(out[i], o, c)
  BY DEF NothingInvented
<1>1. Collector \in Ids /\ WorldType
  BY Running DEF Returning
<1>2. PICK call : MadeBy(Collector, call) /\ Made(call, out[i])
  BY SourceOf DEF Returning
<1>3. CASE Summarises(out[i], call.res)
  BY <1>3 DEF Summarises
<1>4. CASE FoundBy(call, out[i])
  <2>1. PICK o \in cfg.objects : \E c \in held[o] :
          Selects(call, o) /\ Noteworthy(o, c) /\ Tells(out[i], o, c)
    BY <1>4 DEF FoundBy
  <2>2. o.res \notin Summarised
    BY <1>4, <2>1 DEF FoundBy, Selects
  <2>3. Covers(Registry[idx], o) /\ InScope(o)
    BY <1>1, <1>2, <2>1, SelectedIsCovered DEF WorldType, Collector
  <2>4. Target(out[i]) = TargetOf(o) /\ Target(out[i])[1] = out[i].type
    <3>1. \A a, b : << a, b >>[1] = a
      OBVIOUS
    <3> QED BY <2>1, <3>1 DEF Tells, Target
  <2>5. out[i].type \notin {"admission/policy", "rbac/service-account"}
    BY <1>1, <2>2, <2>4, TargetParts DEF WorldType
  <2>6. \E c \in held[o] : Noteworthy(o, c) /\ Says(out[i], o, c)
    BY <2>1 DEF Tells
  <2> QED BY <2>3, <2>5, <2>6
<1> QED
  BY <1>2, <1>3, <1>4 DEF Made

LEMMA IdentifyFromInv == Inv => TargetsIdentify
<1> SUFFICES ASSUME Inv, active, NEW i \in DOMAIN out, NEW j \in DOMAIN out, i # j,
                    Target(out[i]) = Target(out[j])
             PROVE  Twins(Target(out[i])) /\ out[i].obs.kind # out[j].obs.kind
  BY DEF TargetsIdentify, Returning
<1>1. Apart(out[i], out[j])
  BY Running DEF Progress
<1> QED BY <1>1 DEF Apart

(***************************************************************************)
(* "for every Deployment, StatefulSet and DaemonSet" and so on: whatever   *)
(* the cluster, however it changes during a collection and whichever calls *)
(* are made when, what stayed as it was has its record (EverythingSeen).   *)
(***************************************************************************)
THEOREM EverythingAlwaysSeen == Spec => []EverythingSeen
  BY InvAlways, SeenFromInv, PTL

(***************************************************************************)
(* A record says what was so of an object during the collection, and a     *)
(* summary names what was there: the loops over the calls' results make    *)
(* nothing up, in clusters of any size (NothingInvented).                  *)
(***************************************************************************)
THEOREM NothingEverInvented == Spec => []NothingInvented
  BY InvAlways, InventedFromInv, PTL

(***************************************************************************)
(* The records of a collection have targets of their own, except those of  *)
(* workloads of two kinds with one name (TargetsIdentify): calls for other *)
(* namespaces, and for issuers of either scope, never collide.             *)
(***************************************************************************)
THEOREM TargetsAlwaysIdentify == Spec => []TargetsIdentify
  BY InvAlways, IdentifyFromInv, PTL

(***************************************************************************)
(* Each failed collection of the chain, whether Collect returned an error  *)
(* or an endpoint did not answer, is in the failures section.              *)
(***************************************************************************)
THEOREM GapsAlwaysReported == Spec => []GapsReported
<1>1. Inv => GapsReported
  BY DEF Inv
<1> QED BY <1>1, InvAlways, PTL
-----------------------------------------------------------------------------
LEMMA LeastNat ==
  ASSUME NEW T, T \subseteq Nat, T # {}
  PROVE  \E m \in T : \A k \in T : m <= k
<1> DEFINE R == OpToRel(<, Nat)
<1>1. IsWellFoundedOn(R, Nat)
  BY NatLessThanWellFounded
<1>2. \E m \in T : \A k \in T : ~(<< k, m >> \in R)
  <2> HIDE DEF R
  <2> QED BY <1>1, WFMin
<1>3. PICK m \in T : \A k \in T : ~(<< k, m >> \in R)
  BY <1>2
<1>4. ASSUME NEW k \in T PROVE m <= k
  <2>1. k \in Nat /\ m \in Nat
    OBVIOUS
  <2>2. ~(<< k, m >> \in R)
    BY <1>3
  <2>3. ~(k < m)
    BY <2>1, <2>2 DEF OpToRel
  <2> QED BY <2>1, <2>3
<1> QED BY <1>4

(* Of each target, one of the latest records is kept, the first of them. *)
LEMMA LatestExists ==
  ASSUME Stored, IsSeq(recs), cycle \in Int, NEW P, P \subseteq DOMAIN recs, NEW k \in P
  PROVE  \E l \in Latest(P) : Target(recs[l]) = Target(recs[k]) /\ recs[k].at <= recs[l].at
<1> DEFINE Same == {j \in P : Target(recs[j]) = Target(recs[k])}
           Ages == {cycle - recs[j].at : j \in Same}
<1>1. \A j \in P : recs[j].at \in Int /\ recs[j].at <= cycle /\ j \in Nat
  BY SeqDomain DEF Stored
<1>2. Ages \subseteq Nat /\ Ages # {}
  BY <1>1
<1>3. PICK age \in Ages : \A a \in Ages : age <= a
  <2> HIDE DEF Ages
  <2> QED BY <1>2, LeastNat
<1> DEFINE First == {j \in Same : cycle - recs[j].at = age}
<1>4. First \subseteq Nat /\ First # {}
  BY <1>1, <1>3
<1>5. PICK l \in First : \A j \in First : l <= j
  <2> HIDE DEF First
  <2> QED BY <1>4, LeastNat
<1>6. l \in P /\ Target(recs[l]) = Target(recs[k]) /\ cycle - recs[l].at = age
  OBVIOUS
<1>7. ASSUME NEW j \in Same
      PROVE  recs[j].at <= recs[l].at /\ (recs[j].at = recs[l].at => l <= j)
  <2>1. age <= cycle - recs[j].at
    BY <1>3
  <2>2. recs[j].at \in Int /\ recs[l].at \in Int
    BY <1>1, <1>6
  <2>3. recs[j].at <= recs[l].at
    BY <1>6, <2>1, <2>2
  <2>4. recs[j].at = recs[l].at => j \in First
    BY <1>6
  <2> HIDE DEF First, Same
  <2> QED BY <1>5, <2>3, <2>4
<1>8. ASSUME NEW j \in P, Target(recs[j]) = Target(recs[l])
      PROVE  IF j < l THEN Newer(recs[l], recs[j]) ELSE ~Newer(recs[j], recs[l])
  <2>1. recs[j].at <= recs[l].at /\ (recs[j].at = recs[l].at => l <= j)
    BY <1>6, <1>7, <1>8
  <2>2. recs[j].at \in Int /\ recs[l].at \in Int /\ j \in Nat /\ l \in Nat
    BY <1>1, <1>6
  <2> HIDE DEF First, Same
  <2> QED BY <2>1, <2>2 DEF Newer
<1>9. l \in Latest(P)
  BY <1>6, <1>8 DEF Latest
<1>10. recs[k].at <= recs[l].at
  BY <1>7
<1> QED
  BY <1>6, <1>9, <1>10

(* A section lists the first of a permutation of the latest records. *)
LEMMA SectionFacts ==
  ASSUME NEW P, IsFiniteSet(P), NEW found \in latestPerTarget(P, Cap)
  PROVE  /\ \A i \in DOMAIN found : found[i] \in Latest(P)
         /\ \A l \in Latest(P) :
              \/ \E i \in DOMAIN found : found[i] = l
              \/ Len(found) = Cap /\ \A i \in DOMAIN found : recs[found[i]].at >= recs[l].at
<1> DEFINE L == Latest(P)
<1>1. IsFiniteSet(L)
  <2>1. L \subseteq P
    BY DEF Latest
  <2> HIDE DEF L
  <2> QED BY <2>1, FS_Subset
<1>2. PICK s \in SetToSeqs(L) :
        /\ \A i, j \in DOMAIN s : i < j => recs[s[i]].at >= recs[s[j]].at
        /\ found = SubSeq(s, 1, IF Len(s) < Cap THEN Len(s) ELSE Cap)
  BY DEF latestPerTarget
<1> HIDE DEF L
<1>3. s \in [1..Cardinality(L) -> L] /\ IsInjective(s)
  BY <1>2 DEF SetToSeqs, IsInjective
<1> DEFINE n == Len(s)
           m == IF n < Cap THEN n ELSE Cap
<1>4. /\ s \in Seq(L) /\ n \in Nat /\ DOMAIN s = 1..n
      /\ \A l \in L : \E i \in DOMAIN s : s[i] = l
      /\ \A i \in DOMAIN s : s[i] \in L
  BY <1>1, <1>3, Permutation, LenProperties
<1>5. m \in Nat /\ m <= n /\ m <= Cap /\ (m # n => m = Cap) /\ Cap \in Nat
  <2> HIDE DEF n
  <2> QED BY <1>4, ReportBounds
<1>6. found = SubSeq(s, 1, m)
  BY <1>2
<1> HIDE DEF m, n
<1>7. found \in Seq(L) /\ Len(found) = m /\ DOMAIN found = 1..m
      /\ \A i \in 1..m : found[i] = s[i] /\ i \in DOMAIN s
  <2>1. \A i \in 1..m : s[i] \in L /\ i \in DOMAIN s
    <3>1. 1..m \subseteq 1..n
      BY <1>4, <1>5
    <3> QED BY <1>4, <3>1
  <2>2. /\ found \in Seq(L)
        /\ Len(found) = IF 1 <= m THEN m - 1 + 1 ELSE 0
        /\ \A i \in 1 .. m - 1 + 1 : found[i] = s[1 + i - 1]
    BY <1>5, <1>6, <2>1, SubSeqProperties
  <2>3. Len(found) = m
    BY <1>5, <2>2
  <2>4. \A i \in 1..m : found[i] = s[i]
    BY <1>5, <2>2
  <2> QED BY <2>1, <2>2, <2>3, <2>4, LenProperties
<1>8. \A i \in DOMAIN found : found[i] \in L
  BY <1>4, <1>7
<1>9. ASSUME NEW l \in L, ~ \E i \in DOMAIN found : found[i] = l
      PROVE  Len(found) = Cap /\ \A i \in DOMAIN found : recs[found[i]].at >= recs[l].at
  <2>1. PICK p \in DOMAIN s : s[p] = l
    BY <1>4
  <2>2. p \notin 1..m
    BY <1>7, <1>9, <2>1
  <2>3. m < p /\ m = Cap
    BY <1>4, <1>5, <2>2
  <2>4. \A i \in 1..m : i < p
    BY <1>4, <1>5, <2>3
  <2> QED BY <1>2, <1>7, <2>1, <2>3, <2>4
<1> QED
  BY <1>8, <1>9 DEF L

LEMMA CurrentFromInv == Inv => SectionCurrent
<1> SUFFICES ASSUME Inv, NEW id \in AllControls, NEW found \in latestPerTarget(ByControl(id), Cap)
             PROVE  /\ \A i \in DOMAIN found :
                         \/ stepped
                         \/ Twins(Target(recs[found[i]]))
                         \/ \A k \in ByControl(id) :
                              Target(recs[k]) = Target(recs[found[i]]) => k <= found[i]
                    /\ \A k \in ByControl(id) :
                         \/ \E i \in DOMAIN found : Target(recs[found[i]]) = Target(recs[k])
                         \/ /\ Len(found) = Cap
                            /\ \A i \in DOMAIN found : recs[found[i]].at >= recs[k].at
  BY DEF SectionCurrent
<1> DEFINE P == ByControl(id)
<1>1. Stored /\ StrictlyLater /\ IsSeq(recs) /\ cycle \in Int
  BY DEF Inv, ReportType
<1>2. P \subseteq DOMAIN recs /\ DOMAIN recs = 1..Len(recs) /\ Len(recs) \in Nat
  BY <1>1, SeqDomain DEF ByControl
<1> HIDE DEF P
<1>3. IsFiniteSet(P)
  <2>1. IsFiniteSet(1..Len(recs))
    BY <1>2, FS_Interval
  <2> QED BY <1>2, <2>1, FS_Subset
<1>4. /\ \A i \in DOMAIN found : found[i] \in Latest(P)
      /\ \A l \in Latest(P) :
           \/ \E i \in DOMAIN found : found[i] = l
           \/ Len(found) = Cap /\ \A i \in DOMAIN found : recs[found[i]].at >= recs[l].at
  BY <1>3, SectionFacts DEF P
<1>5. \A j \in P : recs[j].at \in Int /\ j \in Int
  BY <1>1, <1>2 DEF Stored
<1>6. ASSUME NEW i \in DOMAIN found, ~stepped, ~Twins(Target(recs[found[i]])),
             NEW k \in P, Target(recs[k]) = Target(recs[found[i]])
      PROVE  k <= found[i]
  <2> DEFINE l == found[i]
  <2>1. /\ l \in P
        /\ l < k => ~Newer(recs[k], recs[l])
    <3>1. l \in Latest(P)
      BY <1>4
    <3>2. l \in P /\ IF k < l THEN Newer(recs[l], recs[k]) ELSE ~Newer(recs[k], recs[l])
      BY <1>6, <3>1 DEF Latest
    <3>3. l < k => ~(k < l)
      BY <1>5, <3>2
    <3> QED BY <3>2, <3>3
  <2>2. l < k => recs[l].at < recs[k].at
    BY <1>1, <1>2, <1>6, <2>1 DEF StrictlyLater
  <2>3. ~(l < k)
    BY <1>5, <2>1, <2>2 DEF Newer
  <2> HIDE DEF l
  <2>4. k <= l
    BY <1>5, <2>1, <2>3
  <2> QED BY <2>4 DEF l
<1>7. ASSUME NEW k \in P, ~ \E i \in DOMAIN found : Target(recs[found[i]]) = Target(recs[k])
      PROVE  Len(found) = Cap /\ \A i \in DOMAIN found : recs[found[i]].at >= recs[k].at
  <2>1. PICK l \in Latest(P) : Target(recs[l]) = Target(recs[k]) /\ recs[k].at <= recs[l].at
    BY <1>1, <1>2, LatestExists
  <2>2. ~ \E i \in DOMAIN found : found[i] = l
    BY <1>7, <2>1
  <2>3. Len(found) = Cap /\ \A i \in DOMAIN found : recs[found[i]].at >= recs[l].at
    BY <1>4, <2>2
  <2>4. l \in P /\ \A i \in DOMAIN found : found[i] \in P
    BY <1>4 DEF Latest
  <2>5. \A i \in DOMAIN found : recs[found[i]].at >= recs[k].at
    BY <1>5, <2>1, <2>3, <2>4
  <2> QED BY <2>3, <2>5
<1> QED
  BY <1>6, <1>7 DEF P

(***************************************************************************)
(* Under every control and whatever order the report comes out in, the cap *)
(* leaves out no target seen after one that is listed, and a target is     *)
(* listed with what was last recorded of it as long as the clock was never *)
(* set back (SectionCurrent): for any number of records, cycles, rotations *)
(* and targets, though renderReport compares times only.                   *)
(***************************************************************************)
THEOREM SectionAlwaysCurrent == Spec => []SectionCurrent
  BY InvAlways, CurrentFromInv, PTL
=============================================================================
