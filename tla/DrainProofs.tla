---------------------------- MODULE DrainProofs ----------------------------
(***************************************************************************)
(* Proofs about Drain, for any set of lines, depth, bounds and similarity  *)
(* threshold, over any sequence of lines, evictions, snapshots, restarts   *)
(* and forgettings: the table of clusters stays well formed, no template   *)
(* wears down below the share of literal tokens a match asks for, and a    *)
(* line finds its template again.                                          *)
(*                                                                         *)
(* The last rests on three invariants besides IInv.  Covered: a template   *)
(* stands for every line learnt into its cluster.  Planted: the clusters   *)
(* hang in a tree that keeps its bounds, which insertion and a restart     *)
(* preserve.  RecognisedAtOnce itself: the way a line goes down the tree   *)
(* is the way its cluster was planted, and no neighbour wins over it.      *)
(* The walks of the tree are recursive functions: Recursion says that one  *)
(* has a solution, Induction that it has no other.                         *)
(***************************************************************************)
EXTENDS Drain, FiniteSetTheorems, WellFoundedInduction, TLAPS

Cluster == [id : Nat, template : Seq(Tokens)]

\* A table of clusters learnt under a given counter, and the shape it keeps.
Table(table, ids) ==
    /\ table \in Seq(Cluster)
    /\ MaxClusters > 0 => Len(table) <= MaxClusters
    /\ \A i, j \in DOMAIN table : i # j => table[i].id # table[j].id
    /\ \A i \in DOMAIN table : table[i].id \in 1..ids

Shaped(template) == Cardinality(Literals(template)) * SimDen >= SimNum * Len(template)
KeepsShape(table) == \A i \in DOMAIN table : Shaped(table[i].template)

\* The tables and counters, those of the miner and those it saved.
IInv ==
    /\ counter \in 0..MaxID /\ saved.counter \in 0..MaxID
    /\ DOMAIN mined = 1..counter /\ DOMAIN saved.mined = 1..saved.counter
    /\ Table(clusters, counter) /\ Table(saved.clusters, saved.counter)
    /\ KeepsShape(clusters) /\ KeepsShape(saved.clusters)

-----------------------------------------------------------------------------
(* The tree and the lines. *)

\* A node is the path that leads to it: the token count, then tokens.
Node == Seq(Tokens \cup Nat)
NodesAt(n, k) == {v \in Node : Len(v) = k + 1 /\ v[1] = n}

\* Trees, whatever hangs in them.
Trees == UNION {[nodes -> Seq(Nat)] : nodes \in SUBSET Node}

\* No more children than allowed, and the child for the rest before they run out.
Roomy(nodes, v) ==
    LET n == Cardinality(Children(nodes, v))
    IN n < MaxChildren \/ (n = MaxChildren /\ Append(v, Param) \in nodes)

\* Every node hangs below one, none is overfull.
Grown(nodes) ==
    /\ nodes \in SUBSET Node /\ IsFiniteSet(nodes) /\ <<>> \in nodes
    /\ \A v \in nodes : v # <<>> => Front(v) \in nodes
    /\ \A v \in nodes : Len(v) > 0 => Roomy(nodes, v)

\* Only ids hang in the tree, each at one place at most.
Listed(t, ids) ==
    /\ \A v \in DOMAIN t : \A i \in DOMAIN t[v] : t[v][i] \in ids
    /\ \A v, w \in DOMAIN t : \A i \in DOMAIN t[v], j \in DOMAIN t[w] :
          t[v][i] = t[w][j] => v = w /\ i = j

\* A cluster whose template has n tokens hangs at a leaf for that many.
Hangs(t, id, n) ==
    \E v \in DOMAIN t : v \in NodesAt(n, Levels(n)) /\ \E i \in DOMAIN t[v] : t[v][i] = id

\* A tree that holds every cluster of the table.
Tree(t, ids, table) ==
    /\ t \in Trees /\ Grown(DOMAIN t) /\ Listed(t, ids)
    /\ \A i \in DOMAIN table : Hangs(t, table[i].id, Len(table[i].template))

\* Only one cluster is of the empty line.
OneEmpty(table) ==
    \A i, j \in DOMAIN table : table[i].template = <<>> /\ table[j].template = <<>> => i = j

Planted == Tree(tree, 1..counter, clusters) /\ OneEmpty(clusters) /\ OneEmpty(saved.clusters)

\* The lines of a cluster are those its template stands for.
Covers(template, line) ==
    /\ line \in Seq(Tokens \ {Param})
    /\ MaxTokens > 0 => Len(line) <= MaxTokens
    /\ Len(line) = Len(template)
    /\ \A k \in DOMAIN line : template[k] \in {line[k], Param}

Covering(table, ids, lines) ==
    /\ lines \in Seq(SUBSET Seq(Tokens \ {Param})) /\ Len(lines) = ids
    /\ \A i \in DOMAIN table : \A line \in lines[table[i].id] : Covers(table[i].template, line)

Covered == Covering(clusters, counter, mined) /\ Covering(saved.clusters, saved.counter, saved.mined)

-----------------------------------------------------------------------------
(* Induction over numbers: the induction theorems of the library take an    *)
(* operator, these take a set and a function.                               *)

\* A set of numbers that is not empty has a least element.
LEMMA LeastOf ==
    ASSUME NEW T \in SUBSET Nat, T # {}
    PROVE  \E n \in T : \A m \in T : n <= m
<1> DEFINE R == OpToRel(<, Nat)
<1>1. IsWellFoundedOn(R, Nat)
  BY NatLessThanWellFounded
<1>2. \A m, n \in Nat : <<m, n>> \in R <=> m < n
  BY DEF OpToRel
<1> HIDE DEF R
<1>3. PICK n \in T : \A m \in T : ~ (<<m, n>> \in R)
  BY <1>1, WFMin
<1>4. ASSUME NEW m \in T PROVE n <= m
  <2>1. n \in Nat /\ m \in Nat /\ ~(<<m, n>> \in R)
    BY <1>3
  <2>2. ~ (m < n)
    BY <1>2, <2>1
  <2> QED
    BY <2>1, <2>2
<1> QED
  BY <1>4

\* Induction, up to a bound, on the set of the numbers something holds of.
LEMMA Induction ==
    ASSUME NEW N \in Nat, NEW T, 0 \in T, \A n \in 1..N : n - 1 \in T => n \in T
    PROVE  0..N \subseteq T
<1> DEFINE bad == (0..N) \ T
<1>1. SUFFICES ASSUME bad # {} PROVE FALSE
  OBVIOUS
<1>2. PICK n \in bad : \A m \in bad : n <= m
  <2>1. bad \in SUBSET Nat
    OBVIOUS
  <2> HIDE DEF bad
  <2> QED
    BY <1>1, <2>1, LeastOf
<1>3. n \in 1..N /\ n - 1 \notin bad /\ n - 1 \in 0..N
  BY <1>2
<1> QED
  BY <1>2, <1>3

Solves(f, N, first, D) == f = [n \in 0..N |-> IF n = 0 THEN first ELSE D[<<f[n - 1], n>>]]

\* A recursive definition over 0..N has a solution: the value at n is in S[n]
\* if that at 0 is in S[0] and each step D leads from S[n - 1] to S[n].
LEMMA Recursion ==
    ASSUME NEW N \in Nat, NEW S, NEW first \in S[0], NEW D,
           \A n \in 1..N : \A v \in S[n - 1] : D[<<v, n>>] \in S[n]
    PROVE  \E f : Solves(f, N, first, D) /\ \A n \in 0..N : f[n] \in S[n]
<1> DEFINE Upto(k) == {g \in [0..k -> UNION {S[n] : n \in 0..k}] :
                         \A n \in 0..k :
                            /\ g[n] = IF n = 0 THEN first ELSE D[<<g[n - 1], n>>]
                            /\ g[n] \in S[n]}
           T == {k \in 0..N : Upto(k) # {}}
<1>1. 0 \in T
  <2> DEFINE g == [n \in 0..0 |-> first]
  <2>1. \A n \in 0..0 : n = 0 /\ g[n] = first
    OBVIOUS
  <2>2. g \in [0..0 -> UNION {S[n] : n \in 0..0}]
    OBVIOUS
  <2> HIDE DEF g
  <2>3. g \in Upto(0)
    BY <2>1, <2>2
  <2> QED
    BY <2>3
<1>2. ASSUME NEW k \in 1..N, k - 1 \in T PROVE k \in T
  <2>1. PICK g : g \in Upto(k - 1)
    BY <1>2
  <2>2. /\ k - 1 \in 0..(k - 1)
        /\ \A n \in 0..(k - 1) :
             /\ g[n] = IF n = 0 THEN first ELSE D[<<g[n - 1], n>>]
             /\ g[n] \in S[n]
    <3>1. k - 1 \in 0..(k - 1)
      OBVIOUS
    <3> QED
      BY <2>1, <3>1, Zenon
  <2> DEFINE y == D[<<g[k - 1], k>>]
             h == [n \in 0..k |-> IF n = k THEN y ELSE g[n]]
  <2>3. y \in S[k]
    BY <2>2
  <2> HIDE DEF y
  <2>4. ASSUME NEW n \in 0..k
        PROVE  h[n] \in S[n] /\ h[n] = IF n = 0 THEN first ELSE D[<<h[n - 1], n>>]
    <3>1. CASE n = k
      <4>1. h[n] = y /\ h[n - 1] = g[k - 1] /\ n # 0
        BY <3>1
      <4> QED
        BY <2>3, <3>1, <4>1 DEF y
    <3>2. CASE n # k
      <4>1. n \in 0..(k - 1) /\ h[n] = g[n] /\ (n # 0 => h[n - 1] = g[n - 1])
        BY <3>2
      <4> QED
        BY <2>2, <4>1
    <3> QED
      BY <3>1, <3>2
  <2>5. h \in [0..k -> UNION {S[n] : n \in 0..k}]
    <3>1. \A n \in 0..k : h[n] \in UNION {S[m] : m \in 0..k}
      BY <2>4
    <3>2. h = [n \in 0..k |-> h[n]]
      OBVIOUS
    <3> HIDE DEF h
    <3> QED
      BY <3>1, <3>2
  <2> HIDE DEF h
  <2>6. h \in Upto(k)
    BY <2>4, <2>5
  <2> HIDE DEF Upto
  <2> QED
    BY <2>6
<1>3. 0..N \subseteq T
  <2> HIDE DEF T
  <2> QED
    BY <1>1, <1>2, Induction
<1> HIDE DEF Upto
<1>4. PICK f : f \in Upto(N)
  BY <1>3
<1> USE DEF Upto
<1>5. Solves(f, N, first, D)
  BY <1>4 DEF Solves
<1>6. \A n \in 0..N : f[n] \in S[n]
  BY <1>4
<1> QED
  BY <1>5, <1>6

-----------------------------------------------------------------------------
(* Templates. *)

LEMMA TokenizedLine ==
    ASSUME NEW line \in Lines
    PROVE  Tokenize(line) \in Seq(Tokens \ {Param})
<1> DEFINE Literal == Tokens \ {Param}
<1>1. line \in Seq(Literal) /\ MaxTokens \in Nat
  BY DrainAssumption
<1>2. Truncated \in Literal
  BY DrainAssumption DEF Tokens
<1> HIDE DEF Literal
<1>3. ASSUME MaxTokens > 0, Len(line) > MaxTokens
      PROVE  SubSeq(line, 1, MaxTokens - 1) \in Seq(Literal)
  <2>1. \A i \in 1..(MaxTokens - 1) : line[i] \in Literal
    BY <1>1, <1>3
  <2> QED
    BY <1>1, <1>3, <2>1
<1>4. Tokenize(line) \in Seq(Literal)
  BY <1>1, <1>2, <1>3 DEF Tokenize
<1> QED
  BY <1>4 DEF Literal

LEMMA FiniteLiterals ==
    ASSUME NEW t \in Seq(Tokens)
    PROVE  /\ IsFiniteSet(Literals(t)) /\ Cardinality(Literals(t)) \in Nat
           /\ Cardinality(Literals(t)) <= Len(t)
<1>1. Literals(t) \in SUBSET (1..Len(t))
  BY DEF Literals
<1>2. IsFiniteSet(1..Len(t)) /\ Cardinality(1..Len(t)) = Len(t)
  <2>1. 1 \in Int /\ Len(t) \in Nat /\ (Len(t) = 0 => 1..Len(t) = {})
    OBVIOUS
  <2> QED
    BY <2>1, FS_Interval, FS_EmptySet
<1> QED
  BY <1>1, <1>2, FS_Subset, FS_CardinalityType

\* A line without wildcard is a template of nothing but literals.
LEMMA FreshShape ==
    ASSUME NEW t \in Seq(Tokens \ {Param})
    PROVE  Shaped(t)
<1>1. Literals(t) = 1..Len(t)
  BY DEF Literals
<1>2. Cardinality(Literals(t)) = Len(t)
  BY <1>1, FS_Interval
<1>3. \A k, m, n \in Nat : m <= n => k * n >= m * k
  OBVIOUS
<1> QED
  BY <1>2, <1>3, DrainAssumption DEF Shaped

\* A template close enough to a line is as long as the line.
LEMMA SameLength ==
    ASSUME NEW t \in Seq(Tokens), NEW tokens \in Seq(Tokens), NEW params,
           Similar(t, tokens, params) * SimDen >= SimNum * Weight(tokens)
    PROVE  Len(t) = Len(tokens)
<1>1. SUFFICES ASSUME Len(t) # Len(tokens) PROVE FALSE
  OBVIOUS
<1>2. Similar(t, tokens, params) = 0
  BY <1>1 DEF Similar
<1>3. Weight(tokens) \in Nat /\ Weight(tokens) > 0
  BY DEF Weight
<1>4. SimNum * Weight(tokens) > 0
  <2>1. \A m, n \in Nat : m > 0 /\ n > 0 => m * n > 0
    OBVIOUS
  <2> QED
    BY <1>3, <2>1, DrainAssumption
<1>5. 0 * SimDen >= SimNum * Weight(tokens)
  BY <1>2
<1>6. 0 * SimDen = 0
  BY DrainAssumption
<1> QED
  BY <1>3, <1>4, <1>5, <1>6, DrainAssumption

\* What is left of a template is what it had in common with the line.
LEMMA GeneralisedShape ==
    ASSUME NEW t \in Seq(Tokens), NEW tokens \in Seq(Tokens \ {Param}),
           Similar(t, tokens, FALSE) * SimDen >= SimNum * Weight(tokens)
    PROVE  /\ CreateTemplate(tokens, t) \in Seq(Tokens)
           /\ Len(CreateTemplate(tokens, t)) = Len(t)
           /\ Shaped(CreateTemplate(tokens, t))
<1> DEFINE new == CreateTemplate(tokens, t)
<1>1. Len(t) = Len(tokens)
  <2>1. tokens \in Seq(Tokens)
    OBVIOUS
  <2> QED
    BY <2>1, SameLength
<1>2. new \in Seq(Tokens) /\ Len(new) = Len(t)
  <2>1. Param \in Tokens
    BY DEF Tokens
  <2>2. new \in [1..Len(t) -> Tokens]
    BY <2>1 DEF CreateTemplate
  <2> QED
    BY <2>2
<1>3. CASE t = <<>>
  <2>1. new \in Seq(Tokens) /\ Len(new) = 0
    BY <1>2, <1>3
  <2>2. Cardinality(Literals(new)) \in Nat
    BY <2>1, FiniteLiterals
  <2> QED
    BY <1>2, <2>1, <2>2, DrainAssumption DEF Shaped
<1>4. CASE t # <<>>
  <2>1. Literals(new) = Same(t, tokens)
    BY <1>1, <1>2 DEF Literals, Same, CreateTemplate
  <2>2. Similar(t, tokens, FALSE) = Cardinality(Same(t, tokens))
    <3>1. IsFiniteSet(Same(t, tokens)) /\ Cardinality(Same(t, tokens)) \in Nat
      BY FiniteLiterals, FS_Subset, FS_CardinalityType DEF Same
    <3> QED
      BY <1>1, <1>4, <3>1 DEF Similar
  <2>3. Weight(tokens) = Len(t)
    BY <1>1, <1>4 DEF Weight
  <2> QED
    BY <1>2, <2>1, <2>2, <2>3 DEF Shaped
<1> QED
  BY <1>3, <1>4

-----------------------------------------------------------------------------
(* Search and the table. *)

\* A search finds nothing, or a known cluster that is close enough.
LEMMA SearchFinds ==
    ASSUME NEW nodes, NEW table, NEW tokens, NEW num, NEW den, NEW params,
           TreeSearch(nodes, table, tokens, num, den, params) # None
    PROVE  \E i \in DOMAIN table :
              /\ TreeSearch(nodes, table, tokens, num, den, params) = table[i]
              /\ Similar(table[i].template, tokens, params) * den >= num * Weight(tokens)
<1>1. ASSUME NEW ids, FastMatch(table, ids, tokens, num, den, params) # None
      PROVE  \E i \in DOMAIN table :
                /\ FastMatch(table, ids, tokens, num, den, params) = table[i]
                /\ Similar(table[i].template, tokens, params) * den >= num * Weight(tokens)
  <2>1. PICK k \in DOMAIN ids :
           /\ FastMatch(table, ids, tokens, num, den, params) = ClusterOf(table, ids[k])
           /\ ids[k] \in Live(table)
           /\ Similar(ClusterOf(table, ids[k]).template, tokens, params) * den
                >= num * Weight(tokens)
    BY <1>1 DEF FastMatch
  <2>2. Index(table, ids[k]) \in DOMAIN table
    BY <2>1 DEF Index, Live
  <2> QED
    BY <2>1, <2>2 DEF ClusterOf
<1> QED
  BY <1>1 DEF TreeSearch

\* Putting a new cluster in, the oldest out when the table is full.
LEMMA PutTable ==
    ASSUME NEW ids \in Nat, NEW table, Table(table, ids), KeepsShape(table),
           NEW t \in Seq(Tokens), Shaped(t)
    PROVE  LET new == Put(table, [id |-> ids + 1, template |-> t])
           IN Table(new, ids + 1) /\ KeepsShape(new)
<1> DEFINE cluster == [id |-> ids + 1, template |-> t]
           rest == IF MaxClusters > 0 /\ Len(table) >= MaxClusters THEN Tail(table) ELSE table
<1>1. table \in Seq(Cluster) /\ cluster \in Cluster /\ MaxClusters \in Nat
  BY DrainAssumption DEF Table, Cluster
<1>2. Table(rest, ids) /\ KeepsShape(rest)
  <2>1. CASE rest = table
    BY <2>1
  <2>2. CASE MaxClusters > 0 /\ Len(table) >= MaxClusters
    <3>1. /\ rest \in Seq(Cluster) /\ Len(rest) = Len(table) - 1
          /\ \A i \in 1..Len(rest) : rest[i] = table[i + 1] /\ i + 1 \in 1..Len(table)
      BY <1>1, <2>2
    <3> QED
      BY <1>1, <3>1 DEF Table, KeepsShape
  <2> QED
    BY <2>1, <2>2
<1>3. MaxClusters > 0 => Len(rest) < MaxClusters
  BY <1>1 DEF Table
<1> HIDE DEF rest
<1>4. rest \in Seq(Cluster)
  BY <1>2 DEF Table
<1> DEFINE new == Append(rest, cluster)
<1>5. /\ new \in Seq(Cluster) /\ Len(new) = Len(rest) + 1
      /\ \A i \in 1..Len(new) : new[i] = IF i <= Len(rest) THEN rest[i] ELSE cluster
  BY <1>1, <1>4
<1>6. \A i \in 1..Len(rest) : rest[i].id \in 1..ids /\ Shaped(rest[i].template)
  BY <1>2, <1>4 DEF Table, KeepsShape
<1>7. \A i, j \in 1..Len(rest) : i # j => rest[i].id # rest[j].id
  BY <1>2, <1>4 DEF Table
<1>8. cluster.id = ids + 1 /\ cluster.template = t
  OBVIOUS
<1> HIDE DEF new, cluster
<1>9. Table(new, ids + 1)
  <2>1. \A i, j \in 1..Len(new) : i # j => new[i].id # new[j].id
    BY <1>4, <1>5, <1>6, <1>7, <1>8
  <2>2. \A i \in 1..Len(new) : new[i].id \in 1..(ids + 1)
    BY <1>4, <1>5, <1>6, <1>8
  <2> QED
    BY <1>1, <1>3, <1>4, <1>5, <2>1, <2>2 DEF Table
<1>10. KeepsShape(new)
  BY <1>4, <1>5, <1>6, <1>8 DEF KeepsShape
<1> QED
  BY <1>9, <1>10 DEF Put, new, rest, cluster

\* The second part of a concatenation.
LEMMA AfterFirst ==
    ASSUME NEW S, NEW s \in Seq(S), NEW t \in Seq(S),
           NEW i \in 1..(Len(s) + Len(t)), i > Len(s)
    PROVE  (s \o t)[i] = t[i - Len(s)]
  OBVIOUS

\* The cluster is at the end, the others in their order.
LEMMA TouchOf ==
    ASSUME NEW n \in Nat, NEW table, Table(table, n),
           NEW k \in DOMAIN table, NEW t \in Seq(Tokens)
    PROVE  LET c == [id |-> table[k].id, template |-> t]
               new == Touch(table, c)
           IN /\ new \in Seq(Cluster) /\ Len(new) = Len(table)
              /\ \A i \in 1..Len(new) : new[i] = IF i < k THEN table[i]
                                                 ELSE IF i < Len(table) THEN table[i + 1] ELSE c
<1> DEFINE cluster == [id |-> table[k].id, template |-> t]
           new == Touch(table, cluster)
<1>1. table \in Seq(Cluster)
  BY DEF Table
<1>2. cluster \in Cluster
  <2>1. table[k] \in Cluster
    BY <1>1
  <2> QED
    BY <2>1 DEF Cluster
<1>3. Index(table, table[k].id) = k
  BY <1>1 DEF Index, Table
<1> DEFINE before == SubSeq(table, 1, k - 1)
           after == SubSeq(table, k + 1, Len(table))
<1>4. new = Append(before \o after, cluster)
  BY <1>3 DEF Touch, RemoveAt
<1>5. k \in 1..Len(table) /\ Len(table) \in Nat
  BY <1>1
<1>6. /\ before \in Seq(Cluster) /\ Len(before) = k - 1
      /\ \A i \in 1..(k - 1) : before[i] = table[i]
  BY <1>1, <1>5
<1>7. /\ after \in Seq(Cluster) /\ Len(after) = Len(table) - k
      /\ \A i \in 1..(Len(table) - k) : after[i] = table[i + k]
  BY <1>1, <1>5
<1> HIDE DEF before, after
<1> DEFINE both == before \o after
<1>8. /\ both \in Seq(Cluster) /\ Len(both) = Len(table) - 1
      /\ \A i \in 1..(Len(table) - 1) : both[i] = IF i < k THEN table[i] ELSE table[i + 1]
  <2>1. both \in Seq(Cluster) /\ Len(both) = Len(table) - 1
    BY <1>5, <1>6, <1>7
  <2>2. ASSUME NEW i \in 1..(Len(table) - 1)
        PROVE  both[i] = IF i < k THEN table[i] ELSE table[i + 1]
    <3>1. CASE i < k
      BY <1>5, <1>6, <1>7, <3>1
    <3>2. CASE ~(i < k)
      <4> DEFINE j == i - (k - 1)
      <4>1. j \in 1..(Len(table) - k) /\ ~(i < k)
        BY <1>5, <3>2
      <4>2. j + k = i + 1
        BY <1>5
      <4>3. i \in 1..(Len(before) + Len(after)) /\ i > Len(before) /\ i - Len(before) = j
        BY <1>5, <1>6, <1>7, <3>2
      <4> HIDE DEF j
      <4>4. both[i] = after[j]
        BY <1>6, <1>7, <4>3, AfterFirst
      <4>5. after[j] = table[j + k]
        BY <1>7, <4>1
      <4> QED
        BY <4>1, <4>2, <4>4, <4>5
    <3> QED
      BY <3>1, <3>2
  <2> QED
    BY <2>1, <2>2
<1> HIDE DEF both, cluster
<1>9. new = Append(both, cluster)
  BY <1>4 DEF both
<1> HIDE DEF new
<1>10. /\ new \in Seq(Cluster) /\ Len(new) = Len(table)
       /\ \A i \in 1..(Len(table) - 1) : new[i] = both[i]
       /\ new[Len(table)] = cluster
  BY <1>2, <1>5, <1>8, <1>9
<1>11. ASSUME NEW i \in 1..Len(new)
       PROVE  new[i] = IF i < k THEN table[i] ELSE IF i < Len(table) THEN table[i + 1] ELSE cluster
  <2>1. i \in 1..Len(table)
    BY <1>10
  <2>2. CASE i < Len(table)
    <3>1. i \in 1..(Len(table) - 1)
      BY <1>5, <2>1, <2>2
    <3> QED
      BY <1>8, <1>10, <2>2, <3>1
  <2>3. CASE ~(i < Len(table))
    <3>1. i = Len(table) /\ ~(i < k)
      BY <1>5, <2>1, <2>3
    <3> QED
      BY <1>10, <2>3, <3>1
  <2> QED
    BY <2>2, <2>3
<1> QED
  BY <1>10, <1>11 DEF new, cluster

\* Replacing a cluster of the table by one of the same id, at the other end.
LEMMA TouchTable ==
    ASSUME NEW ids \in Nat, NEW table, Table(table, ids), KeepsShape(table),
           NEW k \in DOMAIN table, NEW t \in Seq(Tokens), Shaped(t)
    PROVE  LET new == Touch(table, [id |-> table[k].id, template |-> t])
           IN Table(new, ids) /\ KeepsShape(new)
<1> DEFINE cluster == [id |-> table[k].id, template |-> t]
           new == Touch(table, cluster)
<1>1. table \in Seq(Cluster) /\ MaxClusters \in Nat
  BY DrainAssumption DEF Table
<1>2. cluster \in Cluster
  <2>1. table[k] \in Cluster
    BY <1>1
  <2> QED
    BY <2>1 DEF Cluster
<1>3. Index(table, table[k].id) = k
  BY <1>1 DEF Index, Table
<1>4. /\ new \in Seq(Cluster) /\ Len(new) = Len(table)
      /\ \A i \in 1..Len(new) : new[i] = IF i < k THEN table[i]
                                        ELSE IF i < Len(table) THEN table[i + 1] ELSE cluster
  BY TouchOf
<1>5. \A i \in 1..Len(table) : table[i].id \in 1..ids /\ Shaped(table[i].template)
  BY <1>1 DEF Table, KeepsShape
<1>6. \A i, j \in 1..Len(table) : i # j => table[i].id # table[j].id
  BY <1>1 DEF Table
<1>7. cluster.id = table[k].id /\ cluster.template = t /\ k \in 1..Len(table)
  BY <1>1
<1> HIDE DEF new, cluster
<1>8. Table(new, ids)
  <2>1. ASSUME NEW i \in 1..Len(new), NEW j \in 1..Len(new), i < j
        PROVE  new[i].id # new[j].id
    <3>1. CASE j < k
      BY <1>1, <1>4, <1>6, <2>1, <3>1
    <3>2. CASE ~(j < k) /\ j < Len(table)
      <4>1. j + 1 \in 1..Len(table) /\ new[j] = table[j + 1]
        BY <1>1, <1>4, <3>2
      <4>2. \E m \in 1..Len(table) : m # j + 1 /\ new[i] = table[m]
        BY <1>1, <1>4, <2>1, <3>2, SMTT(30)
      <4> QED
        BY <1>6, <4>1, <4>2
    <3>3. CASE ~(j < k) /\ ~(j < Len(table))
      <4>1. new[j].id = table[k].id
        BY <1>1, <1>4, <1>7, <3>3
      <4>2. \E m \in 1..Len(table) : m # k /\ new[i] = table[m]
        BY <1>1, <1>4, <2>1, <3>3
      <4> QED
        BY <1>6, <1>7, <4>1, <4>2
    <3> QED
      BY <3>1, <3>2, <3>3
  <2>2. ASSUME NEW i \in 1..Len(new) PROVE new[i].id \in 1..ids
    <3>1. \E j \in 1..Len(table) : new[i].id = table[j].id
      <4>1. CASE i < k
        BY <1>1, <1>4, <1>7, <4>1
      <4>2. CASE ~(i < k) /\ i < Len(table)
        <5>1. i + 1 \in 1..Len(table) /\ new[i] = table[i + 1]
          BY <1>1, <1>4, <4>2
        <5> QED
          BY <5>1
      <4>3. CASE ~(i < k) /\ ~(i < Len(table))
        BY <1>1, <1>4, <1>7, <4>3
      <4> QED
        BY <4>1, <4>2, <4>3
    <3> QED
      BY <1>5, <3>1
  <2>3. MaxClusters > 0 => Len(new) <= MaxClusters
    BY <1>4 DEF Table
  <2>4. new \in Seq(Cluster) /\ DOMAIN new = 1..Len(new)
    BY <1>4
  <2> QED
    BY <2>1, <2>2, <2>3, <2>4 DEF Table
<1>9. KeepsShape(new)
  BY <1>1, <1>4, <1>5, <1>7 DEF KeepsShape
<1> QED
  BY <1>8, <1>9 DEF new, cluster

-----------------------------------------------------------------------------
(* The invariant. *)

LEMMA InitIInv == Init => IInv
<1> SUFFICES ASSUME Init PROVE IInv
  OBVIOUS
<1>1. <<>> \in Seq(Cluster) /\ Len(<<>>) = 0 /\ DOMAIN <<>> = {} /\ 1..0 = {}
  OBVIOUS
<1> QED
  BY <1>1, DrainAssumption DEF Init, IInv, Table, KeepsShape

LEMMA CreateKeeps ==
    ASSUME IInv, NEW line \in Lines, Create(Tokenize(line))
    PROVE  IInv'
<1> DEFINE tokens == Tokenize(line)
<1>1. tokens \in Seq(Tokens) /\ Shaped(tokens)
  <2>1. tokens \in Seq(Tokens \ {Param})
    BY TokenizedLine
  <2>2. Shaped(tokens)
    BY <2>1, FreshShape
  <2>3. \A q \in Seq(Tokens \ {Param}) : q \in Seq(Tokens)
    OBVIOUS
  <2> QED
    BY <2>1, <2>2, <2>3
<1> HIDE DEF tokens
<1>2. Create(tokens)
  BY DEF tokens
<1>3. counter \in Nat /\ counter' = counter + 1 /\ counter' \in 0..MaxID /\ saved' = saved
  BY <1>2, DrainAssumption DEF Create, IInv
<1>4. clusters' = Put(clusters, [id |-> counter + 1, template |-> tokens])
  BY <1>2 DEF Create
<1>5. Table(clusters, counter)' /\ KeepsShape(clusters)'
  BY <1>1, <1>3, <1>4, PutTable DEF IInv
<1>6. DOMAIN mined' = 1..counter'
  <2>1. mined' = Append(mined, {tokens})
    BY <1>2 DEF Create
  <2> QED
    BY <1>3, <2>1 DEF IInv
<1> QED
  BY <1>3, <1>5, <1>6 DEF IInv

LEMMA UpdateKeeps ==
    ASSUME IInv, NEW line \in Lines, Update(Tokenize(line))
    PROVE  IInv'
<1> DEFINE tokens == Tokenize(line)
           matched == TreeSearch(tree, clusters, tokens, SimNum, SimDen, FALSE)
<1>1. tokens \in Seq(Tokens \ {Param})
  BY TokenizedLine
<1> HIDE DEF tokens
<1>2. Update(tokens)
  BY DEF tokens
<1>3. PICK k \in DOMAIN clusters :
        /\ matched = clusters[k]
        /\ Similar(clusters[k].template, tokens, FALSE) * SimDen >= SimNum * Weight(tokens)
  <2>1. matched # None
    BY <1>2 DEF Update
  <2> QED
    BY <2>1, SearchFinds, ZenonT(30)
<1> DEFINE t == CreateTemplate(tokens, clusters[k].template)
<1>4. clusters' = Touch(clusters, [id |-> clusters[k].id, template |-> t])
  BY <1>2, <1>3 DEF Update
<1>5. t \in Seq(Tokens) /\ Shaped(t)
  <2>1. clusters[k].template \in Seq(Tokens)
    <3>1. clusters[k] \in Cluster
      BY DEF IInv, Table
    <3> QED
      BY <3>1 DEF Cluster
  <2> QED
    BY <1>1, <1>3, <2>1, GeneralisedShape
<1> HIDE DEF t
<1>6. counter \in Nat
  BY DrainAssumption DEF IInv
<1>7. Table(clusters, counter)' /\ KeepsShape(clusters)'
  <2>1. counter' = counter
    BY <1>2 DEF Update
  <2> QED
    BY <1>4, <1>5, <1>6, <2>1, TouchTable DEF IInv
<1> QED
  BY <1>2, <1>7 DEF Update, IInv

LEMMA NextIInv == IInv /\ [Next]_vars => IInv'
<1> SUFFICES ASSUME IInv, [Next]_vars PROVE IInv'
  OBVIOUS
<1>1. ASSUME NEW line \in Lines, AddLogMessage(line) PROVE IInv'
  BY <1>1, CreateKeeps, UpdateKeeps DEF AddLogMessage
<1>2. CASE Snapshot
  BY <1>2 DEF Snapshot, IInv
<1>3. CASE Restore
  BY <1>3 DEF Restore, IInv
<1>4. CASE Forget
  <2>1. <<>> \in Seq(Cluster) /\ Len(<<>>) = 0 /\ DOMAIN <<>> = {} /\ 1..0 = {}
    OBVIOUS
  <2> QED
    BY <1>4, <2>1, DrainAssumption DEF Forget, IInv, Table, KeepsShape
<1>5. CASE UNCHANGED vars
  BY <1>5 DEF vars, IInv
<1> QED
  BY <1>1, <1>2, <1>3, <1>4, <1>5 DEF Next

LEMMA InductiveInvariant == Spec => []IInv
<1> QED
  BY InitIInv, NextIInv, PTL DEF Spec

\* The table of clusters: no two share an id, none has an id that was not given
\* out, and it never outgrows its bound, restored or not.
THEOREM TypeCorrect == Spec => []TypeOK
<1>1. IInv => TypeOK
  <2> SUFFICES ASSUME IInv PROVE TypeOK
    OBVIOUS
  <2>1. \A i \in DOMAIN clusters : clusters[i] \in Cluster
    BY DEF IInv, Table
  <2>2. \A i \in DOMAIN clusters : clusters[i].template \in Seq(Tokens)
    BY <2>1 DEF Cluster
  <2> QED
    BY <2>2 DEF IInv, TypeOK, Table
<1> QED
  BY <1>1, InductiveInvariant, PTL

\* Whatever is learnt, in whatever order, a template keeps the share of literal
\* tokens that a line must share with it to match: no template wears down to
\* wildcards, and so none ends up matching every line of its length.
THEOREM TemplatesHold == Spec => []TemplatesKeepTheirShape
<1>1. IInv => TemplatesKeepTheirShape
  BY DEF IInv, KeepsShape, Shaped, TemplatesKeepTheirShape
<1> QED
  BY <1>1, InductiveInvariant, PTL

-----------------------------------------------------------------------------
(* The walks of the prefix tree. *)

LEMMA LevelsOf ==
    ASSUME NEW n \in Nat
    PROVE  Levels(n) \in Nat /\ \A k \in 1..Levels(n) : k \in 1..n
  BY DrainAssumption DEF Levels

LEMMA OneDown ==
    ASSUME NEW n, NEW k \in Nat \ {0}, NEW v \in NodesAt(n, k - 1), NEW t \in Tokens
    PROVE  Append(v, t) \in NodesAt(n, k)
<1> DEFINE Key == Tokens \cup Nat
<1>1. v \in Seq(Key) /\ t \in Key /\ Len(v) = k /\ v[1] = n
  BY DEF NodesAt, Node
<1> HIDE DEF Key
<1>2. Append(v, t) \in Seq(Key) /\ Len(Append(v, t)) = k + 1 /\ Append(v, t)[1] = v[1]
  BY <1>1
<1> QED
  BY <1>1, <1>2 DEF NodesAt, Node, Key

\* A walk starts at the token count and goes down by a token or the wildcard.
LEMMA Walk ==
    ASSUME NEW tokens \in Seq(Tokens), NEW D,
           \A k \in 1..Levels(Len(tokens)) : \A v \in NodesAt(Len(tokens), k - 1) :
              D[<<v, k>>] \in {Append(v, tokens[k]), Append(v, Param)}
    PROVE  \E f : /\ Solves(f, Levels(Len(tokens)), <<Len(tokens)>>, D)
                  /\ \A k \in 0..Levels(Len(tokens)) : f[k] \in NodesAt(Len(tokens), k)
<1> DEFINE n == Len(tokens)
           depth == Levels(n)
           S == [k \in 0..depth |-> NodesAt(n, k)]
<1>1. n \in Nat /\ depth \in Nat
  BY LevelsOf
<1>2. <<n>> \in NodesAt(n, 0)
  BY DEF NodesAt, Node
<1>3. ASSUME NEW k \in 1..depth, NEW v \in NodesAt(n, k - 1)
      PROVE  D[<<v, k>>] \in NodesAt(n, k)
  <2>1. tokens[k] \in Tokens /\ Param \in Tokens
    <3>1. k \in 1..n
      BY LevelsOf
    <3>2. tokens[k] \in Tokens
      BY <3>1
    <3> QED
      BY <3>2 DEF Tokens
  <2>2. k \in Nat \ {0}
    BY <1>1
  <2> HIDE DEF n, depth
  <2>3. Append(v, tokens[k]) \in NodesAt(n, k) /\ Append(v, Param) \in NodesAt(n, k)
    BY <2>1, <2>2, OneDown
  <2>4. D[<<v, k>>] \in {Append(v, tokens[k]), Append(v, Param)}
    BY DEF n, depth
  <2> QED
    BY <2>3, <2>4
<1>4. <<n>> \in S[0] /\ \A k \in 1..depth : \A v \in S[k - 1] : D[<<v, k>>] \in S[k]
  BY <1>1, <1>2, <1>3
<1>5. \A k \in 0..depth : S[k] = NodesAt(n, k)
  OBVIOUS
<1> HIDE DEF n, depth, S
<1>6. \E f : Solves(f, depth, <<n>>, D) /\ \A k \in 0..depth : f[k] \in S[k]
  BY <1>1, <1>4, Recursion
<1> QED
  BY <1>5, <1>6 DEF n, depth

LEMMA LeafWalk ==
    ASSUME NEW nodes, NEW tokens \in Seq(Tokens)
    PROVE  \E f : /\ f[0] = <<Len(tokens)>>
                  /\ \A k \in 0..Levels(Len(tokens)) : f[k] \in NodesAt(Len(tokens), k)
                  /\ \A k \in 1..Levels(Len(tokens)) :
                       f[k] = Descend(nodes, f[k - 1], tokens[k])
                  /\ LeafOf(nodes, tokens) = f[Levels(Len(tokens))]
<1> DEFINE n == Len(tokens)
           depth == Levels(n)
           node[k \in 0..depth] == IF k = 0 THEN <<n>> ELSE Descend(nodes, node[k - 1], tokens[k])
           D == [p \in Node \X (1..depth) |-> Descend(nodes, p[1], tokens[p[2]])]
<1>1. n \in Nat /\ depth \in Nat
  BY LevelsOf
<1>2. ASSUME NEW k \in 1..depth, NEW v \in NodesAt(n, k - 1)
      PROVE  D[<<v, k>>] = Descend(nodes, v, tokens[k])
  <2>1. <<v, k>> \in Node \X (1..depth)
    BY DEF NodesAt
  <2> QED
    BY <2>1
<1>3. \A k \in 1..depth : \A v \in NodesAt(n, k - 1) :
         D[<<v, k>>] \in {Append(v, tokens[k]), Append(v, Param)}
  <2> HIDE DEF D
  <2> QED
    BY <1>2 DEF Descend
<1>4. LeafOf(nodes, tokens) = node[depth]
  BY DEF LeafOf
<1> HIDE DEF D
<1>5. PICK f : /\ Solves(f, depth, <<n>>, D)
               /\ \A k \in 0..depth : f[k] \in NodesAt(n, k)
  BY <1>3, Walk
<1>6. f = [k \in 0..depth |-> IF k = 0 THEN <<n>> ELSE Descend(nodes, f[k - 1], tokens[k])]
  <2>1. ASSUME NEW k \in 0..depth, k # 0
        PROVE  D[<<f[k - 1], k>>] = Descend(nodes, f[k - 1], tokens[k])
    <3>1. k \in 1..depth /\ k - 1 \in 0..depth
      BY <1>1, <2>1
    <3>2. f[k - 1] \in NodesAt(n, k - 1)
      BY <1>5, <3>1
    <3> QED
      BY <1>2, <3>1, <3>2
  <2> QED
    BY <1>5, <2>1 DEF Solves
<1>7. node = [k \in 0..depth |-> IF k = 0 THEN <<n>> ELSE Descend(nodes, node[k - 1], tokens[k])]
  BY <1>6
<1> HIDE DEF node
<1>8. /\ node[0] = <<n>> /\ \A k \in 1..depth : node[k] = Descend(nodes, node[k - 1], tokens[k])
      /\ f[0] = <<n>> /\ \A k \in 1..depth : f[k] = Descend(nodes, f[k - 1], tokens[k])
  <2>1. 0 \in 0..depth /\ \A k \in 1..depth : k \in 0..depth /\ k # 0
    BY <1>1
  <2> QED
    BY <1>6, <1>7, <2>1
<1>9. 0..depth \subseteq {k \in 0..depth : node[k] = f[k]}
  <2> DEFINE T == {k \in 0..depth : node[k] = f[k]}
  <2>1. 0 \in T /\ \A k \in 1..depth : k - 1 \in T => k \in T
    BY <1>1, <1>8
  <2> HIDE DEF T
  <2>2. 0..depth \subseteq T
    BY <1>1, <2>1, Induction
  <2> QED
    BY <2>2 DEF T
<1>10. node[depth] = f[depth]
  BY <1>1, <1>9
<1> QED
  BY <1>4, <1>5, <1>8, <1>10

LEMMA PathWalk ==
    ASSUME NEW nodes, NEW tokens \in Seq(Tokens)
    PROVE  LET path == Path(nodes, tokens)
               depth == Levels(Len(tokens))
           IN /\ path = [k \in 1..depth + 1 |-> path[k]]
              /\ path[1] = <<Len(tokens)>>
              /\ \A k \in 0..depth : path[k + 1] \in NodesAt(Len(tokens), k)
              /\ \A k \in 1..depth : path[k + 1] = Grow(nodes, path[k], tokens[k])
<1> DEFINE n == Len(tokens)
           depth == Levels(n)
           node[k \in 0..depth] == IF k = 0 THEN <<n>> ELSE Grow(nodes, node[k - 1], tokens[k])
           D == [p \in Node \X (1..depth) |-> Grow(nodes, p[1], tokens[p[2]])]
<1>1. n \in Nat /\ depth \in Nat
  BY LevelsOf
<1>2. ASSUME NEW k \in 1..depth, NEW v \in NodesAt(n, k - 1)
      PROVE  D[<<v, k>>] = Grow(nodes, v, tokens[k])
  <2>1. <<v, k>> \in Node \X (1..depth)
    BY DEF NodesAt
  <2> QED
    BY <2>1
<1>3. ASSUME NEW v, NEW t PROVE Grow(nodes, v, t) \in {Append(v, t), Append(v, Param)}
  BY DEF Grow
<1>4. \A k \in 1..depth : \A v \in NodesAt(n, k - 1) :
         D[<<v, k>>] \in {Append(v, tokens[k]), Append(v, Param)}
  <2> HIDE DEF D
  <2> QED
    BY <1>2, <1>3
<1>5. Path(nodes, tokens) = [k \in 1..(depth + 1) |-> node[k - 1]]
  BY DEF Path
<1> HIDE DEF D
<1>6. PICK f : /\ Solves(f, depth, <<n>>, D)
               /\ \A k \in 0..depth : f[k] \in NodesAt(n, k)
  BY <1>4, Walk
<1>7. f = [k \in 0..depth |-> IF k = 0 THEN <<n>> ELSE Grow(nodes, f[k - 1], tokens[k])]
  <2>1. ASSUME NEW k \in 0..depth, k # 0
        PROVE  D[<<f[k - 1], k>>] = Grow(nodes, f[k - 1], tokens[k])
    <3>1. k \in 1..depth /\ k - 1 \in 0..depth
      BY <1>1, <2>1
    <3>2. f[k - 1] \in NodesAt(n, k - 1)
      BY <1>6, <3>1
    <3> QED
      BY <1>2, <3>1, <3>2
  <2> QED
    BY <1>6, <2>1 DEF Solves
<1>8. node = [k \in 0..depth |-> IF k = 0 THEN <<n>> ELSE Grow(nodes, node[k - 1], tokens[k])]
  BY <1>7
<1> HIDE DEF node
<1>9. /\ node[0] = <<n>> /\ \A k \in 1..depth : node[k] = Grow(nodes, node[k - 1], tokens[k])
      /\ f[0] = <<n>> /\ \A k \in 1..depth : f[k] = Grow(nodes, f[k - 1], tokens[k])
  <2>1. 0 \in 0..depth /\ \A k \in 1..depth : k \in 0..depth /\ k # 0
    BY <1>1
  <2> QED
    BY <1>7, <1>8, <2>1
<1>10. 0..depth \subseteq {k \in 0..depth : node[k] = f[k]}
  <2> DEFINE T == {k \in 0..depth : node[k] = f[k]}
  <2>1. 0 \in T /\ \A k \in 1..depth : k - 1 \in T => k \in T
    BY <1>1, <1>9
  <2> HIDE DEF T
  <2>2. 0..depth \subseteq T
    BY <1>1, <2>1, Induction
  <2> QED
    BY <2>2 DEF T
<1> HIDE DEF depth, n
<1> DEFINE path == Path(nodes, tokens)
<1>11. /\ path = [k \in 1..depth + 1 |-> path[k]]
       /\ \A k \in 1..depth + 1 : path[k] = f[k - 1]
  <2>1. \A k \in 1..(depth + 1) : k - 1 \in 0..depth
    BY <1>1
  <2> QED
    BY <1>5, <1>10, <2>1
<1> HIDE DEF path
<1>12. /\ \A k \in 0..depth : path[k + 1] = f[k]
       /\ \A k \in 1..depth : path[k] = f[k - 1]
  BY <1>1, <1>11
<1>13. path[1] = <<n>>
  BY <1>1, <1>9, <1>12
<1>14. \A k \in 1..depth : path[k + 1] = Grow(nodes, path[k], tokens[k])
  BY <1>9, <1>12
<1>15. \A k \in 0..depth : path[k + 1] \in NodesAt(n, k)
  BY <1>6, <1>12
<1> QED
  BY <1>11, <1>13, <1>14, <1>15 DEF n, depth, path

\* What is kept of the ids of a leaf: those the table knows, each once.
LEMMA KeptOf ==
    ASSUME NEW ids \in Seq(Nat), NEW table
    PROVE  LET kept == Kept(ids, table)
           IN /\ kept \in Seq(Nat)
              /\ \A j \in DOMAIN kept : \E i \in DOMAIN ids : kept[j] = ids[i]
              /\ \A i \in DOMAIN ids :
                   ids[i] \in Live(table) => \E j \in DOMAIN kept : kept[j] = ids[i]
              /\ (\A i, j \in DOMAIN ids : i # j => ids[i] # ids[j])
                   => \A i, j \in DOMAIN kept : i # j => kept[i] # kept[j]
<1> DEFINE N == Len(ids)
           Once == \A i, j \in 1..N : i # j => ids[i] # ids[j]
           Step(s, k) == IF ids[k] \in Live(table) THEN Append(s, ids[k]) ELSE s
           kept[k \in 0..N] == IF k = 0 THEN <<>>
                               ELSE IF ids[k] \in Live(table) THEN Append(kept[k - 1], ids[k])
                               ELSE kept[k - 1]
           D == [p \in Seq(Nat) \X (1..N) |-> Step(p[1], p[2])]
           S == [k \in 0..N |->
                   {s \in Seq(Nat) :
                      /\ \A j \in 1..Len(s) : \E i \in 1..k : s[j] = ids[i]
                      /\ \A i \in 1..k : ids[i] \in Live(table) => \E j \in 1..Len(s) : s[j] = ids[i]
                      /\ Once => \A i, j \in 1..Len(s) : i # j => s[i] # s[j]}]
<1>1. N \in Nat /\ DOMAIN ids = 1..N /\ \A k \in 1..N : ids[k] \in Nat
  OBVIOUS
<1>2. ASSUME NEW k \in 1..N, NEW s \in S[k - 1] PROVE D[<<s, k>>] \in S[k]
  <2>0. k \in 0..N /\ k - 1 \in 0..N
    BY <1>1
  <2>1. /\ s \in Seq(Nat)
        /\ \A j \in 1..Len(s) : \E i \in 1..(k - 1) : s[j] = ids[i]
        /\ \A i \in 1..(k - 1) : ids[i] \in Live(table) => \E j \in 1..Len(s) : s[j] = ids[i]
        /\ Once => \A i, j \in 1..Len(s) : i # j => s[i] # s[j]
    BY <2>0
  <2>2. D[<<s, k>>] = Step(s, k)
    <3>1. <<s, k>> \in Seq(Nat) \X (1..N)
      BY <2>1
    <3> QED
      BY <3>1
  <2> HIDE DEF S, D
  <2>3. CASE ids[k] \notin Live(table)
    <3>1. D[<<s, k>>] = s
      BY <2>2, <2>3
    <3>2. \A i \in 1..k : i = k \/ i \in 1..(k - 1)
      BY <1>1
    <3>3. \A i \in 1..(k - 1) : i \in 1..k
      BY <1>1
    <3> HIDE DEF N, Once
    <3> QED
      BY <2>0, <2>1, <2>3, <3>1, <3>2, <3>3 DEF S
  <2>4. CASE ids[k] \in Live(table)
    <3> DEFINE r == Append(s, ids[k])
    <3>1. D[<<s, k>>] = r
      BY <2>2, <2>4
    <3>2. /\ r \in Seq(Nat) /\ Len(r) = Len(s) + 1 /\ Len(s) \in Nat
          /\ \A i \in 1..Len(s) : r[i] = s[i]
          /\ r[Len(s) + 1] = ids[k]
      BY <1>1, <2>1
    <3> HIDE DEF r
    <3>3. \A i \in 1..k : i = k \/ i \in 1..(k - 1)
      BY <1>1
    <3>4. k \in 1..k /\ \A i \in 1..(k - 1) : i \in 1..k
      BY <1>1
    <3>5. \A j \in 1..Len(r) : j \in 1..Len(s) \/ j = Len(s) + 1
      BY <3>2
    <3>6. \A j \in 1..Len(r) : \E i \in 1..k : r[j] = ids[i]
      <4>1. ASSUME NEW j \in 1..Len(s) PROVE \E i \in 1..k : r[j] = ids[i]
        <5>1. PICK i \in 1..(k - 1) : s[j] = ids[i]
          BY <2>1
        <5>2. i \in 1..k /\ r[j] = s[j]
          BY <3>2, <3>4
        <5> QED
          BY <5>1, <5>2
      <4> QED
        BY <3>2, <3>4, <3>5, <4>1
    <3>7. Len(s) + 1 \in 1..Len(r) /\ \A j \in 1..Len(s) : j \in 1..Len(r)
      BY <3>2
    <3>8. ASSUME NEW i \in 1..k, ids[i] \in Live(table) PROVE \E j \in 1..Len(r) : r[j] = ids[i]
      <4>1. CASE i = k
        BY <3>2, <3>7, <4>1
      <4>2. CASE i \in 1..(k - 1)
        <5>1. PICK j \in 1..Len(s) : s[j] = ids[i]
          BY <2>1, <3>8, <4>2
        <5> QED
          BY <3>2, <3>7, <5>1
      <4> QED
        BY <3>3, <4>1, <4>2
    <3>9. ASSUME Once PROVE \A i, j \in 1..Len(r) : i # j => r[i] # r[j]
      <4>1. \A j \in 1..Len(s) : s[j] # ids[k]
        <5>1. \A i \in 1..(k - 1) : i # k /\ i \in 1..N
          BY <1>1
        <5> QED
          BY <2>1, <3>9, <5>1
      <4> QED
        BY <2>1, <3>2, <3>5, <3>9, <4>1
    <3> HIDE DEF N, Once
    <3>10. r \in S[k]
      BY <2>0, <3>2, <3>6, <3>8, <3>9, Zenon DEF S
    <3> QED
      BY <3>1, <3>10
  <2> QED
    BY <2>3, <2>4
<1>3. <<>> \in S[0]
  BY <1>1
<1>4. Kept(ids, table) = kept[N]
  BY DEF Kept
<1>5. PICK f : Solves(f, N, <<>>, D) /\ \A k \in 0..N : f[k] \in S[k]
  <2> HIDE DEF D, S, N
  <2>1. \A k \in 1..N : \A s \in S[k - 1] : D[<<s, k>>] \in S[k]
    BY <1>2
  <2>2. \E f : Solves(f, N, <<>>, D) /\ \A k \in 0..N : f[k] \in S[k]
    BY <1>1, <1>3, <2>1, Recursion
  <2> QED
    BY <2>2
<1>6. f = [k \in 0..N |-> IF k = 0 THEN <<>>
                          ELSE IF ids[k] \in Live(table) THEN Append(f[k - 1], ids[k])
                          ELSE f[k - 1]]
  <2>1. ASSUME NEW k \in 0..N, k # 0 PROVE D[<<f[k - 1], k>>] = Step(f[k - 1], k)
    <3>1. k \in 1..N /\ k - 1 \in 0..N
      BY <1>1, <2>1
    <3>2. f[k - 1] \in Seq(Nat)
      <4>1. f[k - 1] \in S[k - 1]
        BY <1>5, <3>1
      <4> QED
        BY <3>1, <4>1
    <3>3. <<f[k - 1], k>> \in Seq(Nat) \X (1..N)
      BY <3>1, <3>2
    <3> QED
      BY <3>3
  <2> HIDE DEF D, S
  <2> QED
    BY <1>5, <2>1 DEF Solves
<1>7. kept = [k \in 0..N |-> IF k = 0 THEN <<>>
                             ELSE IF ids[k] \in Live(table) THEN Append(kept[k - 1], ids[k])
                             ELSE kept[k - 1]]
  BY <1>6
<1> HIDE DEF kept, D
<1>8. kept[N] = f[N]
  <2> DEFINE T == {k \in 0..N : kept[k] = f[k]}
  <2>1. 0 \in T
    BY <1>1, <1>6, <1>7
  <2>2. ASSUME NEW k \in 1..N, k - 1 \in T PROVE k \in T
    <3>1. k \in 0..N /\ k # 0 /\ kept[k - 1] = f[k - 1]
      BY <1>1, <2>2
    <3> QED
      BY <1>6, <1>7, <3>1
  <2> HIDE DEF T
  <2>3. 0..N \subseteq T
    BY <1>1, <2>1, <2>2, Induction
  <2> QED
    BY <1>1, <2>3 DEF T
<1>9. f[N] \in S[N] /\ N \in 0..N
  <2>1. N \in 0..N
    BY <1>1
  <2> HIDE DEF S, N
  <2> QED
    BY <1>5, <2>1
<1>10. /\ f[N] \in Seq(Nat)
       /\ \A j \in 1..Len(f[N]) : \E i \in 1..N : f[N][j] = ids[i]
       /\ \A i \in 1..N : ids[i] \in Live(table) => \E j \in 1..Len(f[N]) : f[N][j] = ids[i]
       /\ Once => \A i, j \in 1..Len(f[N]) : i # j => f[N][i] # f[N][j]
  BY <1>9
<1> DEFINE k == Kept(ids, table)
<1>11. k = f[N] /\ DOMAIN k = 1..Len(k)
  BY <1>4, <1>8, <1>10
<1> HIDE DEF k
<1>12. /\ k \in Seq(Nat)
       /\ \A j \in 1..Len(k) : \E i \in 1..N : k[j] = ids[i]
       /\ \A i \in 1..N : ids[i] \in Live(table) => \E j \in 1..Len(k) : k[j] = ids[i]
       /\ Once => \A i, j \in 1..Len(k) : i # j => k[i] # k[j]
  BY <1>10, <1>11
<1> QED
  BY <1>1, <1>11, <1>12 DEF k

-----------------------------------------------------------------------------
(* How close a line is to a template, and who wins a match. *)

LEMMA SimilarOf ==
    ASSUME NEW t \in Seq(Tokens), NEW tokens \in Seq(Tokens), NEW params \in BOOLEAN
    PROVE  /\ Similar(t, tokens, params) \in Nat
           /\ Similar(t, tokens, params) <= Weight(tokens)
           /\ Wildcards(t) \in Nat /\ Wildcards(t) <= Len(t)
<1>1. /\ IsFiniteSet(Literals(t)) /\ Cardinality(Literals(t)) \in Nat
      /\ Cardinality(Literals(t)) <= Len(t)
  BY FiniteLiterals
<1>2. /\ IsFiniteSet(Same(t, tokens)) /\ Cardinality(Same(t, tokens)) \in Nat
      /\ Cardinality(Same(t, tokens)) <= Cardinality(Literals(t))
  BY <1>1, FS_Subset, FS_CardinalityType DEF Same
<1>3. Len(t) \in Nat /\ Len(tokens) \in Nat /\ (t # <<>> => Len(t) > 0)
  OBVIOUS
<1>4. Wildcards(t) \in Nat /\ Wildcards(t) <= Len(t) /\ Wildcards(t) = Len(t) - Cardinality(Literals(t))
  BY <1>1, <1>3 DEF Wildcards
<1>5. Weight(tokens) \in Nat /\ Weight(tokens) >= 1 /\ Weight(tokens) >= Len(tokens)
  BY <1>3 DEF Weight
<1> QED
  BY <1>1, <1>2, <1>3, <1>4, <1>5 DEF Similar

\* Of candidates ranked by s, then by p, the first of the best.
Beats(s, p, i, j) == s[i] > s[j] \/ (s[i] = s[j] /\ p[i] > p[j])

LEMMA FirstOfBest ==
    ASSUME NEW K \in SUBSET Nat, K # {}, NEW B \in Nat, NEW C \in Nat, NEW s, NEW p,
           \A i \in K : s[i] \in 0..B /\ p[i] \in 0..C
    PROVE  \E i \in K : /\ \A j \in K : ~Beats(s, p, j, i) /\ s[j] <= s[i]
                        /\ \A j \in K : j < i => Beats(s, p, i, j)
<1>1. PICK a \in K : \A j \in K : s[j] <= s[a]
  <2> DEFINE T == {B - s[i] : i \in K}
  <2>1. T \in SUBSET Nat /\ T # {}
    <3>1. \A i \in K : s[i] \in 0..B
      OBVIOUS
    <3>2. \A i \in K : B - s[i] \in Nat
      BY <3>1
    <3> QED
      BY <3>2
  <2>2. PICK n \in T : \A m \in T : n <= m
    <3> HIDE DEF T
    <3> QED
      BY <2>1, LeastOf
  <2>3. PICK a \in K : n = B - s[a]
    BY <2>2
  <2>4. ASSUME NEW j \in K PROVE s[j] <= s[a]
    <3>1. B - s[j] \in T
      OBVIOUS
    <3>2. n <= B - s[j]
      BY <2>2, <3>1
    <3>3. s[j] \in 0..B /\ s[a] \in 0..B
      OBVIOUS
    <3> QED
      BY <2>3, <3>2, <3>3
  <2> QED
    BY <2>4
<1> DEFINE K1 == {i \in K : s[i] = s[a]}
<1>2. PICK b \in K1 : \A j \in K1 : p[j] <= p[b]
  <2> DEFINE T == {C - p[i] : i \in K1}
  <2>1. T \in SUBSET Nat /\ T # {}
    <3>1. a \in K1 /\ \A i \in K1 : p[i] \in 0..C
      OBVIOUS
    <3>2. \A i \in K1 : C - p[i] \in Nat
      BY <3>1
    <3> HIDE DEF K1
    <3> QED
      BY <3>1, <3>2
  <2>2. PICK n \in T : \A m \in T : n <= m
    <3> HIDE DEF T
    <3> QED
      BY <2>1, LeastOf
  <2>3. PICK b \in K1 : n = C - p[b]
    BY <2>2
  <2>4. ASSUME NEW j \in K1 PROVE p[j] <= p[b]
    <3>1. C - p[j] \in T
      OBVIOUS
    <3>2. n <= C - p[j]
      BY <2>2, <3>1
    <3>3. p[j] \in 0..C /\ p[b] \in 0..C
      OBVIOUS
    <3> QED
      BY <2>3, <3>2, <3>3
  <2> QED
    BY <2>4
<1> DEFINE K2 == {i \in K1 : p[i] = p[b]}
<1>3. PICK i \in K2 : \A j \in K2 : i <= j
  <2>1. K2 \in SUBSET Nat /\ K2 # {}
    OBVIOUS
  <2> HIDE DEF K2
  <2> QED
    BY <2>1, LeastOf
<1>4. i \in K /\ s[i] = s[a] /\ p[i] = p[b] /\ i \in Nat
  OBVIOUS
<1>5. ASSUME NEW j \in K PROVE ~Beats(s, p, j, i) /\ s[j] <= s[i] /\ (j < i => Beats(s, p, i, j))
  <2>1. /\ s[j] \in 0..B /\ p[j] \in 0..C /\ s[i] \in 0..B /\ p[i] \in 0..C
        /\ j \in Nat /\ s[j] <= s[a] /\ B \in Nat /\ C \in Nat
    BY <1>1, <1>4
  <2>2. s[j] = s[a] => p[j] <= p[b]
    BY <1>2
  <2>3. s[j] = s[a] /\ p[j] = p[b] => i <= j
    BY <1>3
  <2> HIDE DEF K1, K2
  <2> QED
    BY <1>4, <2>1, <2>2, <2>3 DEF Beats
<1> QED
  BY <1>4, <1>5

\* The i-th of ids is the cluster a match finds.
Reaches(c, tokens, num, den, params) ==
    Similar(c.template, tokens, params) * den >= num * Weight(tokens)

Wins(table, ids, tokens, num, den, params, i) ==
    /\ i \in DOMAIN ids /\ ids[i] \in Live(table)
    /\ Reaches(ClusterOf(table, ids[i]), tokens, num, den, params)
    /\ \A j \in DOMAIN ids : ids[j] \in Live(table) =>
         /\ ~Closer(ClusterOf(table, ids[j]), ClusterOf(table, ids[i]), tokens, params)
         /\ j < i => Closer(ClusterOf(table, ids[i]), ClusterOf(table, ids[j]), tokens, params)

LEMMA WinnerFound ==
    ASSUME NEW table, NEW ids \in Seq(Nat), NEW tokens, NEW num, NEW den, NEW params, NEW i,
           Wins(table, ids, tokens, num, den, params, i)
    PROVE  FastMatch(table, ids, tokens, num, den, params) = ClusterOf(table, ids[i])
<1> DEFINE At(k) == ClusterOf(table, ids[k])
           known == {k \in DOMAIN ids : ids[k] \in Live(table)}
           found == {k \in known :
                       /\ Similar(At(k).template, tokens, params) * den >= num * Weight(tokens)
                       /\ \A j \in known : ~Closer(At(j), At(k), tokens, params)
                       /\ \A j \in known : j < k => Closer(At(k), At(j), tokens, params)}
<1>1. i \in found
  BY DEF Wins, Reaches
<1>2. ASSUME NEW j \in found PROVE j = i
  <2>1. /\ j \in known /\ i \in known /\ i \in Nat /\ j \in Nat
        /\ ~Closer(At(j), At(i), tokens, params) /\ ~Closer(At(i), At(j), tokens, params)
        /\ j < i => Closer(At(i), At(j), tokens, params)
        /\ i < j => Closer(At(j), At(i), tokens, params)
    BY <1>1
  <2> HIDE DEF found, known, At
  <2> QED
    BY <2>1
<1>3. FastMatch(table, ids, tokens, num, den, params)
        = IF found = {} THEN None ELSE At(CHOOSE k \in found : TRUE)
  BY DEF FastMatch
<1> HIDE DEF found, known
<1> QED
  BY <1>1, <1>2, <1>3

\* A match that finds something finds a winner.
LEMMA FoundWins ==
    ASSUME NEW table, NEW ids, NEW tokens, NEW num, NEW den, NEW params,
           FastMatch(table, ids, tokens, num, den, params) # None
    PROVE  \E i : /\ Wins(table, ids, tokens, num, den, params, i)
                  /\ FastMatch(table, ids, tokens, num, den, params) = ClusterOf(table, ids[i])
<1> DEFINE At(k) == ClusterOf(table, ids[k])
           known == {k \in DOMAIN ids : ids[k] \in Live(table)}
           found == {k \in known :
                       /\ Similar(At(k).template, tokens, params) * den >= num * Weight(tokens)
                       /\ \A j \in known : ~Closer(At(j), At(k), tokens, params)
                       /\ \A j \in known : j < k => Closer(At(k), At(j), tokens, params)}
           i == CHOOSE k \in found : TRUE
<1>1. FastMatch(table, ids, tokens, num, den, params) = IF found = {} THEN None ELSE At(i)
  BY DEF FastMatch
<1>2. i \in found /\ FastMatch(table, ids, tokens, num, den, params) = At(i)
  <2> HIDE DEF found, At
  <2> QED
    BY <1>1
<1> HIDE DEF i
<1> QED
  BY <1>2 DEF Wins, Reaches

\* There is a winner when a cluster is close enough.
LEMMA SomeoneWins ==
    ASSUME NEW table, \A i \in DOMAIN table : table[i].template \in Seq(Tokens),
           NEW ids \in Seq(Nat), NEW tokens \in Seq(Tokens), NEW num \in Nat, NEW den \in Nat,
           NEW params \in BOOLEAN,
           NEW k \in DOMAIN ids, ids[k] \in Live(table),
           Reaches(ClusterOf(table, ids[k]), tokens, num, den, params)
    PROVE  \E i : Wins(table, ids, tokens, num, den, params, i)
<1> DEFINE T(i) == ClusterOf(table, ids[i]).template
           K == {i \in DOMAIN ids : ids[i] \in Live(table)}
           s == [i \in K |-> Similar(T(i), tokens, params)]
           p == [i \in K |-> IF Len(T(i)) = Len(tokens) THEN Wildcards(T(i)) ELSE 0]
           B == Weight(tokens)
           C == Len(tokens)
<1>1. \A i \in K : T(i) \in Seq(Tokens)
  <2> SUFFICES ASSUME NEW i \in K PROVE T(i) \in Seq(Tokens)
    OBVIOUS
  <2>1. Index(table, ids[i]) \in DOMAIN table
    BY DEF Index, Live
  <2> QED
    BY <2>1 DEF ClusterOf
<1>2. B \in Nat /\ C \in Nat
  BY DEF Weight
<1>3. \A i \in K : s[i] \in 0..B /\ p[i] \in 0..C
  <2> SUFFICES ASSUME NEW i \in K PROVE s[i] \in 0..B /\ p[i] \in 0..C
    OBVIOUS
  <2>1. /\ Similar(T(i), tokens, params) \in Nat /\ Similar(T(i), tokens, params) <= B
        /\ Wildcards(T(i)) \in Nat /\ Wildcards(T(i)) <= Len(T(i))
    BY <1>1, SimilarOf
  <2> HIDE DEF K, T, B
  <2> QED
    BY <1>2, <2>1
<1>4. K \in SUBSET Nat /\ K # {}
  OBVIOUS
<1>5. \A i, j \in K : Closer(ClusterOf(table, ids[i]), ClusterOf(table, ids[j]), tokens, params)
                        <=> Beats(s, p, i, j)
  <2> HIDE DEF K
  <2> QED
    BY DEF Closer, Beats
<1> HIDE DEF s, p, B, C
<1>6. PICK i \in K : /\ \A j \in K : ~Beats(s, p, j, i) /\ s[j] <= s[i]
                     /\ \A j \in K : j < i => Beats(s, p, i, j)
  <2> HIDE DEF K
  <2> QED
    BY <1>2, <1>3, <1>4, FirstOfBest
<1>7. Reaches(ClusterOf(table, ids[i]), tokens, num, den, params)
  <2>1. \A l, m, n \in Nat : l <= m => l * n <= m * n
    OBVIOUS
  <2>2. k \in K /\ s[k] = Similar(T(k), tokens, params) /\ s[i] = Similar(T(i), tokens, params)
    BY DEF s
  <2>3. s[k] \in Nat /\ s[i] \in Nat /\ s[k] <= s[i]
    BY <1>2, <1>3, <1>6, <2>2
  <2>4. s[k] * den <= s[i] * den /\ s[k] * den \in Nat /\ s[i] * den \in Nat
    <3>1. s[k] * den <= s[i] * den
      BY ONLY <2>1, <2>3, den \in Nat, SMTT(30)
    <3>2. \A l, m \in Nat : l * m \in Nat
      OBVIOUS
    <3>3. s[k] * den \in Nat /\ s[i] * den \in Nat
      BY ONLY <2>3, <3>2, den \in Nat, SMTT(30)
    <3> QED
      BY ONLY <3>1, <3>3
  <2>5. num * Weight(tokens) \in Nat
    BY <1>2 DEF B
  <2>6. s[k] * den >= num * Weight(tokens)
    BY <2>2 DEF Reaches
  <2>7. s[i] * den >= num * Weight(tokens)
    BY <2>4, <2>5, <2>6
  <2> QED
    BY <2>2, <2>7 DEF Reaches
<1> QED
  BY <1>5, <1>6, <1>7 DEF Wins

-----------------------------------------------------------------------------
(* A line that went into a template matches it. *)

LEMMA CutOnce ==
    ASSUME NEW line \in Seq(Tokens), MaxTokens > 0 => Len(line) <= MaxTokens
    PROVE  Tokenize(line) = line
  BY DrainAssumption DEF Tokenize

LEMMA TokenizedLength ==
    ASSUME NEW line \in Lines, MaxTokens > 0
    PROVE  Len(Tokenize(line)) <= MaxTokens
<1>1. line \in Seq(Tokens \ {Param}) /\ MaxTokens \in Nat /\ Len(line) \in Nat
  BY DrainAssumption
<1>2. CASE Len(line) > MaxTokens
  <2> DEFINE short == SubSeq(line, 1, MaxTokens - 1)
  <2>1. short \in Seq(Tokens \ {Param}) /\ Len(short) = MaxTokens - 1
    <3> DEFINE T == Tokens \ {Param}
    <3>1. line \in Seq(T)
      BY <1>1
    <3> HIDE DEF T
    <3>2. short \in Seq(T) /\ Len(short) = MaxTokens - 1
      <4>1. \A i \in 1..(MaxTokens - 1) : line[i] \in T
        BY <1>1, <1>2, <3>1
      <4> QED
        BY <1>1, <1>2, <3>1, <4>1
    <3> QED
      BY <3>2 DEF T
  <2> HIDE DEF short
  <2>2. Len(Append(short, Truncated)) = MaxTokens
    BY <1>1, <2>1
  <2>3. Tokenize(line) = Append(short, Truncated)
    BY <1>2 DEF Tokenize, short
  <2> QED
    BY <1>1, <2>2, <2>3
<1>3. CASE ~(Len(line) > MaxTokens)
  <2>1. Tokenize(line) = line
    BY <1>3 DEF Tokenize
  <2> QED
    BY <1>1, <1>3, <2>1
<1> QED
  BY <1>2, <1>3

LEMMA CoveredMatches ==
    ASSUME NEW t \in Seq(Tokens), NEW line, Covers(t, line)
    PROVE  Similar(t, line, TRUE) = Weight(line)
<1> DEFINE sim == Similar(t, line, TRUE)
<1>1. /\ line \in Seq(Tokens \ {Param}) /\ Len(line) = Len(t)
      /\ \A k \in DOMAIN line : t[k] \in {line[k], Param}
  BY DEF Covers
<1>2. Literals(t) = Same(t, line)
  BY <1>1 DEF Literals, Same
<1>3. Cardinality(Literals(t)) \in Nat
  BY FiniteLiterals
<1>4. CASE t = <<>>
  <2>1. line = <<>>
    BY <1>1, <1>4
  <2> QED
    BY <1>4, <2>1 DEF Similar, Weight
<1>5. CASE t # <<>>
  <2>1. line # <<>> /\ Len(t) \in Nat
    BY <1>1, <1>5
  <2>2. sim = Cardinality(Same(t, line)) + Wildcards(t)
    BY <1>1, <1>5 DEF Similar
  <2>3. Cardinality(Same(t, line)) = Cardinality(Literals(t))
    BY <1>2
  <2>4. Wildcards(t) = Len(t) - Cardinality(Literals(t)) /\ Weight(line) = Len(t)
    BY <1>1, <2>1 DEF Wildcards, Weight
  <2> HIDE DEF sim
  <2>5. sim = Weight(line)
    BY <1>3, <2>1, <2>2, <2>3, <2>4
  <2> QED
    BY <2>5 DEF sim
<1> QED
  BY <1>4, <1>5

LEMMA MatchCovers ==
    ASSUME NEW t \in Seq(Tokens), NEW line \in Seq(Tokens),
           Similar(t, line, TRUE) * 1 >= 1 * Weight(line)
    PROVE  \A k \in DOMAIN line : t[k] \in {line[k], Param}
<1> DEFINE sim == Similar(t, line, TRUE)
<1>1. Len(t) \in Nat /\ Len(line) \in Nat /\ Weight(line) \in Nat /\ Weight(line) >= 1
  BY DEF Weight
<1>2. sim \in Nat /\ sim >= Weight(line)
  <2>1. TRUE \in BOOLEAN
    OBVIOUS
  <2>2. sim \in Nat
    BY <2>1, SimilarOf
  <2>3. sim * 1 >= 1 * Weight(line)
    OBVIOUS
  <2> HIDE DEF sim
  <2> QED
    BY <1>1, <2>2, <2>3
<1>3. Len(t) = Len(line)
  BY <1>1, <1>2 DEF Similar
<1>4. CASE t = <<>>
  BY <1>3, <1>4
<1>5. CASE t # <<>>
  <2>1. sim = Cardinality(Same(t, line)) + Wildcards(t)
    BY <1>3, <1>5 DEF Similar
  <2> HIDE DEF sim
  <2>2. IsFiniteSet(Literals(t)) /\ Cardinality(Literals(t)) \in Nat
    BY FiniteLiterals
  <2>3. /\ Same(t, line) \in SUBSET Literals(t) /\ Cardinality(Same(t, line)) \in Nat
        /\ Cardinality(Same(t, line)) <= Cardinality(Literals(t))
    BY <2>2, FS_Subset, FS_CardinalityType DEF Same
  <2>4. Weight(line) = Len(t)
    BY <1>1, <1>3, <1>5 DEF Weight
  <2>5. Cardinality(Literals(t)) = Cardinality(Same(t, line))
    <3>1. Wildcards(t) = Len(t) - Cardinality(Literals(t))
      BY DEF Wildcards
    <3> QED
      BY <1>1, <1>2, <2>1, <2>2, <2>3, <2>4, <3>1
  <2>6. Literals(t) = Same(t, line)
    BY <2>2, <2>3, <2>5, FS_Subset
  <2> QED
    BY <1>3, <2>6 DEF Literals, Same
<1> QED
  BY <1>4, <1>5

\* What is left of a template still covers what it covered, and the line too.
LEMMA GeneralisedCovers ==
    ASSUME NEW t \in Seq(Tokens), NEW tokens \in Seq(Tokens \ {Param}), Len(tokens) = Len(t)
    PROVE  /\ \A line : Covers(t, line) => Covers(CreateTemplate(tokens, t), line)
           /\ (MaxTokens > 0 => Len(tokens) <= MaxTokens)
                => Covers(CreateTemplate(tokens, t), tokens)
<1> DEFINE new == CreateTemplate(tokens, t)
<1>1. /\ DOMAIN new = DOMAIN t /\ Len(new) = Len(t) /\ DOMAIN tokens = DOMAIN t
      /\ \A k \in DOMAIN t : new[k] = IF tokens[k] = t[k] THEN t[k] ELSE Param
  <2>1. new \in [1..Len(t) -> Tokens \cup {Param}]
    BY DEF CreateTemplate
  <2> QED
    BY <2>1 DEF CreateTemplate
<1> HIDE DEF new
<1>2. ASSUME NEW line, Covers(t, line) PROVE Covers(new, line)
  <2>1. line \in Seq(Tokens \ {Param}) /\ Len(line) = Len(t)
    BY <1>2 DEF Covers
  <2>2. DOMAIN line = DOMAIN t
    BY <2>1
  <2> QED
    BY <1>1, <1>2, <2>2 DEF Covers
<1>3. (MaxTokens > 0 => Len(tokens) <= MaxTokens) => Covers(new, tokens)
  BY <1>1 DEF Covers
<1> QED
  BY <1>2, <1>3 DEF new

LEMMA IdsOf ==
    ASSUME NEW n \in Nat, NEW table, Table(table, n), NEW k \in DOMAIN table
    PROVE  /\ table[k].id \in Live(table) /\ table[k].id \in 1..n
           /\ Index(table, table[k].id) = k /\ ClusterOf(table, table[k].id) = table[k]
           /\ table[k] \in Cluster /\ table[k].template \in Seq(Tokens)
<1>1. table[k] \in Cluster
  BY DEF Table
<1>2. table[k].template \in Seq(Tokens)
  BY <1>1 DEF Cluster
<1>3. Index(table, table[k].id) = k
  BY DEF Index, Table
<1> QED
  BY <1>1, <1>2, <1>3 DEF Live, ClusterOf, Table

\* A line learnt is found again by a lookup, whatever the tree.
LEMMA CoveredIsFound ==
    ASSUME NEW nodes, NEW n \in Nat, NEW table, Table(table, n),
           NEW k \in DOMAIN table, NEW line, Covers(table[k].template, line)
    PROVE  LET hit == Match(nodes, table, line) IN
           /\ hit # None
           /\ \A i \in DOMAIN line : hit.template[i] \in {line[i], Param}
<1> DEFINE quick == TreeSearch(nodes, table, line, 1, 1, TRUE)
           ids == [i \in DOMAIN table |-> table[i].id]
           slow == FastMatch(table, ids, line, 1, 1, TRUE)
<1>1. line \in Seq(Tokens) /\ Tokenize(line) = line
  <2>1. line \in Seq(Tokens \ {Param}) /\ (MaxTokens > 0 => Len(line) <= MaxTokens)
    BY DEF Covers
  <2>2. line \in Seq(Tokens)
    BY <2>1
  <2> QED
    BY <2>1, <2>2, CutOnce
<1>2. Match(nodes, table, line) = IF quick # None THEN quick ELSE slow
  BY <1>1 DEF Match
<1>3. ASSUME NEW i \in DOMAIN table, NEW c, c = table[i],
             Similar(table[i].template, line, TRUE) * 1 >= 1 * Weight(line)
      PROVE  c # None /\ \A j \in DOMAIN line : c.template[j] \in {line[j], Param}
  <2>1. table[i].template \in Seq(Tokens) /\ table[i].id \in 1..n
    BY IdsOf
  <2>2. \A j \in DOMAIN line : table[i].template[j] \in {line[j], Param}
    BY <1>1, <1>3, <2>1, MatchCovers
  <2>3. c # None
    BY <1>3, <2>1 DEF None
  <2> QED
    BY <1>3, <2>2, <2>3
<1>4. CASE quick # None
  <2>1. \E i \in DOMAIN table : /\ quick = table[i]
                                /\ Similar(table[i].template, line, TRUE) * 1 >= 1 * Weight(line)
    <3> HIDE DEF ids, slow
    <3> QED
      BY ONLY <1>4, SearchFinds, ZenonT(30)
  <2> QED
    BY <1>2, <1>3, <1>4, <2>1
<1>5. CASE quick = None
  <2>1. /\ ids \in Seq(Nat) /\ DOMAIN ids = DOMAIN table
        /\ \A i \in DOMAIN table : /\ ids[i] \in Live(table) /\ ClusterOf(table, ids[i]) = table[i]
                                   /\ table[i].template \in Seq(Tokens)
    <3>1. \A i \in DOMAIN table : /\ table[i].id \in Nat /\ table[i].id \in Live(table)
                                  /\ ClusterOf(table, table[i].id) = table[i]
                                  /\ table[i].template \in Seq(Tokens)
      BY IdsOf
    <3>2. DOMAIN table = 1..Len(table) /\ Len(table) \in Nat
      BY DEF Table
    <3> QED
      BY <3>1, <3>2
  <2> HIDE DEF ids, quick
  <2>2. Reaches(ClusterOf(table, ids[k]), line, 1, 1, TRUE)
    <3>1. Similar(table[k].template, line, TRUE) = Weight(line)
      BY <2>1, CoveredMatches
    <3>2. Weight(line) \in Nat
      BY <1>1 DEF Weight
    <3>3. Similar(ClusterOf(table, ids[k]).template, line, TRUE) = Weight(line)
      BY <2>1, <3>1
    <3>4. Weight(line) * 1 >= 1 * Weight(line)
      BY <3>2
    <3> QED
      BY <3>3, <3>4 DEF Reaches
  <2>3. PICK i : Wins(table, ids, line, 1, 1, TRUE, i)
    BY <1>1, <2>1, <2>2, SomeoneWins
  <2>4. slow = ClusterOf(table, ids[i])
    <3> HIDE DEF slow
    <3>1. ids \in Seq(Nat)
      BY <2>1
    <3>2. FastMatch(table, ids, line, 1, 1, TRUE) = ClusterOf(table, ids[i])
      BY <2>3, <3>1, WinnerFound, Zenon
    <3> QED
      BY <3>2 DEF slow
  <2>5. /\ i \in DOMAIN table /\ slow = table[i]
        /\ Similar(table[i].template, line, TRUE) * 1 >= 1 * Weight(line)
    BY <2>1, <2>3, <2>4 DEF Wins, Reaches
  <2> QED
    BY <1>2, <1>3, <1>5, <2>5
<1> QED
  BY <1>4, <1>5

-----------------------------------------------------------------------------
(* What becomes of the table when a cluster is put in or replaced. *)

\* The table holds c and clusters of the old table besides.
Follows(new, table, c) ==
    /\ \E i \in DOMAIN new : new[i] = c
    /\ \A i \in DOMAIN new :
         new[i] = c \/ \E j \in DOMAIN table : new[i] = table[j] /\ table[j].id # c.id

LEMMA PutFollows ==
    ASSUME NEW n \in Nat, NEW table, Table(table, n), NEW t \in Seq(Tokens)
    PROVE  LET c == [id |-> n + 1, template |-> t] IN Follows(Put(table, c), table, c)
<1> DEFINE c == [id |-> n + 1, template |-> t]
           rest == IF MaxClusters > 0 /\ Len(table) >= MaxClusters THEN Tail(table) ELSE table
<1>1. table \in Seq(Cluster) /\ MaxClusters \in Nat /\ c \in Cluster /\ c.id = n + 1
  BY DrainAssumption DEF Table, Cluster
<1> HIDE DEF c
<1>2. rest \in Seq(Cluster) /\ \A i \in 1..Len(rest) : \E j \in 1..Len(table) : rest[i] = table[j]
  <2>1. CASE rest = table
    BY <1>1, <2>1
  <2>2. CASE MaxClusters > 0 /\ Len(table) >= MaxClusters
    <3>1. /\ rest \in Seq(Cluster) /\ Len(rest) = Len(table) - 1
          /\ \A i \in 1..Len(rest) : rest[i] = table[i + 1] /\ i + 1 \in 1..Len(table)
      BY <1>1, <2>2
    <3> QED
      BY <3>1
  <2> QED
    BY <2>1, <2>2
<1>3. Put(table, c) = Append(rest, c)
  BY DEF Put
<1> HIDE DEF rest
<1>4. /\ DOMAIN Append(rest, c) = 1..(Len(rest) + 1) /\ Len(rest) \in Nat
      /\ \A i \in 1..Len(rest) : Append(rest, c)[i] = rest[i]
      /\ Append(rest, c)[Len(rest) + 1] = c
  BY <1>1, <1>2
<1>5. \A i \in 1..(Len(rest) + 1) : i \in 1..Len(rest) \/ i = Len(rest) + 1
  BY <1>4
<1>6. Len(rest) + 1 \in DOMAIN Append(rest, c)
  BY <1>4
<1>7. \A j \in 1..Len(table) : table[j].id # c.id
  <2>1. \A j \in 1..Len(table) : table[j].id \in 1..n
    BY <1>1 DEF Table
  <2> QED
    BY <1>1, <2>1
<1>8. DOMAIN table = 1..Len(table)
  BY <1>1
<1>9. ASSUME NEW i \in DOMAIN Append(rest, c)
      PROVE  \/ Append(rest, c)[i] = c
             \/ \E j \in DOMAIN table : Append(rest, c)[i] = table[j] /\ table[j].id # c.id
  <2>1. CASE i \in 1..Len(rest)
    BY <1>2, <1>4, <1>7, <1>8, <2>1
  <2>2. CASE i = Len(rest) + 1
    BY <1>4, <2>2
  <2> QED
    BY <1>4, <1>5, <2>1, <2>2
<1>10. Follows(Append(rest, c), table, c)
  BY <1>4, <1>6, <1>9 DEF Follows
<1> QED
  BY <1>3, <1>10 DEF c

LEMMA TouchFollows ==
    ASSUME NEW n \in Nat, NEW table, Table(table, n),
           NEW k \in DOMAIN table, NEW t \in Seq(Tokens)
    PROVE  LET c == [id |-> table[k].id, template |-> t] IN Follows(Touch(table, c), table, c)
<1> DEFINE c == [id |-> table[k].id, template |-> t]
           new == Touch(table, c)
<1>1. /\ table \in Seq(Cluster) /\ DOMAIN table = 1..Len(table) /\ Len(table) \in Nat
      /\ k \in 1..Len(table)
  BY DEF Table
<1>2. /\ DOMAIN new = 1..Len(table)
      /\ \A i \in 1..Len(table) : new[i] = IF i < k THEN table[i]
                                           ELSE IF i < Len(table) THEN table[i + 1] ELSE c
  <2>1. /\ new \in Seq(Cluster) /\ Len(new) = Len(table)
        /\ \A i \in 1..Len(new) : new[i] = IF i < k THEN table[i]
                                           ELSE IF i < Len(table) THEN table[i + 1] ELSE c
    BY TouchOf
  <2> HIDE DEF new, c
  <2> QED
    BY <2>1
<1>3. c.id = table[k].id
  OBVIOUS
<1> HIDE DEF new, c
<1>4. \A j \in DOMAIN table : j # k => table[j].id # c.id
  BY <1>3 DEF Table
<1>5. ASSUME NEW i \in DOMAIN new
      PROVE  new[i] = c \/ \E j \in DOMAIN table : new[i] = table[j] /\ table[j].id # c.id
  <2>1. CASE i < k
    BY <1>1, <1>2, <1>4, <2>1
  <2>2. CASE ~(i < k) /\ i < Len(table)
    <3>1. i + 1 \in DOMAIN table /\ i + 1 # k /\ new[i] = table[i + 1]
      BY <1>1, <1>2, <2>2
    <3> QED
      BY <1>4, <3>1
  <2>3. CASE ~(i < k) /\ ~(i < Len(table))
    BY <1>1, <1>2, <2>3
  <2> QED
    BY <2>1, <2>2, <2>3
<1>6. Len(table) \in DOMAIN new /\ new[Len(table)] = c
  BY <1>1, <1>2
<1>7. Follows(new, table, c)
  BY <1>5, <1>6 DEF Follows
<1> QED
  BY <1>7 DEF new, c

\* Who is known afterwards, and under which template.
LEMMA FollowsGives ==
    ASSUME NEW m \in Nat, NEW n \in Nat, NEW new, NEW table, NEW c,
           Table(new, m), Table(table, n), Follows(new, table, c)
    PROVE  /\ c.id \in Live(new) /\ ClusterOf(new, c.id) = c
           /\ \A id \in Live(new) : id # c.id =>
                id \in Live(table) /\ ClusterOf(new, id) = ClusterOf(table, id)
<1>1. c.id \in Live(new) /\ ClusterOf(new, c.id) = c
  <2>1. PICK i \in DOMAIN new : new[i] = c
    BY DEF Follows
  <2> QED
    BY <2>1, IdsOf
<1>2. ASSUME NEW id \in Live(new), id # c.id
      PROVE  id \in Live(table) /\ ClusterOf(new, id) = ClusterOf(table, id)
  <2>1. PICK i \in DOMAIN new : new[i].id = id
    BY DEF Live
  <2>2. PICK j \in DOMAIN table : new[i] = table[j]
    BY <1>2, <2>1 DEF Follows
  <2>3. ClusterOf(new, id) = new[i]
    BY <2>1, IdsOf
  <2>4. id \in Live(table) /\ ClusterOf(table, id) = table[j]
    BY <2>1, <2>2, IdsOf
  <2> QED
    BY <2>2, <2>3, <2>4
<1> QED
  BY <1>1, <1>2

LEMMA FollowsOneEmpty ==
    ASSUME NEW m \in Nat, NEW n \in Nat, NEW new, NEW table, NEW c,
           Table(new, m), Table(table, n), Follows(new, table, c), OneEmpty(table),
           \A j \in DOMAIN table :
              c.template = <<>> /\ table[j].template = <<>> => table[j].id = c.id
    PROVE  OneEmpty(new)
<1> SUFFICES ASSUME NEW i \in DOMAIN new, NEW j \in DOMAIN new,
                    new[i].template = <<>>, new[j].template = <<>>, i # j
             PROVE  FALSE
  BY DEF OneEmpty
<1>1. new[i].id # new[j].id
  BY DEF Table
<1>2. new[i] = c \/ \E k \in DOMAIN table : new[i] = table[k] /\ table[k].id # c.id
  BY DEF Follows
<1>3. new[j] = c \/ \E k \in DOMAIN table : new[j] = table[k] /\ table[k].id # c.id
  BY DEF Follows
<1>4. \A k, l \in DOMAIN table : table[k].template = <<>> /\ table[l].template = <<>> => k = l
  BY DEF OneEmpty
<1> QED
  BY <1>1, <1>2, <1>3, <1>4

LEMMA FollowsCovering ==
    ASSUME NEW m \in Nat, NEW n \in Nat, NEW new, NEW table, NEW c, NEW lines, NEW more,
           Table(new, m), Table(table, n), Follows(new, table, c),
           Covering(table, n, lines),
           more \in Seq(SUBSET Seq(Tokens \ {Param})), Len(more) = m,
           \A line \in more[c.id] : Covers(c.template, line),
           \A j \in DOMAIN table : table[j].id # c.id => more[table[j].id] = lines[table[j].id]
    PROVE  Covering(new, m, more)
<1>1. ASSUME NEW i \in DOMAIN new, NEW line \in more[new[i].id]
      PROVE  Covers(new[i].template, line)
  <2>1. new[i] = c \/ \E j \in DOMAIN table : new[i] = table[j] /\ table[j].id # c.id
    BY DEF Follows
  <2>2. \A j \in DOMAIN table : \A l \in lines[table[j].id] : Covers(table[j].template, l)
    BY DEF Covering
  <2> QED
    BY <1>1, <2>1, <2>2
<1> QED
  BY <1>1 DEF Covering

-----------------------------------------------------------------------------
(* The lines of a cluster stay covered. *)

\* What Update finds.
LEMMA Matched ==
    ASSUME IInv, NEW line \in Lines, Update(Tokenize(line))
    PROVE  \E k \in DOMAIN clusters :
             LET tokens == Tokenize(line)
                 t == clusters[k].template
                 new == CreateTemplate(tokens, t)
             IN /\ TreeSearch(tree, clusters, tokens, SimNum, SimDen, FALSE) = clusters[k]
                /\ t \in Seq(Tokens) /\ new \in Seq(Tokens)
                /\ Len(t) = Len(tokens) /\ Len(new) = Len(tokens)
                /\ clusters' = Touch(clusters, [id |-> clusters[k].id, template |-> new])
                /\ mined' = [mined EXCEPT ![clusters[k].id] = @ \cup {tokens}]
                /\ last' = [line |-> tokens, id |-> clusters[k].id]
<1> DEFINE tokens == Tokenize(line)
           matched == TreeSearch(tree, clusters, tokens, SimNum, SimDen, FALSE)
<1>1. tokens \in Seq(Tokens \ {Param})
  BY TokenizedLine
<1>2. tokens \in Seq(Tokens)
  <2> HIDE DEF tokens
  <2> QED
    BY <1>1
<1> HIDE DEF tokens
<1>3. Update(tokens)
  BY DEF tokens
<1>4. PICK k \in DOMAIN clusters :
        /\ matched = clusters[k]
        /\ Similar(clusters[k].template, tokens, FALSE) * SimDen >= SimNum * Weight(tokens)
  <2>1. matched # None
    BY <1>3 DEF Update
  <2> QED
    BY <2>1, SearchFinds, ZenonT(30)
<1>5. clusters[k].template \in Seq(Tokens)
  <2>1. clusters[k] \in Cluster
    BY DEF IInv, Table
  <2> QED
    BY <2>1 DEF Cluster
<1>6. Len(clusters[k].template) = Len(tokens)
  BY <1>2, <1>4, <1>5, SameLength
<1>7. /\ CreateTemplate(tokens, clusters[k].template) \in Seq(Tokens)
      /\ Len(CreateTemplate(tokens, clusters[k].template)) = Len(tokens)
  BY <1>1, <1>4, <1>5, <1>6, GeneralisedShape
<1>8. /\ clusters' = Touch(clusters, [id |-> clusters[k].id,
                              template |-> CreateTemplate(tokens, clusters[k].template)])
      /\ mined' = [mined EXCEPT ![clusters[k].id] = @ \cup {tokens}]
      /\ last' = [line |-> tokens, id |-> clusters[k].id]
  BY <1>3, <1>4 DEF Update
<1> QED
  BY <1>4, <1>5, <1>6, <1>7, <1>8 DEF tokens

LEMMA CreateCovered ==
    ASSUME IInv, Covered, NEW line \in Lines, Create(Tokenize(line))
    PROVE  Covered'
<1> DEFINE tokens == Tokenize(line)
           c == [id |-> counter + 1, template |-> tokens]
           Mined == SUBSET Seq(Tokens \ {Param})
<1>1. tokens \in Seq(Tokens \ {Param}) /\ (MaxTokens > 0 => Len(tokens) <= MaxTokens)
  BY TokenizedLine, TokenizedLength
<1>2. tokens \in Seq(Tokens)
  <2> HIDE DEF tokens
  <2> QED
    BY <1>1
<1>3. /\ counter \in Nat /\ counter' = counter + 1 /\ saved' = saved
      /\ clusters' = Put(clusters, c) /\ mined' = Append(mined, {tokens})
  BY DrainAssumption DEF Create, IInv
<1>4. Table(clusters, counter) /\ Table(clusters', counter + 1)
  BY <1>3, CreateKeeps DEF IInv
<1> HIDE DEF tokens
<1>5. Follows(clusters', clusters, c)
  BY <1>2, <1>3, <1>4, PutFollows
<1>6. Covering(clusters, counter, mined)
  BY DEF Covered
<1>7. /\ mined' \in Seq(Mined) /\ Len(mined') = counter + 1 /\ mined'[counter + 1] = {tokens}
      /\ \A i \in 1..counter : mined'[i] = mined[i]
  <2>1. mined \in Seq(Mined) /\ Len(mined) = counter /\ {tokens} \in Mined
    BY <1>1, <1>6 DEF Covering
  <2> HIDE DEF Mined
  <2> QED
    BY <1>3, <2>1
<1>8. c.id = counter + 1 /\ c.template = tokens
  OBVIOUS
<1>9. \A i \in mined'[c.id] : Covers(c.template, i)
  <2>1. Covers(tokens, tokens)
    BY <1>1 DEF Covers
  <2> QED
    BY <1>7, <1>8, <2>1
<1>10. \A j \in DOMAIN clusters : mined'[clusters[j].id] = mined[clusters[j].id]
  BY <1>4, <1>7 DEF Table
<1> HIDE DEF c
<1>11. Covering(clusters', counter', mined')
  <2>1. PICK n \in Nat : n = counter + 1
    BY <1>3
  <2>2. Table(clusters', n) /\ Table(clusters, counter) /\ Len(mined') = n /\ counter \in Nat
    BY <1>3, <1>4, <1>7, <2>1
  <2>3. mined' \in Seq(SUBSET Seq(Tokens \ {Param}))
    BY <1>7
  <2>4. \A j \in DOMAIN clusters : clusters[j].id # c.id
                                     => mined'[clusters[j].id] = mined[clusters[j].id]
    BY <1>10
  <2>5. \A l \in mined'[c.id] : Covers(c.template, l)
    BY <1>9
  <2> HIDE DEF Mined
  <2>6. Covering(clusters', n, mined')
    BY ONLY <1>5, <1>6, <2>2, <2>3, <2>4, <2>5, FollowsCovering, ZenonT(30)
  <2> QED
    BY <1>3, <2>1, <2>6
<1> QED
  BY <1>3, <1>6, <1>11 DEF Covered

LEMMA UpdateCovered ==
    ASSUME IInv, Covered, NEW line \in Lines, Update(Tokenize(line))
    PROVE  Covered'
<1> DEFINE tokens == Tokenize(line)
           Mined == SUBSET Seq(Tokens \ {Param})
<1>1. tokens \in Seq(Tokens \ {Param}) /\ (MaxTokens > 0 => Len(tokens) <= MaxTokens)
  BY TokenizedLine, TokenizedLength
<1>2. PICK k \in DOMAIN clusters :
        LET t == clusters[k].template
            new == CreateTemplate(tokens, t)
        IN /\ t \in Seq(Tokens) /\ new \in Seq(Tokens) /\ Len(t) = Len(tokens)
           /\ clusters' = Touch(clusters, [id |-> clusters[k].id, template |-> new])
           /\ mined' = [mined EXCEPT ![clusters[k].id] = @ \cup {tokens}]
  BY Matched
<1> DEFINE t == clusters[k].template
           new == CreateTemplate(tokens, t)
           c == [id |-> clusters[k].id, template |-> new]
<1>3. counter \in Nat /\ counter' = counter /\ saved' = saved
  BY DrainAssumption DEF Update, IInv
<1>4. Table(clusters, counter) /\ Table(clusters', counter)
  BY <1>3, UpdateKeeps DEF IInv
<1> HIDE DEF tokens
<1>5. Follows(clusters', clusters, c)
  BY <1>2, <1>3, <1>4, TouchFollows
<1>6. Covering(clusters, counter, mined) /\ clusters[k].id \in 1..counter
  BY <1>3, <1>4, IdsOf DEF Covered
<1>7. /\ mined' \in Seq(Mined) /\ Len(mined') = counter
      /\ mined'[clusters[k].id] = mined[clusters[k].id] \cup {tokens}
      /\ \A i \in 1..counter : i # clusters[k].id => mined'[i] = mined[i]
  <2>1. mined \in Seq(Mined) /\ Len(mined) = counter
    BY <1>6 DEF Covering
  <2>2. mined[clusters[k].id] \cup {tokens} \in Mined
    BY <1>1, <1>6, <2>1
  <2> HIDE DEF Mined
  <2> QED
    BY <1>2, <1>6, <2>1, <2>2
<1>8. c.id = clusters[k].id /\ c.template = new
  OBVIOUS
<1>9. \A l \in mined'[c.id] : Covers(c.template, l)
  <2>1. \A l \in mined[clusters[k].id] : Covers(t, l)
    BY <1>6 DEF Covering
  <2>2. Covers(new, tokens) /\ \A l : Covers(t, l) => Covers(new, l)
    BY <1>1, <1>2, GeneralisedCovers
  <2> HIDE DEF new, t, c
  <2> QED
    BY <1>7, <1>8, <2>1, <2>2
<1>10. \A j \in DOMAIN clusters : clusters[j].id # c.id => mined'[clusters[j].id] = mined[clusters[j].id]
  BY <1>4, <1>7, <1>8 DEF Table
<1> HIDE DEF c
<1>11. Covering(clusters', counter, mined')
  BY <1>3, <1>4, <1>5, <1>6, <1>7, <1>9, <1>10, FollowsCovering
<1> QED
  BY <1>3, <1>11 DEF Covered

LEMMA InitCovered == Init => Covered
  BY DEF Init, Covered, Covering

LEMMA NextCovered ==
    ASSUME IInv, Covered, [Next]_vars
    PROVE  Covered'
<1>1. ASSUME NEW line \in Lines, AddLogMessage(line) PROVE Covered'
  BY <1>1, CreateCovered, UpdateCovered DEF AddLogMessage
<1>2. CASE Snapshot
  BY <1>2 DEF Snapshot, Covered
<1>3. CASE Restore
  BY <1>3 DEF Restore, Covered
<1>4. CASE Forget
  BY <1>4 DEF Forget, Covered, Covering
<1>5. CASE UNCHANGED vars
  BY <1>5 DEF vars, Covered
<1> QED
  BY <1>1, <1>2, <1>3, <1>4, <1>5 DEF Next

-----------------------------------------------------------------------------
(* What a new cluster makes of the prefix tree. *)

LEMMA FrontOf ==
    ASSUME NEW S, NEW v \in Seq(S), NEW x \in S
    PROVE  Front(Append(v, x)) = v
<1>1. /\ Append(v, x) \in Seq(S) /\ Len(Append(v, x)) = Len(v) + 1 /\ Len(v) \in Nat
      /\ \A i \in 1..Len(v) : Append(v, x)[i] = v[i]
  OBVIOUS
<1> DEFINE w == Append(v, x)
<1>2. Len(v) + 1 - 1 = Len(v)
  BY <1>1
<1> HIDE DEF w
<1>3. /\ SubSeq(w, 1, Len(v)) \in Seq(S) /\ Len(SubSeq(w, 1, Len(v))) = Len(v)
      /\ \A i \in 1..Len(v) : SubSeq(w, 1, Len(v))[i] = w[i]
  <2>1. w \in Seq(S) /\ Len(w) = Len(v) + 1
    BY <1>1 DEF w
  <2>2. \A i \in 1..Len(v) : w[i] \in S
    BY <1>1, <2>1
  <2> QED
    BY <1>1, <2>1, <2>2
<1>4. SubSeq(w, 1, Len(v)) = v
  BY <1>1, <1>3 DEF w
<1> QED
  BY <1>1, <1>2, <1>4 DEF Front, w

\* A node that got the child a cluster asks for has room as before.
LEMMA RoomyGrow ==
    ASSUME NEW nodes, NEW more, NEW v, NEW t,
           IsFiniteSet(Children(nodes, v)),
           Roomy(nodes, v) \/ Children(nodes, v) = {},
           \A x \in {t, Param} : Append(v, x) \in nodes => Append(v, x) \in Children(nodes, v),
           nodes \subseteq more, Grow(nodes, v, t) \in more,
           Children(more, v) = Children(nodes, v) \cup {Grow(nodes, v, t)}
    PROVE  Roomy(more, v)
<1> DEFINE u == Grow(nodes, v, t)
           exact == Append(v, t)
           wild == Append(v, Param)
           old == Children(nodes, v)
           n == Cardinality(old)
           m == Cardinality(Children(more, v))
<1>1. n \in Nat /\ MaxChildren \in Nat \ {0}
  BY FS_CardinalityType, DrainAssumption
<1>2. m = IF u \in old THEN n ELSE n + 1
  <2>1. Children(more, v) = old \cup {u}
    OBVIOUS
  <2>2. IsFiniteSet(old)
    OBVIOUS
  <2> HIDE DEF u, old
  <2>3. Cardinality(old \cup {u}) = IF u \in old THEN n ELSE n + 1
    BY <2>2, FS_AddElement
  <2> QED
    BY <2>1, <2>3
<1>3. Roomy(nodes, v) <=> n < MaxChildren \/ (n = MaxChildren /\ wild \in nodes)
  BY DEF Roomy
<1>4. Roomy(more, v) <=> m < MaxChildren \/ (m = MaxChildren /\ wild \in more)
  BY DEF Roomy
<1>5. \/ u = exact /\ exact \in nodes
      \/ u = wild
      \/ u = exact /\ n + (IF wild \in nodes THEN 0 ELSE 1) < MaxChildren
  BY DEF Grow
<1>6. old = {} => n = 0
  BY FS_EmptySet
<1>7. wild \in nodes => wild \in old
  OBVIOUS
<1>8. n < MaxChildren \/ (n = MaxChildren /\ wild \in nodes)
  <2> HIDE DEF n, wild, old
  <2> QED
    BY <1>1, <1>3, <1>6 DEF old
<1>9. u \in more /\ (wild \in nodes => wild \in more)
  OBVIOUS
<1>10. CASE u \in old
  <2> HIDE DEF n, m, wild, old, u
  <2> QED
    BY <1>1, <1>2, <1>4, <1>8, <1>9, <1>10
<1>11. CASE u \notin old /\ u = wild
  <2> HIDE DEF n, m, wild, old, u
  <2> QED
    BY <1>1, <1>2, <1>4, <1>7, <1>8, <1>9, <1>11
<1>12. CASE u \notin old /\ u = exact /\ n + (IF wild \in nodes THEN 0 ELSE 1) < MaxChildren
  <2> HIDE DEF n, m, wild, old, u
  <2> QED
    BY <1>1, <1>2, <1>4, <1>9, <1>12
<1>13. CASE u \notin old /\ u = exact /\ exact \in nodes
  BY <1>13
<1> QED
  BY <1>5, <1>10, <1>11, <1>12, <1>13

\* A sequence of nodes, each below the one before.
Descent(nodes, path, tokens, depth) ==
    /\ depth \in Nat /\ path = [k \in 1..(depth + 1) |-> path[k]]
    /\ path[1] = <<Len(tokens)>>
    /\ \A k \in 0..depth : path[k + 1] \in NodesAt(Len(tokens), k)
    /\ \A k \in 1..depth :
         /\ tokens[k] \in Tokens
         /\ path[k + 1] = Grow(nodes, path[k], tokens[k])
         /\ Len(path[k + 1]) = k + 1 /\ Front(path[k + 1]) = path[k] /\ path[k] \in Node

LEMMA PathDescends ==
    ASSUME NEW nodes, NEW tokens \in Seq(Tokens)
    PROVE  Descent(nodes, Path(nodes, tokens), tokens, Levels(Len(tokens)))
<1> DEFINE path == Path(nodes, tokens)
           depth == Levels(Len(tokens))
<1>1. depth \in Nat /\ \A k \in 1..depth : k \in 1..Len(tokens)
  BY LevelsOf
<1>2. /\ path = [k \in 1..depth + 1 |-> path[k]]
      /\ path[1] = <<Len(tokens)>>
      /\ \A k \in 0..depth : path[k + 1] \in NodesAt(Len(tokens), k)
      /\ \A k \in 1..depth : path[k + 1] = Grow(nodes, path[k], tokens[k])
  BY PathWalk
<1> HIDE DEF path, depth
<1>3. ASSUME NEW k \in 1..depth
      PROVE  /\ tokens[k] \in Tokens
             /\ Len(path[k + 1]) = k + 1 /\ Front(path[k + 1]) = path[k] /\ path[k] \in Node
  <2>1. tokens[k] \in Tokens
    BY <1>1
  <2>2. path[k] \in Node /\ Len(path[k + 1]) = k + 1
    <3>1. k - 1 \in 0..depth /\ k \in 0..depth /\ (k - 1) + 1 = k
      BY <1>1
    <3>2. path[(k - 1) + 1] \in NodesAt(Len(tokens), k - 1) /\ path[k + 1] \in NodesAt(Len(tokens), k)
      BY <1>2, <3>1
    <3> QED
      BY <3>1, <3>2 DEF NodesAt
  <2>3. path[k + 1] \in {Append(path[k], tokens[k]), Append(path[k], Param)}
    BY <1>2 DEF Grow
  <2> DEFINE Key == Tokens \cup Nat
  <2>4. path[k] \in Seq(Key) /\ tokens[k] \in Key /\ Param \in Key
    BY <2>1, <2>2 DEF Node, Tokens
  <2> HIDE DEF Key
  <2>5. Front(path[k + 1]) = path[k]
    BY <2>3, <2>4, FrontOf
  <2> QED
    BY <2>1, <2>2, <2>5
<1>4. Descent(nodes, path, tokens, depth)
  BY <1>1, <1>2, <1>3 DEF Descent
<1> QED
  BY <1>4 DEF path, depth

LEMMA ChildOf ==
    ASSUME NEW nodes, NEW v \in Node, NEW x \in Tokens, Append(v, x) \in nodes
    PROVE  Append(v, x) \in Children(nodes, v)
<1> DEFINE Key == Tokens \cup Nat
<1>1. v \in Seq(Key) /\ x \in Key
  BY DEF Node
<1> HIDE DEF Key
<1>2. Front(Append(v, x)) = v /\ Len(Append(v, x)) = Len(v) + 1
  BY <1>1, FrontOf
<1> QED
  BY <1>2 DEF Children

LEMMA NoOrphan ==
    ASSUME NEW nodes, Grown(nodes), NEW v \in Node, v \notin nodes
    PROVE  Children(nodes, v) = {}
<1>1. ASSUME NEW c \in Children(nodes, v) PROVE FALSE
  <2>1. c \in nodes /\ Len(c) = Len(v) + 1 /\ Front(c) = v /\ Len(v) \in Nat
    BY DEF Children, Node
  <2>2. c # <<>>
    BY <2>1
  <2> QED
    BY <2>1, <2>2 DEF Grown
<1> QED
  BY <1>1

\* The tree with the path of a cluster, none of its nodes overfull.
LEMMA GrownPath ==
    ASSUME NEW nodes, Grown(nodes), NEW path, NEW tokens, Len(tokens) \in Nat, NEW depth,
           Descent(nodes, path, tokens, depth)
    PROVE  Grown(nodes \cup Range(path))
<1> DEFINE more == nodes \cup Range(path)
<1>1. /\ depth \in Nat /\ DOMAIN path = 1..(depth + 1) /\ path[1] = <<Len(tokens)>>
      /\ \A k \in 1..(depth + 1) : path[k] \in Node /\ Len(path[k]) = k
  <2>1. ASSUME NEW k \in 1..(depth + 1) PROVE path[k] \in Node /\ Len(path[k]) = k
    <3>1. depth \in Nat
      BY DEF Descent
    <3>2. k - 1 \in 0..depth /\ (k - 1) + 1 = k
      BY <3>1
    <3>3. path[(k - 1) + 1] \in NodesAt(Len(tokens), k - 1)
      BY <3>2 DEF Descent
    <3> QED
      BY <3>2, <3>3 DEF NodesAt
  <2> QED
    BY <2>1 DEF Descent
<1>2. \A k \in 1..depth : /\ k \in 1..(depth + 1) /\ k + 1 \in 1..(depth + 1)
                          /\ path[k + 1] = Grow(nodes, path[k], tokens[k])
                          /\ Front(path[k + 1]) = path[k] /\ tokens[k] \in Tokens
  <2>1. \A k \in 1..depth : k \in 1..(depth + 1) /\ k + 1 \in 1..(depth + 1)
    BY <1>1
  <2>2. \A k \in 1..depth : /\ path[k + 1] = Grow(nodes, path[k], tokens[k])
                            /\ Front(path[k + 1]) = path[k] /\ tokens[k] \in Tokens
    BY DEF Descent
  <2> QED
    BY <2>1, <2>2
<1>3. \A w \in Range(path) : \E k \in 1..(depth + 1) : w = path[k]
  BY <1>1 DEF Range
<1>4. \A k \in 1..(depth + 1) : path[k] \in more
  BY <1>1 DEF Range
<1>5. IsFiniteSet(Range(path)) /\ Range(path) \in SUBSET Node
  <2>1. path \in Surjection(1..(depth + 1), Range(path))
    <3>1. path = [k \in 1..(depth + 1) |-> path[k]]
      BY DEF Descent
    <3> QED
      BY <1>1, <3>1 DEF Surjection, Range
  <2>2. IsFiniteSet(1..(depth + 1))
    BY <1>1, FS_Interval
  <2>3. IsFiniteSet(Range(path))
    BY <2>1, <2>2, FS_Surjection
  <2> QED
    BY <1>1, <1>3, <2>3
<1>6. more \in SUBSET Node /\ IsFiniteSet(more) /\ <<>> \in more
  BY <1>5, FS_Union DEF Grown
<1>7. ASSUME NEW w \in more, w # <<>> PROVE Front(w) \in more
  <2>1. CASE w \in nodes
    BY <1>7, <2>1 DEF Grown
  <2>2. CASE w = path[1]
    <3> DEFINE n == Len(tokens)
    <3>1. n \in Nat /\ w = Append(<<>>, n)
      BY <1>1, <2>2
    <3>2. <<>> \in Seq(Nat)
      OBVIOUS
    <3> HIDE DEF n
    <3>3. Front(w) = <<>>
      BY <3>1, <3>2, FrontOf
    <3> QED
      BY <1>6, <3>3
  <2>3. ASSUME NEW k \in 2..(depth + 1), w = path[k] PROVE Front(w) \in more
    <3>1. k - 1 \in 1..depth /\ (k - 1) + 1 = k
      BY <1>1
    <3>2. Front(w) = path[k - 1] /\ k - 1 \in 1..(depth + 1)
      BY <1>2, <2>3, <3>1
    <3> QED
      BY <1>4, <3>2
  <2>4. \A k \in 1..(depth + 1) : k = 1 \/ k \in 2..(depth + 1)
    BY <1>1
  <2> QED
    BY <1>3, <2>1, <2>2, <2>3, <2>4
<1>8. ASSUME NEW v \in more, Len(v) > 0 PROVE Roomy(more, v)
  <2>1. /\ v \in Node /\ Len(v) \in Nat /\ IsFiniteSet(Children(nodes, v))
        /\ Roomy(nodes, v) \/ Children(nodes, v) = {}
    <3>1. v \in Node /\ Len(v) \in Nat
      BY <1>6 DEF Node
    <3>2. Children(nodes, v) \in SUBSET nodes /\ IsFiniteSet(nodes)
      BY DEF Children, Grown
    <3>3. IsFiniteSet(Children(nodes, v))
      BY <3>2, FS_Subset
    <3>4. Roomy(nodes, v) \/ Children(nodes, v) = {}
      BY <1>8, <3>1, NoOrphan DEF Grown
    <3> QED
      BY <3>1, <3>3, <3>4
  <2>2. ASSUME NEW k \in 1..depth, v = path[k] PROVE Roomy(more, v)
    <3>1. path[k + 1] = Grow(nodes, v, tokens[k]) /\ path[k + 1] \in more /\ tokens[k] \in Tokens
      BY <1>2, <1>4, <2>2
    <3>2. Children(more, v) = Children(nodes, v) \cup {path[k + 1]}
      <4>1. path[k + 1] \in Children(more, v)
        <5>1. Len(path[k + 1]) = Len(v) + 1 /\ Front(path[k + 1]) = v
          BY <1>1, <1>2, <2>2
        <5> QED
          BY <3>1, <5>1 DEF Children
      <4>2. ASSUME NEW w \in Children(more, v), w \notin nodes PROVE w = path[k + 1]
        <5>1. w \in more /\ Len(w) = Len(v) + 1
          BY DEF Children
        <5>2. PICK j \in 1..(depth + 1) : w = path[j]
          BY <1>3, <4>2, <5>1
        <5>3. j = k + 1
          BY <1>1, <1>2, <2>2, <5>1, <5>2
        <5> QED
          BY <5>2, <5>3
      <4>3. Children(nodes, v) \subseteq Children(more, v)
        BY DEF Children
      <4>4. \A w \in Children(more, v) : w \in nodes => w \in Children(nodes, v)
        BY DEF Children
      <4> HIDE DEF more
      <4> QED
        BY <4>1, <4>2, <4>3, <4>4
    <3>3. \A x \in {tokens[k], Param} : Append(v, x) \in nodes => Append(v, x) \in Children(nodes, v)
      <4>1. Param \in Tokens
        BY DEF Tokens
      <4> QED
        BY <2>1, <3>1, <4>1, ChildOf
    <3>4. nodes \subseteq more
      OBVIOUS
    <3> HIDE DEF more
    <3> QED
      BY <2>1, <3>1, <3>2, <3>3, <3>4, RoomyGrow
  <2>3. ASSUME \A k \in 1..depth : v # path[k] PROVE Roomy(more, v)
    <3>1. Children(more, v) = Children(nodes, v)
      <4>1. ASSUME NEW w \in Children(more, v) PROVE w \in nodes
        <5>1. SUFFICES ASSUME w \notin nodes PROVE FALSE
          OBVIOUS
        <5>2. w \in more /\ Len(w) = Len(v) + 1 /\ Front(w) = v
          BY DEF Children
        <5>3. PICK j \in 1..(depth + 1) : w = path[j]
          BY <1>3, <5>1, <5>2
        <5>4. j # 1
          BY <1>1, <1>8, <2>1, <5>2, <5>3
        <5>5. j - 1 \in 1..depth /\ (j - 1) + 1 = j
          BY <1>1, <5>4
        <5>6. v = path[j - 1]
          BY <1>2, <5>2, <5>3, <5>5
        <5> QED
          BY <2>3, <5>5, <5>6
      <4> QED
        BY <4>1 DEF Children
    <3>2. CASE v \in nodes
      <4>1. Roomy(nodes, v)
        BY <1>8, <3>2 DEF Grown
      <4>2. nodes \subseteq more
        OBVIOUS
      <4> HIDE DEF more
      <4> QED
        BY <3>1, <4>1, <4>2 DEF Roomy
    <3>3. CASE v \notin nodes
      <4>1. Children(more, v) = {}
        BY <2>1, <3>1, <3>3, NoOrphan
      <4>2. Cardinality(Children(more, v)) = 0
        BY <4>1, FS_EmptySet
      <4> HIDE DEF more
      <4> QED
        BY <4>2, DrainAssumption DEF Roomy
    <3> QED
      BY <3>2, <3>3
  <2> QED
    BY <2>2, <2>3
<1> HIDE DEF more
<1>9. Grown(more)
  BY <1>6, <1>7, <1>8 DEF Grown
<1> QED
  BY <1>9 DEF more

LEMMA TreeValues ==
    ASSUME NEW t \in Trees
    PROVE  /\ DOMAIN t \in SUBSET Node /\ t = [v \in DOMAIN t |-> t[v]]
           /\ \A v \in DOMAIN t : t[v] \in Seq(Nat)
<1>1. PICK nodes \in SUBSET Node : t \in [nodes -> Seq(Nat)]
  BY DEF Trees
<1> QED
  BY <1>1

\* The new tree holds c at a leaf, with those already there that are still known.
Added(new, t, table, c, leaf) ==
    /\ leaf \in DOMAIN new /\ leaf \in NodesAt(Len(c.template), Levels(Len(c.template)))
    /\ \A v \in DOMAIN new : v # leaf => new[v] = IF v \in DOMAIN t THEN t[v] ELSE <<>>
    /\ \E kept \in Seq(Nat) :
         /\ new[leaf] = Append(kept, c.id)
         /\ \A j \in DOMAIN kept :
              leaf \in DOMAIN t /\ \E i \in DOMAIN t[leaf] : kept[j] = t[leaf][i]
         /\ leaf \in DOMAIN t /\ c.template # <<>> => \A i \in DOMAIN t[leaf] :
              t[leaf][i] \in Live(table) => \E j \in DOMAIN kept : kept[j] = t[leaf][i]
         /\ leaf \in DOMAIN t /\ (\A i, j \in DOMAIN t[leaf] : i # j => t[leaf][i] # t[leaf][j])
              => \A i, j \in DOMAIN kept : i # j => kept[i] # kept[j]

LEMMA AddOf ==
    ASSUME NEW t \in Trees, NEW table, NEW c, c.id \in Nat, c.template \in Seq(Tokens)
    PROVE  LET path == Path(DOMAIN t, c.template)
               new == AddToTree(t, table, c)
           IN /\ DOMAIN new = DOMAIN t \cup Range(path) /\ new \in Trees
              /\ Added(new, t, table, c, path[Levels(Len(c.template)) + 1])
<1> DEFINE path == Path(DOMAIN t, c.template)
           depth == Levels(Len(c.template))
           leaf == path[depth + 1]
           new == AddToTree(t, table, c)
           kept == IF leaf \in DOMAIN t /\ c.template # <<>> THEN Kept(t[leaf], table) ELSE <<>>
<1>1. Descent(DOMAIN t, path, c.template, depth)
  BY PathDescends
<1>2. /\ depth \in Nat /\ DOMAIN path = 1..(depth + 1)
      /\ \A k \in 0..depth : path[k + 1] \in NodesAt(Len(c.template), k)
  <2> HIDE DEF path, depth
  <2> QED
    BY <1>1 DEF Descent
<1>3. leaf \in Range(path) /\ leaf \in NodesAt(Len(c.template), depth) /\ Range(path) \in SUBSET Node
  <2> HIDE DEF path, depth
  <2>1. depth \in 0..depth /\ depth + 1 \in 1..(depth + 1)
    BY <1>2
  <2>2. ASSUME NEW k \in 1..(depth + 1) PROVE path[k] \in Node
    <3>1. k - 1 \in 0..depth /\ (k - 1) + 1 = k
      BY <1>2
    <3>2. path[(k - 1) + 1] \in NodesAt(Len(c.template), k - 1)
      BY <1>2, <3>1
    <3> QED
      BY <3>1, <3>2 DEF NodesAt
  <2> QED
    BY <1>2, <2>1, <2>2 DEF Range
<1>4. Last(path) = leaf
  <2>1. path \in Seq(Node)
    <3>1. path = [k \in 1..(depth + 1) |-> path[k]]
      <4> HIDE DEF path, depth
      <4> QED
        BY <1>1 DEF Descent
    <3>2. \A k \in 1..(depth + 1) : path[k] \in Node
      BY <1>2, <1>3 DEF Range
    <3> HIDE DEF path, depth
    <3>3. path \in [1..(depth + 1) -> Node]
      BY <3>1, <3>2
    <3> QED
      BY <1>2, <3>3
  <2>2. Len(path) = depth + 1
    <3> HIDE DEF path, depth
    <3> QED
      BY <1>2, <2>1
  <2> QED
    BY <2>2 DEF Last
<1>5. new = [v \in DOMAIN t \cup Range(path) |->
               IF v = leaf THEN Append(kept, c.id) ELSE IF v \in DOMAIN t THEN t[v] ELSE <<>>]
  <2> HIDE DEF depth
  <2> QED
    BY <1>4 DEF AddToTree
<1>6. /\ kept \in Seq(Nat)
      /\ \A j \in DOMAIN kept :
           leaf \in DOMAIN t /\ \E i \in DOMAIN t[leaf] : kept[j] = t[leaf][i]
      /\ leaf \in DOMAIN t /\ c.template # <<>> => \A i \in DOMAIN t[leaf] :
           t[leaf][i] \in Live(table) => \E j \in DOMAIN kept : kept[j] = t[leaf][i]
      /\ leaf \in DOMAIN t /\ (\A i, j \in DOMAIN t[leaf] : i # j => t[leaf][i] # t[leaf][j])
           => \A i, j \in DOMAIN kept : i # j => kept[i] # kept[j]
  <2>1. CASE leaf \in DOMAIN t /\ c.template # <<>>
    <3>1. kept = Kept(t[leaf], table) /\ t[leaf] \in Seq(Nat)
      BY <2>1, TreeValues
    <3> HIDE DEF kept, leaf
    <3> DEFINE ids == t[leaf]
    <3>2. kept = Kept(ids, table) /\ ids \in Seq(Nat)
      BY <3>1
    <3> HIDE DEF ids
    <3>3. LET k == Kept(ids, table)
          IN /\ k \in Seq(Nat)
             /\ \A j \in DOMAIN k : \E i \in DOMAIN ids : k[j] = ids[i]
             /\ \A i \in DOMAIN ids :
                  ids[i] \in Live(table) => \E j \in DOMAIN k : k[j] = ids[i]
             /\ (\A i, j \in DOMAIN ids : i # j => ids[i] # ids[j])
                  => \A i, j \in DOMAIN k : i # j => k[i] # k[j]
      BY ONLY <3>2, KeptOf, SMTT(30)
    <3>4. /\ kept \in Seq(Nat)
          /\ \A j \in DOMAIN kept : \E i \in DOMAIN ids : kept[j] = ids[i]
          /\ \A i \in DOMAIN ids :
               ids[i] \in Live(table) => \E j \in DOMAIN kept : kept[j] = ids[i]
          /\ (\A i, j \in DOMAIN ids : i # j => ids[i] # ids[j])
               => \A i, j \in DOMAIN kept : i # j => kept[i] # kept[j]
      BY ONLY <3>2, <3>3
    <3> QED
      BY <2>1, <3>4, Zenon DEF ids
  <2>2. CASE ~(leaf \in DOMAIN t /\ c.template # <<>>)
    <3>1. kept = <<>> /\ kept \in Seq(Nat) /\ DOMAIN kept = {}
      BY <2>2
    <3> HIDE DEF kept, leaf
    <3> QED
      BY <2>2, <3>1
  <2> QED
    BY <2>1, <2>2
<1> HIDE DEF new, kept, leaf, path, depth
<1>7. /\ DOMAIN new = DOMAIN t \cup Range(path)
      /\ \A v \in DOMAIN new : v # leaf => new[v] = IF v \in DOMAIN t THEN t[v] ELSE <<>>
      /\ new[leaf] = Append(kept, c.id)
  BY <1>3, <1>5
<1>8. new \in Trees
  <2>1. DOMAIN new \in SUBSET Node /\ new = [v \in DOMAIN new |-> new[v]]
    BY <1>3, <1>5, <1>7, TreeValues
  <2>2. \A v \in DOMAIN new : new[v] \in Seq(Nat)
    <3>1. Append(kept, c.id) \in Seq(Nat) /\ <<>> \in Seq(Nat)
      BY <1>6
    <3> QED
      BY <1>7, <3>1, TreeValues
  <2>3. new \in [DOMAIN new -> Seq(Nat)]
    BY <2>1, <2>2
  <2> QED
    BY <2>1, <2>3 DEF Trees
<1>9. leaf \in DOMAIN new
  BY <1>3, <1>7
<1>10. Added(new, t, table, c, leaf)
  <2>1. leaf \in NodesAt(Len(c.template), Levels(Len(c.template)))
    BY <1>3 DEF depth
  <2> QED
    BY <1>6, <1>7, <1>9, <2>1 DEF Added
<1> QED
  BY <1>7, <1>8, <1>10 DEF new, leaf, path, depth

\* The tree still hangs together, with the new cluster and the others in it.
LEMMA AddedTree ==
    ASSUME NEW t \in Trees, Grown(DOMAIN t), NEW ids \in SUBSET Nat, Listed(t, ids),
           NEW table, NEW c, c.id \in Nat \ ids, c.template \in Seq(Tokens)
    PROVE  LET new == AddToTree(t, table, c)
           IN /\ new \in Trees /\ Grown(DOMAIN new) /\ Listed(new, ids \cup {c.id})
              /\ Hangs(new, c.id, Len(c.template))
              /\ \A id \in Live(table), n \in Nat :
                   Hangs(t, id, n) /\ (c.template # <<>> \/ n # 0) => Hangs(new, id, n)
<1> DEFINE path == Path(DOMAIN t, c.template)
           depth == Levels(Len(c.template))
           leaf == path[depth + 1]
           new == AddToTree(t, table, c)
<1>0. c.id \in Nat /\ c.id \notin ids /\ Len(c.template) \in Nat
  OBVIOUS
<1>1. Descent(DOMAIN t, path, c.template, depth)
  BY PathDescends
<1>2. DOMAIN new = DOMAIN t \cup Range(path) /\ new \in Trees /\ Added(new, t, table, c, leaf)
  BY <1>0, AddOf
<1> HIDE DEF new, leaf, path
<1>2a. /\ leaf \in DOMAIN new /\ leaf \in NodesAt(Len(c.template), Levels(Len(c.template)))
       /\ \A v \in DOMAIN new : v # leaf => new[v] = IF v \in DOMAIN t THEN t[v] ELSE <<>>
  BY <1>2 DEF Added
<1>3. PICK kept \in Seq(Nat) :
        /\ new[leaf] = Append(kept, c.id)
        /\ \A j \in DOMAIN kept :
             leaf \in DOMAIN t /\ \E i \in DOMAIN t[leaf] : kept[j] = t[leaf][i]
        /\ leaf \in DOMAIN t /\ c.template # <<>> => \A i \in DOMAIN t[leaf] :
             t[leaf][i] \in Live(table) => \E j \in DOMAIN kept : kept[j] = t[leaf][i]
        /\ leaf \in DOMAIN t /\ (\A i, j \in DOMAIN t[leaf] : i # j => t[leaf][i] # t[leaf][j])
             => \A i, j \in DOMAIN kept : i # j => kept[i] # kept[j]
  BY <1>2 DEF Added
<1> HIDE DEF depth
<1>4. Grown(DOMAIN new)
  <2>1. Grown(DOMAIN t \cup Range(path))
    BY <1>0, <1>1, GrownPath
  <2> QED
    BY <1>2, <2>1
<1>5. /\ DOMAIN new[leaf] = 1..(Len(kept) + 1) /\ DOMAIN kept = 1..Len(kept) /\ Len(kept) \in Nat
      /\ new[leaf][Len(kept) + 1] = c.id
      /\ \A j \in DOMAIN kept : new[leaf][j] = kept[j] /\ j \in DOMAIN new[leaf]
      /\ Len(kept) + 1 \in DOMAIN new[leaf]
      /\ \A j \in DOMAIN new[leaf] : j \in DOMAIN kept \/ j = Len(kept) + 1
  BY <1>3
\* What hangs at another place than the new one hung somewhere before.
<1>6. ASSUME NEW v \in DOMAIN new, NEW i \in DOMAIN new[v]
      PROVE  \/ v = leaf /\ i = Len(kept) + 1 /\ new[v][i] = c.id
             \/ v \in DOMAIN t /\ \E j \in DOMAIN t[v] : new[v][i] = t[v][j]
  <2>1. CASE v # leaf
    <3>1. new[v] = IF v \in DOMAIN t THEN t[v] ELSE <<>>
      BY <1>2a, <2>1
    <3>2. DOMAIN <<>> = {}
      OBVIOUS
    <3> QED
      BY <3>1, <3>2
  <2>2. CASE v = leaf
    BY <1>3, <1>5, <2>2
  <2> QED
    BY <2>1, <2>2
<1>7. /\ \A v \in DOMAIN t : \A i \in DOMAIN t[v] : t[v][i] \in ids
      /\ \A v, w \in DOMAIN t : \A i \in DOMAIN t[v], j \in DOMAIN t[w] :
            t[v][i] = t[w][j] => v = w /\ i = j
  BY DEF Listed
<1>8. Listed(new, ids \cup {c.id})
  <2>1. \A v \in DOMAIN new : \A i \in DOMAIN new[v] : new[v][i] \in ids \cup {c.id}
    BY <1>6, <1>7
  <2>2. ASSUME NEW v \in DOMAIN new, NEW w \in DOMAIN new,
               NEW i \in DOMAIN new[v], NEW j \in DOMAIN new[w], new[v][i] = new[w][j]
        PROVE  v = w /\ i = j
    <3>1. CASE new[v][i] = c.id
      <4>1. /\ v \in DOMAIN t => \A k \in DOMAIN t[v] : t[v][k] # c.id
            /\ w \in DOMAIN t => \A k \in DOMAIN t[w] : t[w][k] # c.id
        BY <1>0, <1>7
      <4>2. v = leaf /\ i = Len(kept) + 1
        BY <1>6, <3>1, <4>1
      <4>3. w = leaf /\ j = Len(kept) + 1
        <5>1. new[w][j] = c.id
          BY <2>2, <3>1
        <5> QED
          BY <1>6, <4>1, <5>1
      <4> QED
        BY <4>2, <4>3
    <3>2. CASE new[v][i] # c.id
      <4>1. /\ v \in DOMAIN t /\ \E k \in DOMAIN t[v] : new[v][i] = t[v][k]
            /\ w \in DOMAIN t /\ \E k \in DOMAIN t[w] : new[w][j] = t[w][k]
        BY <1>6, <2>2, <3>2
      <4>2. v = w
        BY <1>7, <2>2, <4>1
      <4>3. CASE v # leaf
        <5>1. new[v] = t[v]
          BY <1>2a, <1>2, <4>1, <4>3
        <5>2. i \in DOMAIN t[v] /\ j \in DOMAIN t[v] /\ t[v][i] = t[v][j]
          BY <2>2, <4>2, <5>1
        <5> QED
          BY <1>7, <4>1, <4>2, <5>2
      <4>4. CASE v = leaf
        <5>1. \A k, l \in DOMAIN kept : k # l => kept[k] # kept[l]
          BY <1>3, <1>7, <4>1, <4>4
        <5>2. i \in DOMAIN kept /\ j \in DOMAIN kept
          BY <1>5, <2>2, <3>2, <4>2, <4>4
        <5> QED
          BY <1>5, <2>2, <4>2, <4>4, <5>1, <5>2
      <4> QED
        BY <4>3, <4>4
    <3> QED
      BY <3>1, <3>2
  <2> QED
    BY <2>1, <2>2 DEF Listed
<1>9. Hangs(new, c.id, Len(c.template))
  BY <1>2a, <1>5 DEF Hangs
<1>10. ASSUME NEW id \in Live(table), NEW n \in Nat, Hangs(t, id, n), c.template # <<>> \/ n # 0
       PROVE  Hangs(new, id, n)
  <2>1. PICK v \in DOMAIN t : v \in NodesAt(n, Levels(n)) /\ \E i \in DOMAIN t[v] : t[v][i] = id
    BY <1>10 DEF Hangs
  <2>2. v \in DOMAIN new
    BY <1>2
  <2>3. CASE v # leaf
    <3>1. new[v] = t[v]
      BY <1>2a, <2>2, <2>3
    <3> QED
      BY <2>1, <2>2, <3>1 DEF Hangs
  <2>4. CASE v = leaf
    <3>1. c.template # <<>>
      <4>1. SUFFICES ASSUME c.template = <<>> PROVE FALSE
        OBVIOUS
      <4>2. Len(c.template) = 0 /\ v[1] = n /\ leaf[1] = Len(c.template)
        BY <1>2a, <2>1, <4>1, <2>4 DEF NodesAt
      <4> QED
        BY <1>10, <2>4, <4>1, <4>2
    <3>2. PICK j \in DOMAIN kept : kept[j] = id
      BY <1>3, <2>1, <2>4, <3>1
    <3>3. j \in DOMAIN new[v] /\ new[v][j] = id
      BY <1>5, <2>4, <3>2
    <3> QED
      BY <2>1, <2>2, <3>3 DEF Hangs
  <2> QED
    BY <2>3, <2>4
<1> QED
  BY <1>2, <1>4, <1>8, <1>9, <1>10 DEF new

LEMMA EmptyGrown == EmptyTree \in Trees /\ Grown(DOMAIN EmptyTree) /\ Listed(EmptyTree, {})
<1>1. DOMAIN EmptyTree = {<<>>} /\ EmptyTree[<<>>] = <<>> /\ <<>> \in Node /\ Len(<<>>) = 0
  BY DEF EmptyTree, Node
<1>2. EmptyTree \in Trees
  <2>1. EmptyTree \in [{<<>>} -> Seq(Nat)]
    BY DEF EmptyTree
  <2> QED
    BY <1>1, <2>1 DEF Trees
<1>3. Grown(DOMAIN EmptyTree)
  <2>1. IsFiniteSet({<<>>})
    BY FS_Singleton
  <2> QED
    BY <1>1, <2>1 DEF Grown
<1>4. Listed(EmptyTree, {})
  <2>1. DOMAIN <<>> = {}
    OBVIOUS
  <2> QED
    BY <1>1, <2>1 DEF Listed
<1> QED
  BY <1>2, <1>3, <1>4

LEMMA ListedMore ==
    ASSUME NEW t, NEW ids, NEW more, ids \subseteq more, Listed(t, ids)
    PROVE  Listed(t, more)
  BY DEF Listed

\* A restart plants every cluster of the snapshot again.
LEMMA RebuiltTree ==
    ASSUME NEW n \in Nat, NEW table, Table(table, n), OneEmpty(table)
    PROVE  Tree(Rebuilt(table), 1..n, table)
<1> DEFINE N == Len(table)
           Ids(k) == {table[i].id : i \in 1..k}
           nodes[k \in 0..N] == IF k = 0 THEN EmptyTree ELSE AddToTree(nodes[k - 1], table, table[k])
           D == [p \in Trees \X (1..N) |-> AddToTree(p[1], table, table[p[2]])]
           S == [k \in 0..N |->
                   {t \in Trees : /\ Grown(DOMAIN t) /\ Listed(t, Ids(k))
                                  /\ \A i \in 1..k : Hangs(t, table[i].id, Len(table[i].template))}]
<1>1. /\ N \in Nat /\ DOMAIN table = 1..N
      /\ \A i \in 1..N : /\ table[i].id \in Nat /\ table[i].id \in Live(table)
                         /\ table[i].template \in Seq(Tokens) /\ table[i].id \in 1..n
      /\ \A i, j \in 1..N : i # j => table[i].id # table[j].id
  <2>1. N \in Nat /\ DOMAIN table = 1..N
    BY DEF Table
  <2>2. ASSUME NEW i \in 1..N
        PROVE  /\ table[i].id \in Nat /\ table[i].id \in Live(table)
               /\ table[i].template \in Seq(Tokens) /\ table[i].id \in 1..n
    <3>1. i \in DOMAIN table
      BY <2>1
    <3>2. table[i].id \in Live(table) /\ table[i].id \in 1..n /\ table[i].template \in Seq(Tokens)
      BY <3>1, IdsOf
    <3> QED
      BY <3>2
  <2>3. \A i, j \in 1..N : i # j => table[i].id # table[j].id
    BY <2>1 DEF Table
  <2> QED
    BY <2>1, <2>2, <2>3
<1>2. ASSUME NEW k \in 1..N, NEW t \in S[k - 1] PROVE D[<<t, k>>] \in S[k]
  <2>1. k \in 0..N /\ k - 1 \in 0..N
    BY <1>1
  <2>2. /\ t \in Trees /\ Grown(DOMAIN t) /\ Listed(t, Ids(k - 1))
        /\ \A i \in 1..(k - 1) : Hangs(t, table[i].id, Len(table[i].template))
    BY <2>1
  <2>3. D[<<t, k>>] = AddToTree(t, table, table[k])
    <3>1. <<t, k>> \in Trees \X (1..N)
      BY <2>2
    <3> QED
      BY <3>1
  <2>4. /\ Ids(k - 1) \in SUBSET Nat /\ table[k].id \in Nat \ Ids(k - 1)
        /\ table[k].template \in Seq(Tokens) /\ Ids(k - 1) \cup {table[k].id} \subseteq Ids(k)
        /\ \A i \in 1..k : i = k \/ i \in 1..(k - 1)
    <3>1. \A i \in 1..(k - 1) : i \in 1..N /\ i # k /\ i \in 1..k
      BY <1>1
    <3>2. k \in 1..k /\ \A i \in 1..k : i = k \/ i \in 1..(k - 1)
      BY <1>1
    <3> QED
      BY <1>1, <3>1, <3>2
  <2> DEFINE new == AddToTree(t, table, table[k])
             old == Ids(k - 1)
  <2>5. /\ new \in Trees /\ Grown(DOMAIN new) /\ Listed(new, old \cup {table[k].id})
        /\ Hangs(new, table[k].id, Len(table[k].template))
        /\ \A id \in Live(table), m \in Nat :
             Hangs(t, id, m) /\ (table[k].template # <<>> \/ m # 0) => Hangs(new, id, m)
    <3>1. t \in Trees /\ Grown(DOMAIN t) /\ Listed(t, old) /\ old \in SUBSET Nat
          /\ table[k].id \in Nat \ old /\ table[k].template \in Seq(Tokens)
      BY <2>2, <2>4
    <3> HIDE DEF old, S, D, N
    <3> QED
      BY <3>1, AddedTree
  <2> HIDE DEF new
  <2>6. Listed(new, Ids(k))
    <3>1. old \cup {table[k].id} \subseteq Ids(k)
      BY <2>4
    <3> HIDE DEF Ids
    <3> QED
      BY <2>5, <3>1, ListedMore
  <2>7. ASSUME NEW i \in 1..(k - 1) PROVE Hangs(new, table[i].id, Len(table[i].template))
    <3>1. i \in 1..N /\ i # k /\ k \in 1..N
      BY <1>1
    <3>2. table[i].template \in Seq(Tokens) /\ table[k].template \in Seq(Tokens)
      BY <1>1, <3>1
    <3>3. table[k].template # <<>> \/ Len(table[i].template) # 0
      <4>1. ~(table[k].template = <<>> /\ table[i].template = <<>>)
        BY <1>1, <3>1 DEF OneEmpty
      <4> QED
        BY <3>2, <4>1
    <3>4. Len(table[i].template) \in Nat /\ table[i].id \in Live(table)
      BY <1>1, <3>1, <3>2
    <3> QED
      BY <2>2, <2>5, <3>3, <3>4
  <2>8. \A i \in 1..k : Hangs(new, table[i].id, Len(table[i].template))
    BY <2>4, <2>5, <2>7
  <2>9. new \in S[k]
    <3> HIDE DEF N, Ids
    <3> QED
      BY <2>1, <2>5, <2>6, <2>8
  <2> QED
    BY <2>3, <2>9 DEF new
<1>3. EmptyTree \in S[0]
  <2>1. 0 \in 0..N /\ \A i \in 1..0 : FALSE
    BY <1>1
  <2>2. Listed(EmptyTree, Ids(0))
    <3>1. Ids(0) = {}
      BY <2>1
    <3> QED
      BY <3>1, EmptyGrown
  <2> HIDE DEF Ids, N
  <2> QED
    BY <2>1, <2>2, EmptyGrown
<1>4. Rebuilt(table) = nodes[N]
  BY DEF Rebuilt
<1>5. PICK f : Solves(f, N, EmptyTree, D) /\ \A k \in 0..N : f[k] \in S[k]
  <2> HIDE DEF D, S, N
  <2>1. \A k \in 1..N : \A t \in S[k - 1] : D[<<t, k>>] \in S[k]
    BY <1>2
  <2>2. \E f : Solves(f, N, EmptyTree, D) /\ \A k \in 0..N : f[k] \in S[k]
    BY <1>1, <1>3, <2>1, Recursion
  <2> QED
    BY <2>2
<1>6. f = [k \in 0..N |-> IF k = 0 THEN EmptyTree ELSE AddToTree(f[k - 1], table, table[k])]
  <2>1. ASSUME NEW k \in 0..N, k # 0 PROVE D[<<f[k - 1], k>>] = AddToTree(f[k - 1], table, table[k])
    <3>1. k \in 1..N /\ k - 1 \in 0..N
      BY <1>1, <2>1
    <3>2. f[k - 1] \in Trees
      <4>1. f[k - 1] \in S[k - 1]
        BY <1>5, <3>1
      <4> QED
        BY <3>1, <4>1
    <3>3. <<f[k - 1], k>> \in Trees \X (1..N)
      BY <3>1, <3>2
    <3> QED
      BY <3>3
  <2> HIDE DEF D, S
  <2> QED
    BY <1>5, <2>1 DEF Solves
<1>7. nodes = [k \in 0..N |-> IF k = 0 THEN EmptyTree ELSE AddToTree(nodes[k - 1], table, table[k])]
  BY <1>6
<1> HIDE DEF nodes, D
<1>8. nodes[N] = f[N]
  <2> DEFINE T == {k \in 0..N : nodes[k] = f[k]}
  <2>1. 0 \in T
    BY <1>1, <1>6, <1>7
  <2>2. ASSUME NEW k \in 1..N, k - 1 \in T PROVE k \in T
    <3>1. k \in 0..N /\ k # 0 /\ nodes[k - 1] = f[k - 1]
      BY <1>1, <2>2
    <3> QED
      BY <1>6, <1>7, <3>1
  <2> HIDE DEF T
  <2>3. 0..N \subseteq T
    BY <1>1, <2>1, <2>2, Induction
  <2> QED
    BY <1>1, <2>3 DEF T
<1>9. /\ f[N] \in Trees /\ Grown(DOMAIN f[N]) /\ Listed(f[N], Ids(N))
      /\ \A i \in 1..N : Hangs(f[N], table[i].id, Len(table[i].template))
  <2>1. N \in 0..N
    BY <1>1
  <2>2. f[N] \in S[N]
    <3> HIDE DEF S, N
    <3> QED
      BY <1>5, <2>1
  <2> HIDE DEF Ids, N
  <2> QED
    BY <2>1, <2>2
<1>10. Listed(f[N], 1..n)
  <2>1. Ids(N) \subseteq 1..n
    BY <1>1
  <2> HIDE DEF Ids
  <2> QED
    BY <1>9, <2>1, ListedMore
<1> HIDE DEF N, Ids
<1> QED
  BY <1>1, <1>4, <1>8, <1>9, <1>10 DEF Tree

-----------------------------------------------------------------------------
(* Every known cluster hangs in the tree, at one place. *)

\* A search that finds nothing left no close cluster at the leaf of the line.
LEMMA CloseIsFound ==
    ASSUME NEW n \in Nat, NEW table, Table(table, n), NEW t \in Trees, NEW tokens \in Seq(Tokens),
           NEW leaf, leaf = LeafOf(DOMAIN t, tokens), leaf \in DOMAIN t,
           NEW i \in DOMAIN t[leaf], t[leaf][i] \in Live(table),
           NEW params \in BOOLEAN,
           Reaches(ClusterOf(table, t[leaf][i]), tokens, SimNum, SimDen, params)
    PROVE  TreeSearch(t, table, tokens, SimNum, SimDen, params) # None
<1> DEFINE ids == t[leaf]
<1>1. ids \in Seq(Nat) /\ SimNum \in Nat /\ SimDen \in Nat
  BY TreeValues, DrainAssumption
<1>2. \A k \in DOMAIN table : /\ table[k].template \in Seq(Tokens) /\ table[k] # None
                              /\ ClusterOf(table, table[k].id) = table[k]
  <2>1. \A k \in DOMAIN table : table[k].id # 0
    BY IdsOf
  <2> QED
    BY <2>1, IdsOf DEF None
<1>3. TreeSearch(t, table, tokens, SimNum, SimDen, params)
        = FastMatch(table, ids, tokens, SimNum, SimDen, params)
  BY DEF TreeSearch
<1>4. i \in DOMAIN ids /\ ids[i] \in Live(table)
      /\ Reaches(ClusterOf(table, ids[i]), tokens, SimNum, SimDen, params)
  OBVIOUS
<1> HIDE DEF ids
<1>5. PICK k : Wins(table, ids, tokens, SimNum, SimDen, params, k)
  BY <1>1, <1>2, <1>4, SomeoneWins
<1>6. FastMatch(table, ids, tokens, SimNum, SimDen, params) = ClusterOf(table, ids[k])
  BY <1>1, <1>5, WinnerFound
<1>7. ClusterOf(table, ids[k]) # None
  <2>1. ids[k] \in Live(table)
    BY <1>5 DEF Wins
  <2>2. PICK m \in DOMAIN table : table[m].id = ids[k]
    BY <2>1 DEF Live
  <2> QED
    BY <1>2, <2>2
<1> QED
  BY <1>3, <1>6, <1>7

\* The cluster of the empty line is found before another is made.
LEMMA OneForTheEmptyLine ==
    ASSUME NEW n \in Nat, NEW table, Table(table, n), NEW t, Tree(t, 1..n, table),
           TreeSearch(t, table, <<>>, SimNum, SimDen, FALSE) = None,
           NEW j \in DOMAIN table
    PROVE  table[j].template # <<>>
<1>1. SUFFICES ASSUME table[j].template = <<>> PROVE FALSE
  OBVIOUS
<1>2. Hangs(t, table[j].id, 0) /\ t \in Trees
  BY <1>1 DEF Tree
<1>3. PICK v \in DOMAIN t : v \in NodesAt(0, Levels(0)) /\ \E i \in DOMAIN t[v] : t[v][i] = table[j].id
  BY <1>2 DEF Hangs
<1>4. Levels(0) = 0
  BY DEF Levels
<1>5. LeafOf(DOMAIN t, <<>>) = <<0>>
  <2>1. <<>> \in Seq(Tokens) /\ Len(<<>>) = 0
    OBVIOUS
  <2>2. PICK q \in Seq(Tokens) : q = <<>>
    BY <2>1
  <2>3. PICK f : f[0] = <<Len(q)>> /\ LeafOf(DOMAIN t, q) = f[Levels(Len(q))]
    BY LeafWalk
  <2> QED
    BY <1>4, <2>1, <2>2, <2>3
<1>6. v = <<0>>
  <2> DEFINE Key == Tokens \cup Nat
  <2>1. v \in Seq(Key) /\ Len(v) = 1 /\ v[1] = 0
    BY <1>3, <1>4 DEF NodesAt, Node
  <2> HIDE DEF Key
  <2> QED
    BY <2>1
<1>7. PICK i \in DOMAIN t[v] : t[v][i] = table[j].id
  BY <1>3
<1>8. ClusterOf(table, t[v][i]) = table[j] /\ t[v][i] \in Live(table)
  BY <1>7, IdsOf
<1>9. Reaches(ClusterOf(table, t[v][i]), <<>>, SimNum, SimDen, FALSE)
  <2>1. Similar(<<>>, <<>>, FALSE) = 1 /\ Weight(<<>>) = 1
    BY DEF Similar, Weight
  <2>2. 1 * SimDen >= SimNum * 1
    BY DrainAssumption
  <2>3. Similar(ClusterOf(table, t[v][i]).template, <<>>, FALSE) = 1
    BY <1>1, <1>8, <2>1
  <2> QED
    BY <2>1, <2>2, <2>3 DEF Reaches
<1>10. <<>> \in Seq(Tokens) /\ FALSE \in BOOLEAN
  OBVIOUS
<1> QED
  BY <1>2, <1>3, <1>5, <1>6, <1>8, <1>9, <1>10, CloseIsFound, ZenonT(30)

LEMMA InitPlanted == Init => Planted
<1> SUFFICES ASSUME Init PROVE Planted
  OBVIOUS
<1>1. /\ tree = EmptyTree /\ clusters = <<>> /\ saved.clusters = <<>> /\ counter = 0
      /\ 1..0 = {} /\ DOMAIN <<>> = {}
  BY DEF Init
<1> QED
  BY <1>1, EmptyGrown DEF Planted, Tree, OneEmpty

LEMMA CreatePlanted ==
    ASSUME IInv, Planted, NEW line \in Lines, Create(Tokenize(line))
    PROVE  Planted'
<1> DEFINE tokens == Tokenize(line)
           c == [id |-> counter + 1, template |-> tokens]
<1>1. tokens \in Seq(Tokens)
  <2>1. tokens \in Seq(Tokens \ {Param})
    BY TokenizedLine
  <2> HIDE DEF tokens
  <2> QED
    BY <2>1
<1> HIDE DEF tokens
<1>2. /\ counter \in Nat /\ counter' = counter + 1 /\ saved' = saved
      /\ clusters' = Put(clusters, c) /\ tree' = AddToTree(tree, clusters', c)
      /\ TreeSearch(tree, clusters, tokens, SimNum, SimDen, FALSE) = None
  <2>1. Create(tokens)
    BY DEF tokens
  <2>2. counter \in Nat
    BY DrainAssumption DEF IInv
  <2> QED
    BY ONLY <2>1, <2>2 DEF Create, c
<1>3. Table(clusters, counter) /\ Table(clusters', counter + 1)
  BY <1>2, CreateKeeps DEF IInv
<1>4. Follows(clusters', clusters, c)
  BY <1>1, <1>2, <1>3, PutFollows
<1>5. /\ tree \in Trees /\ Grown(DOMAIN tree) /\ Listed(tree, 1..counter)
      /\ \A i \in DOMAIN clusters : Hangs(tree, clusters[i].id, Len(clusters[i].template))
      /\ Tree(tree, 1..counter, clusters) /\ OneEmpty(clusters) /\ OneEmpty(saved.clusters)
  BY DEF Planted, Tree
<1>6. c.id = counter + 1 /\ c.template = tokens
  OBVIOUS
<1>7. tokens = <<>> => \A j \in DOMAIN clusters : clusters[j].template # <<>>
  BY <1>2, <1>3, <1>5, OneForTheEmptyLine
<1> HIDE DEF c
<1>8. /\ tree' \in Trees /\ Grown(DOMAIN tree') /\ Listed(tree', (1..counter) \cup {c.id})
      /\ Hangs(tree', c.id, Len(c.template))
      /\ \A id \in Live(clusters'), n \in Nat :
           Hangs(tree, id, n) /\ (c.template # <<>> \/ n # 0) => Hangs(tree', id, n)
  <2>1. 1..counter \in SUBSET Nat /\ c.id \in Nat \ (1..counter) /\ c.template \in Seq(Tokens)
    BY <1>1, <1>2, <1>6
  <2> QED
    BY <1>2, <1>5, <2>1, AddedTree
<1>9. ASSUME NEW i \in DOMAIN clusters'
      PROVE  Hangs(tree', clusters'[i].id, Len(clusters'[i].template))
  <2>1. CASE clusters'[i] = c
    BY <1>8, <2>1
  <2>2. ASSUME NEW j \in DOMAIN clusters, clusters'[i] = clusters[j]
        PROVE  Hangs(tree', clusters'[i].id, Len(clusters'[i].template))
    <3>1. clusters[j].template \in Seq(Tokens)
      BY <1>2, <1>3, IdsOf
    <3>2. clusters[j].id \in Live(clusters')
      BY <2>2 DEF Live
    <3>3. c.template # <<>> \/ Len(clusters[j].template) # 0
      BY <1>6, <1>7, <3>1
    <3>4. Len(clusters[j].template) \in Nat
      BY <3>1
    <3> QED
      BY <1>5, <1>8, <2>2, <3>2, <3>3, <3>4
  <2> QED
    BY <1>4, <2>1, <2>2 DEF Follows
<1>10. Tree(tree', 1..(counter + 1), clusters')
  <2>1. (1..counter) \cup {c.id} = 1..(counter + 1)
    BY <1>2, <1>6
  <2> QED
    BY <1>8, <1>9, <2>1 DEF Tree
<1>11. OneEmpty(clusters')
  <2>1. \A j \in DOMAIN clusters :
           c.template = <<>> /\ clusters[j].template = <<>> => clusters[j].id = c.id
    BY <1>6, <1>7
  <2>2. counter + 1 \in Nat
    BY <1>2
  <2> QED
    BY <1>2, <1>3, <1>4, <1>5, <2>1, <2>2, FollowsOneEmpty
<1> QED
  BY <1>2, <1>5, <1>10, <1>11 DEF Planted

LEMMA UpdatePlanted ==
    ASSUME IInv, Planted, NEW line \in Lines, Update(Tokenize(line))
    PROVE  Planted'
<1>1. PICK k \in DOMAIN clusters :
        LET tokens == Tokenize(line)
            t == clusters[k].template
            new == CreateTemplate(tokens, t)
        IN /\ t \in Seq(Tokens) /\ new \in Seq(Tokens)
           /\ Len(t) = Len(tokens) /\ Len(new) = Len(tokens)
           /\ clusters' = Touch(clusters, [id |-> clusters[k].id, template |-> new])
  BY Matched
<1> DEFINE t == clusters[k].template
           new == CreateTemplate(Tokenize(line), t)
           c == [id |-> clusters[k].id, template |-> new]
<1>2. counter \in Nat /\ counter' = counter /\ saved' = saved /\ tree' = tree
  BY DrainAssumption DEF Update, IInv
<1>3. Table(clusters, counter) /\ Table(clusters', counter)
  BY <1>2, UpdateKeeps DEF IInv
<1>4. /\ t \in Seq(Tokens) /\ new \in Seq(Tokens) /\ Len(new) = Len(t)
      /\ clusters' = Touch(clusters, c) /\ c.id = clusters[k].id /\ c.template = new
  BY <1>1
<1> HIDE DEF new
<1>5. Follows(clusters', clusters, c)
  BY <1>2, <1>3, <1>4, TouchFollows
<1> HIDE DEF c
<1>6. /\ Tree(tree, 1..counter, clusters) /\ OneEmpty(clusters) /\ OneEmpty(saved.clusters)
      /\ \A i \in DOMAIN clusters : Hangs(tree, clusters[i].id, Len(clusters[i].template))
  BY DEF Planted, Tree
<1>7. \A i \in DOMAIN clusters' : Hangs(tree, clusters'[i].id, Len(clusters'[i].template))
  <2>1. Hangs(tree, c.id, Len(c.template))
    BY <1>4, <1>6
  <2> QED
    BY <1>5, <1>6, <2>1 DEF Follows
<1>8. OneEmpty(clusters')
  <2>1. ASSUME NEW j \in DOMAIN clusters, c.template = <<>>, clusters[j].template = <<>>
        PROVE  clusters[j].id = c.id
    <3>1. t = <<>>
      BY <1>4, <2>1
    <3> QED
      BY <1>4, <1>6, <2>1, <3>1 DEF OneEmpty
  <2> QED
    BY <1>2, <1>3, <1>5, <1>6, <2>1, FollowsOneEmpty
<1> QED
  BY <1>2, <1>6, <1>7, <1>8 DEF Planted, Tree

LEMMA NextPlanted ==
    ASSUME IInv, Planted, [Next]_vars
    PROVE  Planted'
<1>1. ASSUME NEW line \in Lines, AddLogMessage(line) PROVE Planted'
  BY <1>1, CreatePlanted, UpdatePlanted DEF AddLogMessage
<1>2. CASE Snapshot
  BY <1>2 DEF Snapshot, Planted
<1>3. CASE Restore
  <2>1. saved.counter \in Nat /\ Table(saved.clusters, saved.counter) /\ OneEmpty(saved.clusters)
    BY DrainAssumption DEF IInv, Planted
  <2> QED
    BY <1>3, <2>1, RebuiltTree DEF Restore, Planted
<1>4. CASE Forget
  <2>1. /\ tree' = EmptyTree /\ clusters' = <<>> /\ saved' = saved /\ counter' = 0
        /\ 1..0 = {} /\ DOMAIN <<>> = {}
    BY <1>4 DEF Forget
  <2> QED
    BY <2>1, EmptyGrown DEF Planted, Tree, OneEmpty
<1>5. CASE UNCHANGED vars
  BY <1>5 DEF vars, Planted
<1> QED
  BY <1>1, <1>2, <1>3, <1>4, <1>5 DEF Next

-----------------------------------------------------------------------------
(* The line learnt last leads to its cluster. *)

LEMMA GeneralisedSimilar ==
    ASSUME NEW t \in Seq(Tokens), NEW tokens \in Seq(Tokens \ {Param}), Len(t) = Len(tokens)
    PROVE  LET new == CreateTemplate(tokens, t)
           IN /\ Similar(new, tokens, FALSE) = Similar(t, tokens, FALSE)
              /\ Wildcards(new) \in Nat /\ Wildcards(t) \in Nat /\ Wildcards(t) <= Wildcards(new)
              /\ Len(new) = Len(t)
<1> DEFINE new == CreateTemplate(tokens, t)
<1>1. /\ new \in Seq(Tokens) /\ DOMAIN new = DOMAIN t /\ Len(new) = Len(t) /\ DOMAIN tokens = DOMAIN t
      /\ \A k \in DOMAIN t : new[k] = IF tokens[k] = t[k] THEN t[k] ELSE Param
  <2>1. Param \in Tokens
    BY DEF Tokens
  <2>2. new \in [1..Len(t) -> Tokens]
    BY <2>1 DEF CreateTemplate
  <2> QED
    BY <2>2 DEF CreateTemplate
<1> HIDE DEF new
<1>2. \A k \in DOMAIN t : tokens[k] # Param
  BY <1>1
<1>3. Literals(new) = Same(t, tokens) /\ Same(new, tokens) = Same(t, tokens)
  BY <1>1, <1>2 DEF Literals, Same
<1>4. IsFiniteSet(Literals(t)) /\ Cardinality(Literals(t)) \in Nat /\ Cardinality(Literals(t)) <= Len(t)
  BY FiniteLiterals
<1>5. Cardinality(Same(t, tokens)) \in Nat /\ Cardinality(Same(t, tokens)) <= Cardinality(Literals(t))
  BY <1>4, FS_Subset, FS_CardinalityType DEF Same
<1>6. Wildcards(t) = Len(t) - Cardinality(Literals(t)) /\ Wildcards(new) = Len(t) - Cardinality(Same(t, tokens))
  BY <1>1, <1>3 DEF Wildcards
<1>7. Len(t) \in Nat
  OBVIOUS
<1>8. Wildcards(new) \in Nat /\ Wildcards(t) \in Nat /\ Wildcards(t) <= Wildcards(new)
  BY <1>4, <1>5, <1>6, <1>7
<1>9. (new = <<>> <=> t = <<>>)
  BY <1>1
<1>10. Similar(new, tokens, FALSE) = Similar(t, tokens, FALSE)
  <2>1. CASE t = <<>>
    BY <1>1, <1>9, <2>1 DEF Similar
  <2>2. CASE t # <<>>
    BY <1>1, <1>3, <1>9, <2>2 DEF Similar
  <2> QED
    BY <2>1, <2>2
<1> QED
  BY <1>1, <1>8, <1>10 DEF new

\* A cluster that comes as close as before, with no fewer wildcards, is as close
\* as before to win.
LEMMA CloserStill ==
    ASSUME NEW b, NEW c, NEW d, NEW tokens \in Seq(Tokens), NEW params \in BOOLEAN,
           b.template \in Seq(Tokens), c.template \in Seq(Tokens), d.template \in Seq(Tokens),
           Len(c.template) = Len(b.template),
           Similar(c.template, tokens, params) = Similar(b.template, tokens, params),
           Wildcards(b.template) <= Wildcards(c.template)
    PROVE  /\ Closer(d, c, tokens, params) => Closer(d, b, tokens, params)
           /\ Closer(b, d, tokens, params) => Closer(c, d, tokens, params)
<1> DEFINE s(x) == Similar(x.template, tokens, params)
           P(x) == IF Len(x.template) = Len(tokens) THEN Wildcards(x.template) ELSE 0
<1>1. \A x \in {b, c, d} : s(x) \in Nat /\ Wildcards(x.template) \in Nat
  BY SimilarOf
<1>2. s(c) = s(b) /\ P(b) <= P(c) /\ P(b) \in Nat /\ P(c) \in Nat /\ P(d) \in Nat
      /\ s(b) \in Nat /\ s(c) \in Nat /\ s(d) \in Nat
  BY <1>1
<1>3. \A x, y \in {b, c, d} : Closer(x, y, tokens, params) <=> s(x) > s(y) \/ (s(x) = s(y) /\ P(x) > P(y))
  BY DEF Closer
<1>4. /\ Closer(d, c, tokens, params) <=> s(d) > s(c) \/ (s(d) = s(c) /\ P(d) > P(c))
      /\ Closer(d, b, tokens, params) <=> s(d) > s(b) \/ (s(d) = s(b) /\ P(d) > P(b))
      /\ Closer(b, d, tokens, params) <=> s(b) > s(d) \/ (s(b) = s(d) /\ P(b) > P(d))
      /\ Closer(c, d, tokens, params) <=> s(c) > s(d) \/ (s(c) = s(d) /\ P(c) > P(d))
  BY <1>3
<1> HIDE DEF s, P
<1> QED
  BY <1>2, <1>4

LEMMA NotCloser ==
    ASSUME NEW c, NEW tokens \in Seq(Tokens), NEW params \in BOOLEAN, c.template \in Seq(Tokens)
    PROVE  ~Closer(c, c, tokens, params)
<1> DEFINE s == Similar(c.template, tokens, params)
           p == IF Len(c.template) = Len(tokens) THEN Wildcards(c.template) ELSE 0
<1>1. s \in Nat /\ p \in Nat
  BY SimilarOf
<1>2. Closer(c, c, tokens, params) <=> s > s \/ (s = s /\ p > p)
  BY DEF Closer
<1> HIDE DEF s, p
<1> QED
  BY <1>1, <1>2

LEMMA UpdateRecognised ==
    ASSUME IInv, Planted, NEW line \in Lines, Update(Tokenize(line))
    PROVE  RecognisedAtOnce'
<1> DEFINE tokens == Tokenize(line)
<1>1. tokens \in Seq(Tokens \ {Param}) /\ FALSE \in BOOLEAN
  BY TokenizedLine
<1>2. tokens \in Seq(Tokens)
  <2> HIDE DEF tokens
  <2> QED
    BY <1>1
<1>3. PICK k \in DOMAIN clusters :
        LET t == clusters[k].template
            new == CreateTemplate(tokens, t)
        IN /\ TreeSearch(tree, clusters, tokens, SimNum, SimDen, FALSE) = clusters[k]
           /\ t \in Seq(Tokens) /\ new \in Seq(Tokens)
           /\ Len(t) = Len(tokens) /\ Len(new) = Len(tokens)
           /\ clusters' = Touch(clusters, [id |-> clusters[k].id, template |-> new])
           /\ last' = [line |-> tokens, id |-> clusters[k].id]
  BY Matched
<1> HIDE DEF tokens
<1> DEFINE b == clusters[k]
           new == CreateTemplate(tokens, b.template)
           c == [id |-> clusters[k].id, template |-> new]
           leaf == LeafOf(DOMAIN tree, tokens)
           ids == tree[leaf]
<1>4. counter \in Nat /\ counter' = counter /\ tree' = tree
  <2>1. Update(tokens)
    BY DEF tokens
  <2> QED
    BY <2>1, DrainAssumption DEF Update, IInv
<1>5. Table(clusters, counter) /\ Table(clusters', counter)
  BY <1>4, UpdateKeeps DEF IInv, tokens
<1>6. /\ b.template \in Seq(Tokens) /\ new \in Seq(Tokens) /\ Len(b.template) = Len(tokens)
      /\ clusters' = Touch(clusters, c) /\ c.id = clusters[k].id /\ c.template = new
      /\ TreeSearch(tree, clusters, tokens, SimNum, SimDen, FALSE) = b
      /\ last' = [line |-> tokens, id |-> c.id]
  BY <1>3
<1>7. /\ Similar(new, tokens, FALSE) = Similar(b.template, tokens, FALSE)
      /\ Wildcards(b.template) <= Wildcards(new) /\ Len(new) = Len(b.template)
  BY <1>1, <1>6, GeneralisedSimilar
<1> HIDE DEF new
<1>8. Follows(clusters', clusters, c)
  BY <1>4, <1>5, <1>6, TouchFollows
<1>9. b # None /\ b.id \in 1..counter
  <2>1. b.id \in 1..counter
    BY <1>4, <1>5, IdsOf
  <2> QED
    BY <1>4, <2>1 DEF None
<1>10. leaf \in DOMAIN tree /\ FastMatch(clusters, ids, tokens, SimNum, SimDen, FALSE) = b
  BY <1>6, <1>9 DEF TreeSearch
<1>11. TreeSearch(tree', clusters', tokens, SimNum, SimDen, FALSE)
         = FastMatch(clusters', ids, tokens, SimNum, SimDen, FALSE)
  BY <1>4, <1>10 DEF TreeSearch
<1>12. ids \in Seq(Nat) /\ \A i, j \in DOMAIN ids : ids[i] = ids[j] => i = j
  BY <1>10, TreeValues DEF Planted, Tree, Listed
<1> HIDE DEF ids, leaf, c, b
<1>13. PICK i : Wins(clusters, ids, tokens, SimNum, SimDen, FALSE, i) /\ b = ClusterOf(clusters, ids[i])
  <2>1. FastMatch(clusters, ids, tokens, SimNum, SimDen, FALSE) # None
    BY <1>9, <1>10
  <2>2. PICK i : /\ Wins(clusters, ids, tokens, SimNum, SimDen, FALSE, i)
                 /\ FastMatch(clusters, ids, tokens, SimNum, SimDen, FALSE) = ClusterOf(clusters, ids[i])
    BY ONLY <2>1, FoundWins, ZenonT(60)
  <2> QED
    BY <1>10, <2>2
<1>14. i \in DOMAIN ids /\ ids[i] = c.id
  <2>1. i \in DOMAIN ids /\ ids[i] \in Live(clusters)
    BY <1>13 DEF Wins
  <2>2. PICK m \in DOMAIN clusters : clusters[m].id = ids[i]
    BY <2>1 DEF Live
  <2>3. ClusterOf(clusters, ids[i]) = clusters[m]
    BY <1>4, <1>5, <2>2, IdsOf
  <2> QED
    BY <1>6, <1>13, <2>1, <2>2, <2>3 DEF b
<1>15. /\ c.id \in Live(clusters') /\ ClusterOf(clusters', c.id) = c
       /\ \A id \in Live(clusters') : id # c.id =>
            id \in Live(clusters) /\ ClusterOf(clusters', id) = ClusterOf(clusters, id)
  BY <1>4, <1>5, <1>8, FollowsGives
<1>16. \A id \in Live(clusters) : ClusterOf(clusters, id).template \in Seq(Tokens)
  BY <1>4, <1>5, IdsOf DEF Live
<1>17. ASSUME NEW j \in DOMAIN ids, ids[j] \in Live(clusters')
       PROVE  LET d == ClusterOf(clusters', ids[j])
              IN /\ ~Closer(d, c, tokens, FALSE)
                 /\ j < i => Closer(c, d, tokens, FALSE)
  <2> DEFINE d == ClusterOf(clusters', ids[j])
  <2>1. CASE j = i
    <3>1. d = c /\ ~(j < i)
      <4>1. i \in Nat
        BY <1>12, <1>14
      <4> QED
        BY <1>14, <1>15, <2>1, <4>1
    <3>2. ~Closer(c, c, tokens, FALSE)
      BY <1>1, <1>2, <1>6, NotCloser, ZenonT(30)
    <3> QED
      BY <3>1, <3>2
  <2>2. CASE j # i
    <3>1. ids[j] # c.id
      BY <1>12, <1>14, <2>2
    <3>2. ids[j] \in Live(clusters) /\ d = ClusterOf(clusters, ids[j])
      BY <1>15, <1>17, <3>1
    <3>3. ~Closer(d, b, tokens, FALSE) /\ (j < i => Closer(b, d, tokens, FALSE))
      BY <1>13, <3>2 DEF Wins
    <3>4. d.template \in Seq(Tokens)
      BY <1>16, <3>2
    <3> HIDE DEF d
    <3>5. /\ Closer(d, c, tokens, FALSE) => Closer(d, b, tokens, FALSE)
          /\ Closer(b, d, tokens, FALSE) => Closer(c, d, tokens, FALSE)
      BY ONLY <1>1, <1>2, <1>6, <1>7, <3>4, CloserStill, ZenonT(30)
    <3>6. ~Closer(d, c, tokens, FALSE) /\ (j < i => Closer(c, d, tokens, FALSE))
      BY <3>3, <3>5, Zenon
    <3> QED
      BY <3>6 DEF d
  <2> QED
    BY <2>1, <2>2
<1>18. Reaches(c, tokens, SimNum, SimDen, FALSE)
  <2>1. Reaches(b, tokens, SimNum, SimDen, FALSE)
    BY <1>13 DEF Wins
  <2> QED
    BY <1>6, <1>7, <2>1 DEF Reaches
<1>19. Wins(clusters', ids, tokens, SimNum, SimDen, FALSE, i)
  BY <1>14, <1>15, <1>17, <1>18 DEF Wins
<1>20. FastMatch(clusters', ids, tokens, SimNum, SimDen, FALSE) = c
  <2>1. FastMatch(clusters', ids, tokens, SimNum, SimDen, FALSE) = ClusterOf(clusters', ids[i])
    BY <1>12, <1>19, WinnerFound, ZenonT(30)
  <2> QED
    BY <1>14, <1>15, <2>1
<1>21. last'.line = tokens /\ last'.id = c.id
  BY <1>6
<1>22. TreeSearch(tree', clusters', last'.line, SimNum, SimDen, FALSE).id = last'.id
  BY <1>11, <1>20, <1>21
<1> QED
  BY <1>22 DEF RecognisedAtOnce

\* The way a line goes down the tree is the way its cluster was planted.
LEMMA LeafFollows ==
    ASSUME NEW nodes, NEW tokens \in Seq(Tokens \ {Param}), NEW path,
           Descent(nodes, path, tokens, Levels(Len(tokens)))
    PROVE  LeafOf(nodes \cup Range(path), tokens) = path[Levels(Len(tokens)) + 1]
<1> DEFINE n == Len(tokens)
           depth == Levels(n)
           more == nodes \cup Range(path)
           Key == Tokens \cup Nat
<1>1. tokens \in Seq(Tokens) /\ depth \in Nat /\ \A k \in 1..depth : tokens[k] \in Tokens \ {Param}
  <2>1. n \in Nat
    OBVIOUS
  <2>2. depth \in Nat /\ \A k \in 1..depth : k \in 1..n
    BY <2>1, LevelsOf
  <2>3. \A k \in 1..n : tokens[k] \in Tokens \ {Param}
    OBVIOUS
  <2>4. tokens \in Seq(Tokens)
    OBVIOUS
  <2> QED
    BY <2>2, <2>3, <2>4
<1>2. PICK f : /\ f[0] = <<n>>
               /\ \A k \in 1..depth : f[k] = Descend(more, f[k - 1], tokens[k])
               /\ LeafOf(more, tokens) = f[depth]
  BY <1>1, LeafWalk
<1>3. /\ path[1] = <<n>> /\ DOMAIN path = 1..(depth + 1)
      /\ \A k \in 0..depth : path[k + 1] \in NodesAt(n, k)
      /\ \A k \in 1..depth : path[k + 1] = Grow(nodes, path[k], tokens[k]) /\ path[k] \in Node
                             /\ Front(path[k + 1]) = path[k] /\ Len(path[k + 1]) = k + 1
  <2>1. Descent(nodes, path, tokens, depth)
    OBVIOUS
  <2> HIDE DEF depth, n
  <2> QED
    BY <2>1 DEF Descent, n
<1>4. \A j \in 1..(depth + 1) : Len(path[j]) = j
  <2> SUFFICES ASSUME NEW j \in 1..(depth + 1) PROVE Len(path[j]) = j
    OBVIOUS
  <2>1. j - 1 \in 0..depth /\ (j - 1) + 1 = j
    BY <1>1
  <2>2. path[(j - 1) + 1] \in NodesAt(n, j - 1)
    BY <1>3, <2>1
  <2> HIDE DEF n, depth
  <2> QED
    BY <2>1, <2>2 DEF NodesAt
<1> DEFINE T == {k \in 0..depth : f[k] = path[k + 1]}
<1>5. 0 \in T
  <2>1. 0 + 1 = 1 /\ 0 \in 0..depth
    BY <1>1
  <2>2. f[0] = path[0 + 1]
    BY <1>2, <1>3, <2>1
  <2> QED
    BY <2>1, <2>2
<1>6. ASSUME NEW k \in 1..depth, k - 1 \in T PROVE k \in T
  <2> DEFINE exact == Append(path[k], tokens[k])
             wild == Append(path[k], Param)
  <2>1. f[k - 1] = path[k] /\ k \in 0..depth
    <3>1. f[k - 1] = path[(k - 1) + 1] /\ (k - 1) + 1 = k
      BY <1>1, <1>6
    <3> QED
      BY <1>1, <3>1
  <2>2. f[k] = IF exact \in more THEN exact ELSE wild
    BY <1>2, <2>1 DEF Descend
  <2>3. path[k + 1] \in more
    <3>1. k + 1 \in 1..(depth + 1)
      BY <1>1
    <3> QED
      BY <1>3, <3>1 DEF Range
  <2>4. path[k + 1] = exact \/ (path[k + 1] = wild /\ exact \notin nodes)
    <3>1. path[k + 1] = Grow(nodes, path[k], tokens[k])
      BY <1>3
    <3> QED
      BY <3>1 DEF Grow
  <2>5. CASE path[k + 1] = exact
    <3>1. f[k] = path[k + 1]
      BY <2>2, <2>3, <2>5
    <3> QED
      BY <2>1, <3>1
  <2>6. CASE path[k + 1] = wild /\ exact \notin nodes
    <3>1. exact # wild /\ Len(exact) = k + 1
      <4>1. path[k] \in Seq(Key) /\ tokens[k] \in Key /\ Param \in Key /\ tokens[k] # Param
        BY <1>1, <1>3 DEF Node, Tokens
      <4>2. Len(path[k]) = k /\ k \in Nat
        <5>1. k \in 1..(depth + 1)
          BY <1>1
        <5> QED
          BY <1>4, <5>1
      <4> HIDE DEF Key
      <4>3. exact[Len(path[k]) + 1] = tokens[k] /\ wild[Len(path[k]) + 1] = Param
            /\ Len(exact) = Len(path[k]) + 1
        BY <4>1
      <4> QED
        BY <4>1, <4>2, <4>3
    <3>2. exact \notin Range(path)
      <4>1. SUFFICES ASSUME NEW j \in 1..(depth + 1), exact = path[j] PROVE FALSE
        BY <1>3 DEF Range
      <4>2. j = k + 1
        BY <1>4, <3>1, <4>1
      <4> QED
        BY <2>6, <3>1, <4>1, <4>2
    <3>3. f[k] = path[k + 1]
      BY <2>2, <2>6, <3>2
    <3> QED
      BY <2>1, <3>3
  <2> QED
    BY <2>4, <2>5, <2>6
<1>7. 0..depth \subseteq T
  <2> HIDE DEF T
  <2> QED
    BY <1>1, <1>5, <1>6, Induction
<1>8. f[depth] = path[depth + 1]
  BY <1>1, <1>7
<1> QED
  BY <1>2, <1>8

\* A tree that holds the leaf holds the way to it.
LEMMA WholeWay ==
    ASSUME NEW nodes, Grown(nodes), NEW path, NEW tokens, NEW depth,
           Descent(nodes, path, tokens, depth), path[depth + 1] \in nodes
    PROVE  nodes \cup Range(path) = nodes
<1> DEFINE T == {m \in 0..depth : path[depth + 1 - m] \in nodes}
<1>1. /\ depth \in Nat /\ DOMAIN path = 1..(depth + 1)
      /\ \A k \in 1..depth : Len(path[k + 1]) = k + 1 /\ Front(path[k + 1]) = path[k]
  BY DEF Descent
<1>2. 0 \in T
  <2>1. depth + 1 - 0 = depth + 1 /\ 0 \in 0..depth
    BY <1>1
  <2> QED
    BY <2>1
<1>3. ASSUME NEW m \in 1..depth, m - 1 \in T PROVE m \in T
  <2> DEFINE k == depth + 1 - m
  <2>1. k \in 1..depth /\ depth + 1 - (m - 1) = k + 1 /\ m \in 0..depth
    BY <1>1
  <2>2. path[k + 1] \in nodes
    BY <1>3, <2>1
  <2> HIDE DEF k
  <2>3. path[k + 1] # <<>>
    <3>1. Len(path[k + 1]) = k + 1 /\ Len(<<>>) = 0
      BY <1>1, <2>1
    <3>2. k + 1 # 0
      BY <1>1, <2>1
    <3> QED
      BY <3>1, <3>2
  <2>4. path[k] \in nodes
    BY <1>1, <2>1, <2>2, <2>3 DEF Grown
  <2> QED
    BY <2>1, <2>4 DEF k
<1>4. 0..depth \subseteq T
  <2> HIDE DEF T
  <2> QED
    BY <1>1, <1>2, <1>3, Induction
<1>5. ASSUME NEW j \in 1..(depth + 1) PROVE path[j] \in nodes
  <2> DEFINE m == depth + 1 - j
  <2>1. m \in 0..depth /\ depth + 1 - m = j
    BY <1>1
  <2>2. m \in T
    BY <1>4, <2>1
  <2> QED
    BY <2>1, <2>2
<1> QED
  BY <1>1, <1>5 DEF Range

LEMMA OwnWeight ==
    ASSUME NEW tokens \in Seq(Tokens \ {Param})
    PROVE  Similar(tokens, tokens, FALSE) = Weight(tokens)
<1>1. Literals(tokens) = 1..Len(tokens) /\ Same(tokens, tokens) = Literals(tokens)
  BY DEF Literals, Same
<1>2. Cardinality(Same(tokens, tokens)) = Len(tokens) /\ Len(tokens) \in Nat
  <2>1. Same(tokens, tokens) = 1..Len(tokens)
    BY <1>1
  <2>2. Cardinality(1..Len(tokens)) = Len(tokens)
    <3>1. 1 \in Int /\ Len(tokens) \in Nat /\ (Len(tokens) = 0 => 1..Len(tokens) = {})
      OBVIOUS
    <3> QED
      BY <3>1, FS_Interval, FS_EmptySet
  <2> QED
    BY <2>1, <2>2
<1> DEFINE m == Cardinality(Same(tokens, tokens))
<1>3. Similar(tokens, tokens, FALSE) = IF tokens = <<>> THEN 1 ELSE m + 0
  BY DEF Similar
<1>4. m + 0 = Len(tokens)
  <2> HIDE DEF m
  <2>1. m = Len(tokens) /\ Len(tokens) \in Nat
    BY <1>2 DEF m
  <2> QED
    BY <2>1
<1> QED
  BY <1>3, <1>4 DEF Weight

\* What falls short of a search comes less close than the line itself.
LEMMA ShortOfItself ==
    ASSUME NEW c, NEW d, NEW tokens \in Seq(Tokens \ {Param}), c.template = tokens,
           d.template \in Seq(Tokens), ~Reaches(d, tokens, SimNum, SimDen, FALSE)
    PROVE  Closer(c, d, tokens, FALSE) /\ ~Closer(d, c, tokens, FALSE)
<1> DEFINE s == Similar(d.template, tokens, FALSE)
           w == Weight(tokens)
<1>1. tokens \in Seq(Tokens) /\ FALSE \in BOOLEAN
  OBVIOUS
<1>2. s \in Nat /\ w \in Nat /\ Similar(c.template, tokens, FALSE) = w
  <2>1. s \in Nat
    BY <1>1, SimilarOf
  <2>2. Similar(tokens, tokens, FALSE) = w
    BY OwnWeight
  <2>3. w \in Nat
    BY <1>1 DEF Weight
  <2> QED
    BY <2>1, <2>2, <2>3
<1>3. ~(s * SimDen >= SimNum * w)
  BY DEF Reaches
<1>4. s < w
  <2>1. \A a, m, n \in Nat : m >= n => m * a >= n * a
    OBVIOUS
  <2>2. SimNum \in Nat /\ SimDen \in Nat /\ SimNum <= SimDen
    BY DrainAssumption
  <2> HIDE DEF s, w
  <2>3. SUFFICES ASSUME s >= w PROVE FALSE
    BY <1>2
  <2>4. s * SimDen >= w * SimDen
    BY <1>2, <2>1, <2>2, <2>3
  <2>5. SimDen * w >= SimNum * w
    BY <1>2, <2>1, <2>2
  <2>6. w * SimDen = SimDen * w /\ s * SimDen \in Nat /\ SimDen * w \in Nat /\ SimNum * w \in Nat
    BY <1>2, <2>2
  <2> QED
    BY <1>3, <2>4, <2>5, <2>6
<1> DEFINE r == Similar(c.template, tokens, FALSE)
           P(x) == IF Len(x.template) = Len(tokens) THEN Wildcards(x.template) ELSE 0
<1>5. /\ Closer(c, d, tokens, FALSE) <=> r > s \/ (r = s /\ P(c) > P(d))
      /\ Closer(d, c, tokens, FALSE) <=> s > r \/ (s = r /\ P(d) > P(c))
  BY DEF Closer
<1>6. r = w
  BY <1>2
<1> HIDE DEF s, w, r, P
<1>7. r > s /\ ~(s > r) /\ s # r
  BY <1>2, <1>4, <1>6
<1> QED
  BY ONLY <1>5, <1>7, Zenon

LEMMA CreateRecognised ==
    ASSUME IInv, Planted, NEW line \in Lines, Create(Tokenize(line))
    PROVE  RecognisedAtOnce'
<1> DEFINE tokens == Tokenize(line)
           c == [id |-> counter + 1, template |-> tokens]
           depth == Levels(Len(tokens))
           path == Path(DOMAIN tree, tokens)
           leaf == path[depth + 1]
<1>1. tokens \in Seq(Tokens \ {Param}) /\ FALSE \in BOOLEAN
  BY TokenizedLine
<1>2. tokens \in Seq(Tokens)
  <2> HIDE DEF tokens
  <2> QED
    BY <1>1
<1> HIDE DEF tokens
<1>3. /\ counter \in Nat /\ counter' = counter + 1
      /\ clusters' = Put(clusters, c) /\ tree' = AddToTree(tree, clusters', c)
      /\ TreeSearch(tree, clusters, tokens, SimNum, SimDen, FALSE) = None
      /\ last' = [line |-> tokens, id |-> counter + 1]
  <2>1. Create(tokens)
    BY DEF tokens
  <2>2. counter \in Nat
    BY DrainAssumption DEF IInv
  <2> QED
    BY ONLY <2>1, <2>2 DEF Create, c
<1>4. Table(clusters, counter) /\ Table(clusters', counter + 1) /\ counter + 1 \in Nat
  BY <1>3, CreateKeeps DEF IInv, tokens
<1>5. Follows(clusters', clusters, c)
  BY <1>2, <1>3, <1>4, PutFollows
<1>6. c.id = counter + 1 /\ c.template = tokens
  OBVIOUS
<1> HIDE DEF c
<1>7. tree \in Trees /\ Grown(DOMAIN tree) /\ Listed(tree, 1..counter)
  BY DEF Planted, Tree
<1>8. Descent(DOMAIN tree, path, tokens, depth)
  BY <1>2, PathDescends
<1>9. LeafOf(DOMAIN tree \cup Range(path), tokens) = leaf
  <2> HIDE DEF path
  <2> QED
    BY <1>1, <1>8, LeafFollows
<1>10. DOMAIN tree' = DOMAIN tree \cup Range(path) /\ Added(tree', tree, clusters', c, leaf)
  <2>1. c.id \in Nat /\ c.template \in Seq(Tokens)
    BY <1>2, <1>4, <1>6
  <2> QED
    BY <1>3, <1>6, <1>7, <2>1, AddOf
<1>11. leaf \in DOMAIN tree => LeafOf(DOMAIN tree, tokens) = leaf
  <2>1. ASSUME leaf \in DOMAIN tree PROVE DOMAIN tree \cup Range(path) = DOMAIN tree
    <3> HIDE DEF path, depth
    <3> QED
      BY <1>7, <1>8, <2>1, WholeWay
  <2> HIDE DEF path, leaf
  <2> QED
    BY <1>9, <2>1
<1> HIDE DEF path, leaf, depth
<1>12. PICK kept \in Seq(Nat) :
         /\ tree'[leaf] = Append(kept, c.id) /\ leaf \in DOMAIN tree'
         /\ \A j \in DOMAIN kept :
              leaf \in DOMAIN tree /\ \E m \in DOMAIN tree[leaf] : kept[j] = tree[leaf][m]
  BY <1>10 DEF Added
<1> DEFINE ids == tree'[leaf]
           i == Len(kept) + 1
<1>13. /\ ids \in Seq(Nat) /\ i \in DOMAIN ids /\ ids[i] = c.id
       /\ \A j \in DOMAIN ids : j = i \/ (j \in DOMAIN kept /\ ids[j] = kept[j])
  <2>1. c.id \in Nat
    BY <1>4, <1>6
  <2> QED
    BY <1>12, <2>1
<1>14. TreeSearch(tree', clusters', tokens, SimNum, SimDen, FALSE)
         = FastMatch(clusters', ids, tokens, SimNum, SimDen, FALSE)
  BY <1>9, <1>10, <1>12 DEF TreeSearch
<1>15. i \in Nat
  OBVIOUS
<1> HIDE DEF ids, i
<1>16. /\ c.id \in Live(clusters') /\ ClusterOf(clusters', c.id) = c
       /\ \A id \in Live(clusters') : id # c.id =>
            id \in Live(clusters) /\ ClusterOf(clusters', id) = ClusterOf(clusters, id)
  BY <1>3, <1>4, <1>5, FollowsGives
<1>17. \A id \in Live(clusters) : ClusterOf(clusters, id).template \in Seq(Tokens)
  BY <1>3, <1>4, IdsOf DEF Live
<1>18. ASSUME NEW j \in DOMAIN ids, ids[j] \in Live(clusters')
       PROVE  LET d == ClusterOf(clusters', ids[j])
              IN /\ ~Closer(d, c, tokens, FALSE)
                 /\ j < i => Closer(c, d, tokens, FALSE)
  <2> DEFINE d == ClusterOf(clusters', ids[j])
  <2>1. CASE j = i
    <3>1. d = c /\ ~(j < i)
      BY <1>13, <1>15, <1>16, <2>1
    <3>2. ~Closer(c, c, tokens, FALSE)
      BY <1>1, <1>2, <1>6, NotCloser, ZenonT(30)
    <3> QED
      BY <3>1, <3>2
  <2>2. CASE j # i
    <3>1. PICK m \in DOMAIN tree[leaf] : ids[j] = tree[leaf][m] /\ leaf \in DOMAIN tree
      BY <1>12, <1>13, <2>2
    <3>2. ids[j] # c.id
      <4>1. ids[j] \in 1..counter
        BY <1>7, <3>1 DEF Listed
      <4> QED
        BY <1>3, <1>6, <4>1
    <3>3. ids[j] \in Live(clusters) /\ d = ClusterOf(clusters, ids[j])
      BY <1>16, <1>18, <3>2
    <3>4. d.template \in Seq(Tokens)
      BY <1>17, <3>3
    <3> HIDE DEF d
    <3>5. ~Reaches(d, tokens, SimNum, SimDen, FALSE)
      <4>1. SUFFICES ASSUME Reaches(d, tokens, SimNum, SimDen, FALSE) PROVE FALSE
        OBVIOUS
      <4>2. Reaches(ClusterOf(clusters, tree[leaf][m]), tokens, SimNum, SimDen, FALSE)
        BY <3>1, <3>3, <4>1
      <4>3. tree[leaf][m] \in Live(clusters) /\ leaf = LeafOf(DOMAIN tree, tokens) /\ leaf \in DOMAIN tree
        BY <1>11, <3>1, <3>3
      <4> QED
        BY ONLY <1>1, <1>2, <1>3, <1>4, <1>7, <4>2, <4>3, m \in DOMAIN tree[leaf], CloseIsFound, ZenonT(30)
    <3>6. Closer(c, d, tokens, FALSE) /\ ~Closer(d, c, tokens, FALSE)
      BY <1>1, <1>6, <3>4, <3>5, ShortOfItself
    <3> QED
      BY <3>6 DEF d
  <2> QED
    BY <2>1, <2>2
<1>19. Reaches(c, tokens, SimNum, SimDen, FALSE)
  <2> DEFINE w == Weight(tokens)
  <2>1. Similar(c.template, tokens, FALSE) = w /\ w \in Nat
    <3>1. Similar(tokens, tokens, FALSE) = Weight(tokens)
      BY <1>1, OwnWeight
    <3>2. Weight(tokens) \in Nat
      BY <1>2 DEF Weight
    <3> QED
      BY <1>6, <3>1, <3>2
  <2>2. w * SimDen >= SimNum * w
    <3>1. \A a, m, n \in Nat : m <= n => a * n >= m * a
      OBVIOUS
    <3> HIDE DEF w
    <3> QED
      BY <2>1, <3>1, DrainAssumption
  <2> HIDE DEF w
  <2>3. Reaches(c, tokens, SimNum, SimDen, FALSE) <=> w * SimDen >= SimNum * w
    BY <2>1 DEF Reaches, w
  <2> QED
    BY <2>2, <2>3
<1>20. Wins(clusters', ids, tokens, SimNum, SimDen, FALSE, i)
  BY <1>13, <1>16, <1>18, <1>19 DEF Wins
<1>21. FastMatch(clusters', ids, tokens, SimNum, SimDen, FALSE) = c
  <2>1. FastMatch(clusters', ids, tokens, SimNum, SimDen, FALSE) = ClusterOf(clusters', ids[i])
    <3>1. ids \in Seq(Nat)
      BY <1>13
    <3> QED
      BY ONLY <1>20, <3>1, WinnerFound, ZenonT(30)
  <2> QED
    BY <1>13, <1>16, <2>1
<1>22. last'.line = tokens /\ last'.id = c.id
  BY <1>3, <1>6
<1>23. TreeSearch(tree', clusters', last'.line, SimNum, SimDen, FALSE).id = last'.id
  BY <1>14, <1>21, <1>22
<1> QED
  BY <1>23 DEF RecognisedAtOnce

LEMMA NextRecognised ==
    ASSUME IInv, Planted, RecognisedAtOnce, [Next]_vars
    PROVE  RecognisedAtOnce'
<1>1. ASSUME NEW line \in Lines, AddLogMessage(line) PROVE RecognisedAtOnce'
  BY <1>1, CreateRecognised, UpdateRecognised DEF AddLogMessage
<1>2. CASE Snapshot
  BY <1>2 DEF Snapshot, RecognisedAtOnce
<1>3. CASE Restore
  BY <1>3 DEF Restore, RecognisedAtOnce
<1>4. CASE Forget
  BY <1>4 DEF Forget, RecognisedAtOnce
<1>5. CASE UNCHANGED vars
  BY <1>5 DEF vars, RecognisedAtOnce
<1> QED
  BY <1>1, <1>2, <1>3, <1>4, <1>5 DEF Next

\* No id at two places, none that was not given out: no leaf lists more than those.
LEMMA ShortLists ==
    ASSUME NEW n \in Nat, NEW t \in Trees, Listed(t, 1..n), NEW v \in DOMAIN t, NEW i \in DOMAIN t[v]
    PROVE  i \in 1..n
<1> DEFINE s == t[v]
<1>1. s \in Seq(Nat) /\ DOMAIN s = 1..Len(s) /\ Len(s) \in Nat
  BY TreeValues
<1>2. /\ \A j \in DOMAIN s : s[j] \in 1..n
      /\ \A j, k \in DOMAIN s : s[j] = s[k] => j = k
  BY DEF Listed
<1>3. i \in DOMAIN s
  OBVIOUS
<1> HIDE DEF s
<1>4. s \in Injection(1..Len(s), 1..n)
  <2>1. s = [j \in 1..Len(s) |-> s[j]]
    BY <1>1
  <2>2. s \in [1..Len(s) -> 1..n]
    BY <1>1, <1>2, <2>1
  <2> QED
    BY <1>1, <1>2, <2>2 DEF Injection, IsInjective
<1>5. /\ IsFiniteSet(1..n) /\ Cardinality(1..n) = n
      /\ Cardinality(1..Len(s)) = Len(s)
  <2>1. ASSUME NEW m \in Nat PROVE IsFiniteSet(1..m) /\ Cardinality(1..m) = m
    <3>1. 1 \in Int /\ m \in Int /\ (m = 0 => 1..m = {})
      OBVIOUS
    <3>2. IsFiniteSet(1..m) /\ Cardinality(1..m) = IF 1 > m THEN 0 ELSE m - 1 + 1
      BY <3>1, FS_Interval
    <3> QED
      BY <3>2
  <2> QED
    BY <1>1, <2>1
<1>6. Len(s) <= n
  <2>1. Cardinality(1..Len(s)) <= Cardinality(1..n)
    BY <1>4, <1>5, FS_Injection
  <2> QED
    BY <1>5, <2>1
<1> QED
  BY <1>1, <1>3, <1>6

LEMMA PlantedOnce ==
    ASSUME IInv, Planted
    PROVE  OnePlaceInTheTree
<1>1. /\ tree \in Trees /\ Grown(DOMAIN tree) /\ Listed(tree, 1..counter) /\ counter \in Nat
      /\ \A i \in DOMAIN clusters : Hangs(tree, clusters[i].id, Len(clusters[i].template))
  BY DrainAssumption DEF Planted, Tree, IInv
<1>2. ASSUME NEW c \in Range(clusters)
      PROVE  Cardinality({place \in (DOMAIN tree) \X (1..counter) :
                            /\ place[2] \in DOMAIN tree[place[1]]
                            /\ tree[place[1]][place[2]] = c.id}) = 1
  <2> DEFINE places == {place \in (DOMAIN tree) \X (1..counter) :
                          /\ place[2] \in DOMAIN tree[place[1]]
                          /\ tree[place[1]][place[2]] = c.id}
  <2>1. PICK k \in DOMAIN clusters : c = clusters[k]
    BY DEF Range
  <2>2. PICK v \in DOMAIN tree : \E i \in DOMAIN tree[v] : tree[v][i] = c.id
    BY <1>1, <2>1 DEF Hangs
  <2>3. PICK i \in DOMAIN tree[v] : tree[v][i] = c.id
    BY <2>2
  <2>4. i \in 1..counter
    BY <1>1, ShortLists
  <2>5. <<v, i>> \in places
    BY <2>3, <2>4
  <2>6. ASSUME NEW place \in places PROVE place = <<v, i>>
    <3>1. /\ place[1] \in DOMAIN tree /\ place[2] \in DOMAIN tree[place[1]]
          /\ tree[place[1]][place[2]] = tree[v][i] /\ place = <<place[1], place[2]>>
      BY <2>3
    <3>2. place[1] = v /\ place[2] = i
      BY <1>1, <3>1 DEF Listed
    <3> QED
      BY <3>1, <3>2
  <2> HIDE DEF places
  <2>7. places = {<<v, i>>}
    BY <2>5, <2>6
  <2>8. Cardinality(places) = 1
    BY <2>7, FS_Singleton
  <2> QED
    BY <2>8 DEF places
<1>3. \A node \in DOMAIN tree : Len(node) > 0 => Roomy(DOMAIN tree, node)
  BY <1>1 DEF Grown
<1> QED
  BY <1>2, <1>3 DEF OnePlaceInTheTree, Roomy

LEMMA CoveredMatch ==
    ASSUME IInv, Covered
    PROVE  MinedLinesMatch
<1> SUFFICES ASSUME NEW c \in Range(clusters), NEW line \in mined[c.id]
             PROVE  LET hit == Match(tree, clusters, line) IN
                    /\ hit # None
                    /\ \A i \in DOMAIN line : hit.template[i] \in {line[i], Param}
  BY DEF MinedLinesMatch
<1>1. PICK k \in DOMAIN clusters : c = clusters[k]
  BY DEF Range
<1>2. Covers(clusters[k].template, line)
  BY <1>1 DEF Covered, Covering
<1>3. counter \in Nat /\ Table(clusters, counter)
  BY DrainAssumption DEF IInv
<1> QED
  BY <1>2, <1>3, CoveredIsFound

\* A line finds its template again, whatever was learnt, evicted, saved, restored
\* and forgotten in between: a lookup of a line that went into a known cluster
\* gives a template that stands for it; a line is recognised in the cluster it
\* was just put in; every known cluster hangs at one place of a tree that keeps
\* its bounds.
THEOREM LinesFound == Spec => []LinesFindTheirTemplate
<1>1. Init => IInv /\ Covered /\ Planted /\ RecognisedAtOnce
  <2>1. Init => RecognisedAtOnce
    BY DEF Init, RecognisedAtOnce
  <2> QED
    BY <2>1, InitIInv, InitCovered, InitPlanted
<1>2. /\ IInv /\ Covered /\ Planted /\ RecognisedAtOnce
      /\ [Next]_vars
      => IInv' /\ Covered' /\ Planted' /\ RecognisedAtOnce'
  BY NextIInv, NextCovered, NextPlanted, NextRecognised
<1>3. IInv /\ Covered /\ Planted /\ RecognisedAtOnce => LinesFindTheirTemplate
  BY CoveredMatch, PlantedOnce DEF LinesFindTheirTemplate
<1> QED
  BY <1>1, <1>2, <1>3, PTL DEF Spec
=============================================================================
