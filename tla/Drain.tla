------------------------------- MODULE Drain -------------------------------
(***************************************************************************)
(* One partition of the template miner, internal/core/drain: lines already *)
(* masked, as sequences of tokens, learnt into clusters through a prefix   *)
(* tree of fixed depth, with a bounded table of clusters in least recently *)
(* used order, its snapshots and what a restart rebuilds from them.        *)
(*                                                                         *)
(* The lock of TemplateMiner makes each operation one action.  A node of   *)
(* the tree is the path that leads to it, token count first.               *)
(***************************************************************************)
EXTENDS Naturals, Sequences, FiniteSets, SequencesExt

CONSTANTS
    Lines,        \* the lines of the source, as sequences of tokens
    Numeric,      \* the tokens holding a digit (hasNumbers)
    Param,        \* ParamStr, the wildcard of templates
    Truncated,    \* TruncationMarker
    Depth,        \* Depth: levels of the tree, root and leaves included
    MaxChildren,  \* MaxChildren of a node
    MaxClusters,  \* MaxClusters, 0 for no bound
    MaxTokens,    \* MaxTokens of a line, 0 for no cut
    SimNum,       \* SimTh is SimNum/SimDen
    SimDen,
    Parametrize,  \* ParametrizeNumericTokens
    MaxID         \* bound: the clusters created in one life

Tokens == (UNION {Range(line) : line \in Lines}) \cup {Param, Truncated}

\* A line that holds the wildcard itself is left out.
ASSUME DrainAssumption ==
    /\ Lines \subseteq Seq(Tokens \ {Param}) /\ Truncated # Param
    /\ Depth \in Nat /\ Depth >= 3
    /\ MaxChildren \in Nat \ {0} /\ MaxClusters \in Nat /\ MaxTokens \in Nat \ {1}
    /\ SimNum \in Nat \ {0} /\ SimDen \in Nat /\ SimNum <= SimDen
    /\ Parametrize \in BOOLEAN /\ MaxID \in Nat

VARIABLES
    tree,      \* the cluster ids of each node of the prefix tree
    clusters,  \* the clusters, least recently used first
    counter,   \* clustersCounter
    saved,     \* the last snapshot
    mined,     \* history: the lines learnt into each cluster ever known
    last       \* history: the line learnt last and its cluster, if any

vars == <<tree, clusters, counter, saved, mined, last>>

None == [id |-> 0, template |-> <<>>]
Nothing == [line |-> <<>>, id |-> 0]
EmptyTree == [node \in {<<>>} |-> <<>>]

----------------------------------------------------------------------------
\* Templates and how close a line is to one.

Tokenize(line) ==
    IF MaxTokens > 0 /\ Len(line) > MaxTokens
    THEN Append(SubSeq(line, 1, MaxTokens - 1), Truncated) ELSE line

Literals(template) == {i \in DOMAIN template : template[i] # Param}
Same(template, tokens) == {i \in Literals(template) : template[i] = tokens[i]}

Wildcards(template) == Len(template) - Cardinality(Literals(template))

\* The similarity, as a count of tokens out of Weight(tokens).
Weight(tokens) == IF tokens = <<>> THEN 1 ELSE Len(tokens)

\* Mutant: wildcards count as similar when learning as well.
SimilarAlways(template, tokens, includeParams) ==
    IF Len(template) # Len(tokens) THEN 0
    ELSE IF template = <<>> THEN 1
    ELSE Cardinality(Same(template, tokens)) + Wildcards(template)

Similar(template, tokens, includeParams) ==
    IF Len(template) # Len(tokens) THEN 0
    ELSE IF template = <<>> THEN 1
    ELSE Cardinality(Same(template, tokens)) + IF includeParams THEN Wildcards(template) ELSE 0

CreateTemplate(tokens, template) ==
    [i \in DOMAIN template |-> IF tokens[i] = template[i] THEN template[i] ELSE Param]

----------------------------------------------------------------------------
\* Search: from the node a line leads to, the closest of its clusters.

Levels(n) == IF n = 0 THEN 0 ELSE (IF n < Depth - 2 THEN n ELSE Depth - 2) - 1

Children(nodes, node) == {child \in nodes : Len(child) = Len(node) + 1 /\ Front(child) = node}

\* Mutant: a search takes the wildcard branch first.
DescendWild(nodes, node, token) ==
    IF Append(node, Param) \in nodes THEN Append(node, Param) ELSE Append(node, token)

Descend(nodes, node, token) ==
    IF Append(node, token) \in nodes THEN Append(node, token) ELSE Append(node, Param)

\* The leaf of a line, which the tree need not hold.
LeafOf(nodes, tokens) ==
    LET depth == Levels(Len(tokens))
        node[k \in 0..depth] == IF k = 0 THEN <<Len(tokens)>>
                               ELSE Descend(nodes, node[k - 1], tokens[k])
    IN node[depth]

Live(table) == {table[i].id : i \in DOMAIN table}
Index(table, id) == CHOOSE i \in DOMAIN table : table[i].id = id
ClusterOf(table, id) == table[Index(table, id)]

Closer(c, d, tokens, includeParams) ==
    LET s == Similar(c.template, tokens, includeParams)
        t == Similar(d.template, tokens, includeParams)
        Params(k) == IF Len(k.template) = Len(tokens) THEN Wildcards(k.template) ELSE 0
    IN s > t \/ (s = t /\ Params(c) > Params(d))

\* The first of the closest known clusters of ids, if it is close enough.
FastMatch(table, ids, tokens, num, den, includeParams) ==
    LET At(i) == ClusterOf(table, ids[i])
        known == {i \in DOMAIN ids : ids[i] \in Live(table)}
        found == {i \in known :
                    /\ Similar(At(i).template, tokens, includeParams) * den >= num * Weight(tokens)
                    /\ \A j \in known : ~Closer(At(j), At(i), tokens, includeParams)
                    /\ \A j \in known : j < i => Closer(At(i), At(j), tokens, includeParams)}
    IN IF found = {} THEN None ELSE At(CHOOSE i \in found : TRUE)

TreeSearch(nodes, table, tokens, num, den, includeParams) ==
    LET leaf == LeafOf(DOMAIN nodes, tokens)
    IN IF leaf \in DOMAIN nodes
       THEN FastMatch(table, nodes[leaf], tokens, num, den, includeParams) ELSE None

\* Match: a lookup that learns nothing, falling back on every cluster.
Match(nodes, table, line) ==
    LET tokens == Tokenize(line)
        quick  == TreeSearch(nodes, table, tokens, 1, 1, TRUE)
    IN IF quick # None THEN quick
       ELSE FastMatch(table, [i \in DOMAIN table |-> table[i].id], tokens, 1, 1, TRUE)

----------------------------------------------------------------------------
\* Insertion: the path of a new cluster, created as it goes.

Grow(nodes, node, token) ==
    LET children == Children(nodes, node)
        exact    == Append(node, token)
        wildcard == Append(node, Param)
        size     == Cardinality(children)
    IN CASE exact \in nodes -> exact
         [] exact \notin nodes /\ Parametrize /\ token \in Numeric -> wildcard
         [] exact \notin nodes /\ ~(Parametrize /\ token \in Numeric) ->
              IF size + (IF wildcard \in nodes THEN 0 ELSE 1) < MaxChildren THEN exact ELSE wildcard

\* Every node on the way, the leaf last.
Path(nodes, template) ==
    LET depth == Levels(Len(template))
        node[k \in 0..depth] == IF k = 0 THEN <<Len(template)>>
                                ELSE Grow(nodes, node[k - 1], template[k])
    IN [k \in 1..(depth + 1) |-> node[k - 1]]

\* Of ids, those whose clusters the table still knows.
Kept(ids, table) ==
    LET kept[k \in 0..Len(ids)] ==
            IF k = 0 THEN <<>>
            ELSE IF ids[k] \in Live(table) THEN Append(kept[k - 1], ids[k]) ELSE kept[k - 1]
    IN kept[Len(ids)]

\* addSeqToPrefixTree: the leaf drops the evicted clusters on the way.
AddToTree(nodes, table, cluster) ==
    LET path == Path(DOMAIN nodes, cluster.template)
        leaf == Last(path)
        kept == IF leaf \in DOMAIN nodes /\ cluster.template # <<>>
                THEN Kept(nodes[leaf], table) ELSE <<>>
    IN [node \in DOMAIN nodes \cup Range(path) |->
          IF node = leaf THEN Append(kept, cluster.id)
          ELSE IF node \in DOMAIN nodes THEN nodes[node] ELSE <<>>]

\* Mutant: the table makes room one cluster late.
PutLate(table, cluster) ==
    Append(IF MaxClusters > 0 /\ Len(table) > MaxClusters THEN Tail(table) ELSE table, cluster)

\* Put of a new id: the table gives up its least recently used cluster.
Put(table, cluster) ==
    Append(IF MaxClusters > 0 /\ Len(table) >= MaxClusters THEN Tail(table) ELSE table, cluster)

\* Touch, with the template of the cluster replaced.
Touch(table, cluster) == Append(RemoveAt(table, Index(table, cluster.id)), cluster)

----------------------------------------------------------------------------
Init ==
    /\ tree = EmptyTree
    /\ clusters = <<>>
    /\ counter = 0
    /\ saved = [counter |-> 0, clusters |-> <<>>, mined |-> <<>>]
    /\ mined = <<>>
    /\ last = Nothing

\* addTokens when no cluster is close enough.
Create(tokens) ==
    LET cluster == [id |-> counter + 1, template |-> tokens]
    IN /\ TreeSearch(tree, clusters, tokens, SimNum, SimDen, FALSE) = None
       /\ counter < MaxID
       /\ counter' = counter + 1
       /\ clusters' = Put(clusters, cluster)
       /\ tree' = AddToTree(tree, clusters', cluster)
       /\ mined' = Append(mined, {tokens})
       /\ last' = [line |-> tokens, id |-> counter + 1]
       /\ UNCHANGED saved

\* addTokens when a cluster is: its template covers the line from now on.
Update(tokens) ==
    LET matched == TreeSearch(tree, clusters, tokens, SimNum, SimDen, FALSE)
    IN /\ matched # None
       /\ clusters' = Touch(clusters, [id |-> matched.id,
                                       template |-> CreateTemplate(tokens, matched.template)])
       /\ mined' = [mined EXCEPT ![matched.id] = @ \cup {tokens}]
       /\ last' = [line |-> tokens, id |-> matched.id]
       /\ UNCHANGED <<tree, counter, saved>>

AddLogMessage(line) == Create(Tokenize(line)) \/ Update(Tokenize(line))

Snapshot ==
    /\ saved' = [counter |-> counter, clusters |-> clusters, mined |-> mined]
    /\ UNCHANGED <<tree, clusters, counter, mined, last>>

\* Restore, in a new process: the tree is rebuilt from the clusters alone, in the
\* order of their last use; a table that fitted still does, so Put evicts none.
Rebuilt(table) ==
    LET nodes[k \in 0..Len(table)] ==
            IF k = 0 THEN EmptyTree ELSE AddToTree(nodes[k - 1], table, table[k])
    IN nodes[Len(table)]

Restore ==
    /\ counter' = saved.counter
    /\ clusters' = saved.clusters
    /\ tree' = Rebuilt(saved.clusters)
    /\ mined' = saved.mined
    /\ last' = Nothing
    /\ UNCHANGED saved

\* PartitionedMiner.Forget, and the new miner the next line asks for.
Forget ==
    /\ tree' = EmptyTree
    /\ clusters' = <<>>
    /\ counter' = 0
    /\ mined' = <<>>
    /\ last' = Nothing
    /\ UNCHANGED saved

Next ==
    \/ \E line \in Lines : AddLogMessage(line)
    \/ Snapshot
    \/ Restore
    \/ Forget

Spec == Init /\ [][Next]_vars

----------------------------------------------------------------------------
\* Type invariant: clusters of distinct known ids, the table within its bound.
TypeOK ==
    /\ counter \in 0..MaxID
    /\ DOMAIN mined = 1..counter
    /\ MaxClusters > 0 => Len(clusters) <= MaxClusters
    /\ \A i, j \in DOMAIN clusters : i # j => clusters[i].id # clusters[j].id
    /\ \A i \in DOMAIN clusters : clusters[i].id \in 1..counter
    /\ \A i \in DOMAIN clusters : clusters[i].template \in Seq(Tokens)

\* Every line that went into a cluster the miner still knows is found again by
\* a lookup: templates only generalise, whatever the evictions and restarts.
MinedLinesMatch ==
    \A c \in Range(clusters) : \A line \in mined[c.id] :
        LET hit == Match(tree, clusters, line) IN
        /\ hit # None
        /\ \A i \in DOMAIN line : hit.template[i] \in {line[i], Param}

\* A template keeps the share of literal tokens a match asks for: lines cannot
\* erode it, one after the other, until it matches anything.
TemplatesKeepTheirShape ==
    \A i \in DOMAIN clusters :
        LET template == clusters[i].template
        IN Cardinality(Literals(template)) * SimDen >= SimNum * Len(template)

\* The line learnt last leads to the cluster it was put in: what insertion and
\* search make of the tree agree, and generalising a template loses no line to
\* a neighbour.
RecognisedAtOnce ==
    last # Nothing =>
        TreeSearch(tree, clusters, last.line, SimNum, SimDen, FALSE).id = last.id

\* Every known cluster hangs at exactly one place of the tree, evicted or
\* restored neighbours notwithstanding, and no node has more children than
\* allowed; the child that stands for the rest is there before they run out.
OnePlaceInTheTree ==
    /\ \A c \in Range(clusters) :
         Cardinality({place \in (DOMAIN tree) \X (1..counter) :
                        /\ place[2] \in DOMAIN tree[place[1]]
                        /\ tree[place[1]][place[2]] = c.id}) = 1
    /\ \A node \in DOMAIN tree : Len(node) > 0 =>
         LET n == Cardinality(Children(DOMAIN tree, node)) IN
         n < MaxChildren \/ (n = MaxChildren /\ Append(node, Param) \in DOMAIN tree)

\* "Learning must resume seamlessly: same message, same cluster": a restart from
\* what the miner knows gives no message it already placed a cluster of its own.
ResumesSeamlessly ==
    [][clusters' = clusters /\ counter' = counter /\ counter > 0 =>
         \A line \in UNION Range(mined) :
            LET Found == TreeSearch(tree, clusters, line, SimNum, SimDen, FALSE)
            IN Found # None /\ line \in mined[Found.id] => Found' = Found]_vars

\* A line finds its template again: in its one place, by its own words.
LinesFindTheirTemplate == MinedLinesMatch /\ RecognisedAtOnce /\ OnePlaceInTheTree
=============================================================================
