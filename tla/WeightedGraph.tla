----------------------------- MODULE WeightedGraph -----------------------------
(***************************************************************************)
(* DS_WeightedGraph.h: an undirected graph, and Dijkstra's search in it.   *)
(* The matrix of a search is kept for the next question.  Nothing but a    *)
(* removal makes it invalid, and a question that uses it after a node was  *)
(* added reads past its end: such a question is left out, and so are       *)
(* copies, which share their maps with the original.                       *)
(***************************************************************************)
EXTENDS Integers, Sequences, FiniteSets

LOCAL Ext == INSTANCE SequencesExt
LOCAL INSTANCE TLC

CONSTANTS
  Nodes,             \* numbers, as the maps are ordered
  Weights,           \* numbers above 0
  INFINITE_WEIGHT,   \* more than any path weighs
  MaxConnections,    \* bound: connections of the graph
  MaxLate,           \* bound: connections set since the matrix was made
  NoNode

VARIABLES
  allow_unlinkedNodes,   \* the template's parameter
  adjacencyLists,        \* of each node, the weights of its connections
  isValidPath, rootNode, costMatrix, leastNodeArray,
  known,                 \* the graph the matrix was made from
  late                   \* bound: see MaxLate

dijkstra == <<isValidPath, rootNode, costMatrix, leastNodeArray, known>>
vars == <<allow_unlinkedNodes, adjacencyLists, dijkstra, late>>

NodesOf(g) == DOMAIN g
Size == Cardinality(NodesOf(adjacencyLists))
Rows(g) == 0 .. Cardinality(NodesOf(g)) - 1

TypeOK ==
  /\ NodesOf(adjacencyLists) \subseteq Nodes
  /\ \A a \in NodesOf(adjacencyLists) :
       /\ DOMAIN adjacencyLists[a] \subseteq NodesOf(adjacencyLists) \ {a}
       /\ \A b \in DOMAIN adjacencyLists[a] :
            adjacencyLists[a][b] \in Weights /\ a \in DOMAIN adjacencyLists[b]
  /\ isValidPath => rootNode \in NodesOf(known)
  /\ late \in 0 .. MaxLate

Init ==
  /\ allow_unlinkedNodes \in BOOLEAN
  /\ adjacencyLists = <<>>
  /\ isValidPath = FALSE /\ rootNode = NoNode
  /\ costMatrix = <<>> /\ leastNodeArray = <<>> /\ known = <<>>
  /\ late = 0

-------------------------------------------------------------------------------
(* The graph.                                                              *)

HasConnection(g, a, b) == a # b /\ a \in NodesOf(g) /\ b \in DOMAIN g[a]

Connections(g) == {c \in Nodes \X Nodes : c[1] < c[2] /\ HasConnection(g, c[1], c[2])}

WithNode(g, a) == g @@ (a :> <<>>)

Connected(g, a, b, weight) ==
  [WithNode(WithNode(g, a), b) EXCEPT ![a] = (b :> weight) @@ @,
                                      ![b] = (a :> weight) @@ @]

Less(g, a) ==
  [k \in NodesOf(g) \ {a} |-> [b \in DOMAIN g[k] \ {a} |-> g[k][b]]]

Lonely(g) == {k \in NodesOf(g) : DOMAIN g[k] = {}}

\* Without node a, and, where unlinked nodes are not allowed, without the one that
\* this leaves unlinked.  Two of them would be put on the queue once too often.
CanRemove(g, a) ==
  a \in NodesOf(g) /\ (allow_unlinkedNodes \/ Cardinality(Lonely(Less(g, a))) <= 1)

WithoutNode(g, a) ==
  LET rest == Less(g, a)
      gone == IF allow_unlinkedNodes THEN {} ELSE Lonely(rest)
  IN [k \in NodesOf(rest) \ gone |-> rest[k]]

Cut(g, a, b) ==
  [k \in NodesOf(g) |->
     [j \in {i \in DOMAIN g[k] : {i, k} # {a, b}} |-> g[k][j]]]

\* Slip: the matrix outlives what is removed.
KeepDijkstra == UNCHANGED <<dijkstra, late>>

ClearDijkstra ==
  /\ isValidPath' = FALSE /\ rootNode' = NoNode
  /\ costMatrix' = <<>> /\ leastNodeArray' = <<>> /\ known' = <<>>
  /\ late' = 0

AddNode(a) ==
  /\ a \notin NodesOf(adjacencyLists)
  /\ adjacencyLists' = WithNode(adjacencyLists, a)
  /\ UNCHANGED <<allow_unlinkedNodes, dijkstra, late>>

AddConnection(a, b, weight) ==
  /\ Cardinality(Connections(adjacencyLists) \cup {<<a, b>>}) <= MaxConnections
  /\ adjacencyLists' = Connected(adjacencyLists, a, b, weight)
  /\ isValidPath => late < MaxLate
  /\ late' = IF isValidPath THEN late + 1 ELSE 0
  /\ UNCHANGED <<allow_unlinkedNodes, dijkstra>>

RemoveNode(a) ==
  /\ CanRemove(adjacencyLists, a)
  /\ adjacencyLists' = WithoutNode(adjacencyLists, a)
  /\ ClearDijkstra
  /\ UNCHANGED allow_unlinkedNodes

\* The end that is left without a connection goes, and the other one with it.
RemoveConnection(a, b) ==
  LET cut == Cut(adjacencyLists, a, b)
      Goes(g, k) == ~allow_unlinkedNodes /\ k \in NodesOf(g) /\ k \in Lonely(g)
      first == IF Goes(cut, a) THEN WithoutNode(cut, a) ELSE cut
  IN
  /\ {a, b} \subseteq NodesOf(adjacencyLists)
  /\ Goes(cut, a) => CanRemove(cut, a)
  /\ Goes(first, b) => CanRemove(first, b)
  /\ adjacencyLists' = IF Goes(first, b) THEN WithoutNode(first, b) ELSE first
  /\ ClearDijkstra
  /\ UNCHANGED allow_unlinkedNodes

Clear ==
  /\ adjacencyLists' = <<>>
  /\ ClearDijkstra
  /\ UNCHANGED allow_unlinkedNodes

-------------------------------------------------------------------------------
(* The search.                                                             *)

\* Slip: the first of the open nodes.
FirstOpen(open) == CHOOSE k \in DOMAIN open : \A j \in DOMAIN open : k <= j

\* What the heap has at its top: of equals the one that was pushed first.
LeastOpen(open) ==
  CHOOSE k \in DOMAIN open : \A j \in DOMAIN open :
    open[k] < open[j] \/ (open[k] = open[j] /\ k <= j)

\* A row of the search: the current node's connections are looked at, what they
\* lower is lowered in this row and those below, and the next node is chosen.
Row(g, row, search) ==
  LET weight(k) == search.weight + g[search.node][k]
      lower == {k \in DOMAIN g[search.node] : weight(k) < search.cost[<<row, k>>]}
      cost == [p \in DOMAIN search.cost |->
                 IF p[1] >= row /\ p[2] \in lower THEN weight(p[2])
                                                  ELSE search.cost[p]]
      open == [k \in lower \cup DOMAIN search.open |->
                 IF k \in lower THEN weight(k) ELSE search.open[k]]
      next == LeastOpen(open)
  IN IF DOMAIN open = {} THEN [search EXCEPT !.cost = cost, !.node = NoNode]
     ELSE [node |-> next, weight |-> open[next], cost |-> cost,
           least |-> (row :> next) @@ search.least,
           open |-> [k \in DOMAIN open \ {next} |-> open[k]]]

\* The search in g from a start: the matrix, and the node chosen in each row.
Dijkstra(g, start) ==
  LET first == [node |-> start, weight |-> 0, least |-> <<>>, open |-> <<>>,
                cost |-> [p \in Rows(g) \X NodesOf(g) |->
                            IF p[2] = start THEN 0 ELSE INFINITE_WEIGHT]]
      after[n \in Rows(g)] ==
        IF n = 0 THEN first
        ELSE LET before == after[n - 1]
             IN IF before.node = NoNode THEN before ELSE Row(g, n - 1, before)
  IN after[Cardinality(NodesOf(g)) - 1]

GenerateDisjktraMatrix(start) ==
  LET search == Dijkstra(adjacencyLists, start) IN
  /\ costMatrix' = search.cost /\ leastNodeArray' = search.least
  /\ isValidPath' = TRUE /\ rootNode' = start
  /\ known' = adjacencyLists
  /\ late' = 0

\* From the last row upwards: where an entry has changed is the node before it.
Backwards(end) ==
  LET to[row \in 0 .. Size - 2, node \in Nodes, weight \in 0 .. INFINITE_WEIGHT] ==
        LET same == costMatrix[<<row, node>>] = weight
            before == leastNodeArray[row]
        IN CASE row = 0 /\ same -> <<rootNode, node>>
             [] row = 0 /\ ~same -> <<rootNode, before, node>>
             [] row > 0 /\ same -> to[row - 1, node, weight]
             [] row > 0 /\ ~same ->
                  Append(to[row, before, costMatrix[<<row, before>>]], node)
  IN to[Size - 3, end, costMatrix[<<Size - 2, end>>]]

\* A question is asked from a node of the graph.  The matrix that the last one
\* from there has made is used again.
Ask(start) ==
  /\ start \in NodesOf(adjacencyLists)
  /\ ~(isValidPath /\ rootNode = start)
  /\ GenerateDisjktraMatrix(start)
  /\ UNCHANGED <<allow_unlinkedNodes, adjacencyLists>>

\* No node has been added since the matrix was made.
Usable == isValidPath /\ NodesOf(known) = NodesOf(adjacencyLists)

\* What GetShortestPath from the root of the matrix returns.
GetShortestPath(end) ==
  CASE rootNode = end -> <<rootNode, end>>
    [] rootNode # end /\ (Size < 2 \/ end \notin NodesOf(adjacencyLists)) -> <<>>
    [] rootNode # end /\ Size = 2 /\ end \in NodesOf(adjacencyLists) ->
         <<rootNode, end>>
    [] rootNode # end /\ Size > 2 /\ end \in NodesOf(adjacencyLists) ->
         IF costMatrix[<<Size - 2, end>>] = INFINITE_WEIGHT THEN <<>>
         ELSE Backwards(end)

-------------------------------------------------------------------------------
(* The tree.                                                               *)

Pairs(path) == {{path[i], path[i + 1]} : i \in 1 .. Len(path) - 1}

\* Slip: the walk down the tree goes on where it came from.
Anywhere(branch, node) == node # Ext!Last(branch)

\* To a node that is not the parent.
Onwards(branch, node) == Len(branch) = 1 \/ node # branch[Len(branch) - 1]

\* The tree, as the branches that lead to its nodes, level by level.
Tree(pairs) ==
  LET level[n \in 0 .. Size] ==
        IF n = 0 THEN {<<rootNode>>}
        ELSE {Append(b, k) : <<b, k>> \in
                {c \in level[n - 1] \X Nodes :
                   {Ext!Last(c[1]), c[2]} \in pairs /\ Onwards(c[1], c[2])}}
  IN UNION {level[n] : n \in 0 .. Size}

\* GetSpanningTree from the root to some other nodes, over the paths that the calls of
\* GetShortestPath return; its result is false where the tree is the root alone.
GetSpanningTree(inputNodes, path) ==
  Tree(UNION {Pairs(path[k]) : k \in inputNodes})

\* Connections go both ways: the order of their nodes does not matter.
Next ==
  \/ \E a \in Nodes : AddNode(a) \/ RemoveNode(a) \/ Ask(a)
  \/ \E a, b \in Nodes :
       /\ a < b
       /\ \/ RemoveConnection(a, b)
          \/ \E weight \in Weights : AddConnection(a, b, weight)
  \/ Clear

Spec == Init /\ [][Next]_vars

-------------------------------------------------------------------------------
(* Properties.                                                             *)

\* How far it is from start in the graph g by at most so many connections.
Distance(g, start, most) ==
  LET far[n \in 0 .. most] ==
        IF n = 0 THEN [k \in NodesOf(g) |-> IF k = start THEN 0 ELSE INFINITE_WEIGHT]
        ELSE LET before == far[n - 1]
                 ways(k) == {before[k]} \cup {before[j] + g[j][k] : j \in DOMAIN g[k]}
             IN [k \in NodesOf(g) |->
                   CHOOSE w \in ways(k) : \A v \in ways(k) : w <= v]
  IN far[most]

Length(g, path) ==
  LET sum[n \in 1 .. Len(path)] ==
        IF n = 1 THEN 0 ELSE sum[n - 1] + g[path[n - 1]][path[n]]
  IN sum[Len(path)]

\* A walk over connections that were there for the search and are there still, as
\* long as the way to its end is.
Shortest(path, distance) ==
  /\ path[1] = rootNode
  /\ \A i \in 1 .. Len(path) - 1 :
       /\ HasConnection(known, path[i], path[i + 1])
       /\ HasConnection(adjacencyLists, path[i], path[i + 1])
  /\ Length(known, path) = distance[Ext!Last(path)]

\* A path is a shortest one in the graph that was searched, goes over connections
\* that are there still, and is found if there is one; except that of two nodes
\* the one is always said to lead to the other (lines 226-302, 396-501).
PathsAreShortest ==
  Usable /\ Size > 2 =>
    \A end \in NodesOf(known) \ {rootNode},
       distance \in {Distance(known, rootNode, Size)} :
      LET path == GetShortestPath(end) IN
      IF path = <<>> THEN distance[end] = INFINITE_WEIGHT
      ELSE Shortest(path, distance) /\ Ext!Last(path) = end

\* The tree has each of its nodes once, at the end of a shortest path, leads to all
\* the nodes it was asked for that can be reached, and ends in such nodes only
\* (lines 330-393).
TreeSpans ==
  Usable /\ Size > 2 =>
    \A inputNodes \in SUBSET (NodesOf(known) \ {rootNode}),
       distance \in {Distance(known, rootNode, Size)},
       path \in {[k \in NodesOf(known) |-> GetShortestPath(k)]} :
      LET tree == GetSpanningTree(inputNodes, path)
          ends == {Ext!Last(b) : b \in tree}
      IN
      /\ \A b \in tree : Shortest(b, distance)
      /\ Cardinality(ends) = Cardinality(tree)
      /\ {k \in inputNodes : distance[k] < INFINITE_WEIGHT} \subseteq ends
      /\ \A b \in tree :
           \/ Ext!Last(b) \in inputNodes \cup {rootNode}
           \/ \E c \in tree : Ext!IsStrictPrefix(b, c)

\* What is found is shortest: the two above.
ShortestFound == PathsAreShortest /\ TreeSpans

===============================================================================
