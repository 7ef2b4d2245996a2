--------------------------- MODULE CitationGraph ---------------------------
(***************************************************************************)
(* expand (citation_graph.rs): a breadth-first walk of OpenAlex's          *)
(* referenced_works from a seed, within three caps.  Every work that is    *)
(* taken from the queue is asked for once; a request that fails, an answer *)
(* that is not JSON, a list that is too long, a cap that is reached all    *)
(* set truncated, and the walk goes on with what it has.                   *)
(*                                                                         *)
(* A work's references are gone through one at a time (enqueue_children).  *)
(***************************************************************************)
EXTENDS Integers, Sequences, FiniteSets

CONSTANTS
  Works, Seed,
  Worlds,        \* what OpenAlex may know: work -> its referenced_works
  Requests,      \* caps a caller may ask for: [depth, total, per_paper]
  MAX_DEPTH, MAX_TOTAL, MAX_PER_PAPER

ASSUME GraphAssumption ==
  /\ Seed \in Works
  /\ Worlds \subseteq [Works -> Seq(Works)]
  /\ Requests \subseteq [depth : Nat, total : Nat, per_paper : Nat]
  /\ MAX_DEPTH \in Nat /\ MAX_TOTAL \in Nat /\ MAX_PER_PAPER \in Nat

VARIABLES
  cites,      \* the world
  openalex,   \* profile.metadata.openalex
  wanted,     \* the caps asked for
  walk,       \* where the call is: "idle", "seed", "pop", "children", "done", "failed"
  nodes,      \* the works visited
  depth,      \* work -> the depth of its node
  edges,
  queue,
  truncated,
  parent,     \* the work whose references are gone through
  next        \* the next of them

graphVars == <<cites, openalex, wanted, walk, nodes, depth, edges, queue, truncated, parent, next>>
graphWorld == <<cites, openalex, wanted>>

AtMost(a, b) == IF a < b THEN a ELSE b

\* GraphCaps::clamped; zero is left as it is.
caps == [depth     |-> AtMost(wanted.depth, MAX_DEPTH),
         total     |-> AtMost(wanted.total, MAX_TOTAL),
         per_paper |-> AtMost(wanted.per_paper, MAX_PER_PAPER)]

GraphInit ==
  /\ cites = [w \in Works |-> <<>>] /\ openalex = FALSE
  /\ wanted = [depth |-> 0, total |-> 0, per_paper |-> 0]
  /\ walk = "idle" /\ nodes = {} /\ depth = [w \in Works |-> 0] /\ edges = {}
  /\ queue = <<>> /\ truncated = FALSE /\ parent = Seed /\ next = 1

\* A call, in some world, of a profile that may have the capability.
Expand ==
  /\ walk = "idle" /\ walk' = "seed"
  /\ cites' \in Worlds /\ openalex' \in BOOLEAN /\ wanted' \in Requests
  /\ UNCHANGED <<nodes, depth, edges, queue, truncated, parent, next>>

\* enqueue_children is entered: a list longer than the cap is cut.
Enter(w) ==
  /\ parent' = w /\ next' = 1 /\ walk' = "children"
  /\ truncated' = (truncated \/ Len(cites[w]) > caps.per_paper)

\* Without the capability, with a source that fails, or for a seed OpenAlex does
\* not index, there is no graph; otherwise the seed's own references are gone
\* through, at whatever depth was asked for.
FetchSeed ==
  /\ walk = "seed"
  /\ \/ walk' = "failed" /\ UNCHANGED <<nodes, truncated, parent, next>>
     \/ openalex /\ nodes' = {Seed} /\ Enter(Seed)
  /\ UNCHANGED <<graphWorld, depth, edges, queue>>

\* Mutant: a list cut by the node cap passes for the whole.
ChildQuiet ==
  /\ walk = "children" /\ next <= AtMost(Len(cites[parent]), caps.per_paper)
  /\ LET child == cites[parent][next]
         full == Cardinality(nodes) >= caps.total
     IN \/ /\ child \in nodes
           /\ edges' = edges \cup {<<parent, child>>} /\ next' = next + 1
           /\ UNCHANGED <<nodes, depth, queue, truncated, walk>>
        \/ /\ child \notin nodes /\ full
           /\ walk' = "pop" /\ UNCHANGED <<nodes, depth, edges, queue, next, truncated>>
        \/ /\ child \notin nodes /\ ~full
           /\ nodes' = nodes \cup {child}
           /\ depth' = [depth EXCEPT ![child] = depth[parent] + 1]
           /\ edges' = edges \cup {<<parent, child>>}
           /\ queue' = Append(queue, child) /\ next' = next + 1
           /\ UNCHANGED <<truncated, walk>>
  /\ UNCHANGED <<graphWorld, parent>>

\* One reference: an edge to a node there already is, or a new node, or the end
\* of the list when there are as many nodes as there may be.
Child ==
  /\ walk = "children" /\ next <= AtMost(Len(cites[parent]), caps.per_paper)
  /\ LET child == cites[parent][next]
         full == Cardinality(nodes) >= caps.total
     IN \/ /\ child \in nodes
           /\ edges' = edges \cup {<<parent, child>>} /\ next' = next + 1
           /\ UNCHANGED <<nodes, depth, queue, truncated, walk>>
        \/ /\ child \notin nodes /\ full
           /\ truncated' = TRUE /\ walk' = "pop" /\ UNCHANGED <<nodes, depth, edges, queue, next>>
        \/ /\ child \notin nodes /\ ~full
           /\ nodes' = nodes \cup {child}
           /\ depth' = [depth EXCEPT ![child] = depth[parent] + 1]
           /\ edges' = edges \cup {<<parent, child>>}
           /\ queue' = Append(queue, child) /\ next' = next + 1
           /\ UNCHANGED <<truncated, walk>>
  /\ UNCHANGED <<graphWorld, parent>>

ChildrenEnd ==
  /\ walk = "children" /\ next > AtMost(Len(cites[parent]), caps.per_paper)
  /\ walk' = "pop"
  /\ UNCHANGED <<graphWorld, nodes, depth, edges, queue, truncated, parent, next>>

\* Mutant: the walk goes on from the work that was found last.
PopLast ==
  /\ walk = "pop" /\ queue # <<>>
  /\ LET w == queue[Len(queue)] IN
     \/ /\ depth[w] >= caps.depth
        /\ queue' = SubSeq(queue, 1, Len(queue) - 1) /\ truncated' = TRUE /\ UNCHANGED <<walk, parent, next>>
     \/ /\ depth[w] < caps.depth /\ Cardinality(nodes) >= caps.total
        /\ queue' = <<>> /\ truncated' = TRUE /\ walk' = "done" /\ UNCHANGED <<parent, next>>
     \/ /\ depth[w] < caps.depth /\ Cardinality(nodes) < caps.total
        /\ queue' = SubSeq(queue, 1, Len(queue) - 1)
        /\ \/ truncated' = TRUE /\ UNCHANGED <<walk, parent, next>>
           \/ walk' = "failed" /\ UNCHANGED <<truncated, parent, next>>
           \/ Enter(w)
  /\ UNCHANGED <<graphWorld, nodes, depth, edges>>

\* The next work of the queue: too deep, or one too many, or asked for.  The
\* request may fail, or its answer not be JSON, which costs its references; an
\* answer whose row cannot be written ends the call.
Pop ==
  /\ walk = "pop" /\ queue # <<>>
  /\ LET w == Head(queue) IN
     \/ /\ depth[w] >= caps.depth
        /\ queue' = Tail(queue) /\ truncated' = TRUE /\ UNCHANGED <<walk, parent, next>>
     \/ /\ depth[w] < caps.depth /\ Cardinality(nodes) >= caps.total
        /\ queue' = <<>> /\ truncated' = TRUE /\ walk' = "done" /\ UNCHANGED <<parent, next>>
     \/ /\ depth[w] < caps.depth /\ Cardinality(nodes) < caps.total
        /\ queue' = Tail(queue)
        /\ \/ truncated' = TRUE /\ UNCHANGED <<walk, parent, next>>
           \/ walk' = "failed" /\ UNCHANGED <<truncated, parent, next>>
           \/ Enter(w)
  /\ UNCHANGED <<graphWorld, nodes, depth, edges>>

Finish ==
  /\ walk = "pop" /\ queue = <<>> /\ walk' = "done"
  /\ UNCHANGED <<graphWorld, nodes, depth, edges, queue, truncated, parent, next>>

Walk == FetchSeed \/ Child \/ ChildrenEnd \/ Pop \/ Finish
GraphNext == Expand \/ Walk

\* Requests are bounded by the client's timeouts.
GraphSpec == GraphInit /\ [][GraphNext]_graphVars /\ WF_graphVars(Walk)

-----------------------------------------------------------------------------
(* Properties.                                                             *)

References(w) == {cites[w][k] : k \in 1..Len(cites[w])}

GraphTypeOK ==
  /\ cites \in [Works -> Seq(Works)] /\ openalex \in BOOLEAN
  /\ wanted \in [depth : Nat, total : Nat, per_paper : Nat]
  /\ walk \in {"idle", "seed", "pop", "children", "done", "failed"}
  /\ nodes \subseteq Works /\ depth \in [Works -> Nat]
  /\ edges \subseteq nodes \X nodes
  /\ queue \in Seq(nodes)
  /\ truncated \in BOOLEAN /\ parent \in Works /\ next \in Nat \ {0}

\* "truncated": a result that does not say so is the whole graph below the seed,
\* every reference of every node and its edge, whatever requests failed and
\* whichever cap was met on the way.
CompleteUnlessTruncated ==
  walk = "done" /\ ~truncated =>
    /\ Seed \in nodes
    /\ \A u \in nodes : \A v \in References(u) : v \in nodes /\ <<u, v>> \in edges

\* The depth of a node is its distance from the seed over the edges of the
\* result: no edge skips a level, and every node but the seed has one from the
\* level above it.
DepthIsDistance ==
  /\ \A e \in edges : depth[e[2]] <= depth[e[1]] + 1
  /\ \A v \in nodes \ {Seed} : \E u \in nodes : <<u, v>> \in edges /\ depth[v] = depth[u] + 1

\* However the caps and the failures fall, there are never more nodes than were
\* asked for, apart from the seed.
NodesBounded == Cardinality(nodes) <= IF caps.total > 1 THEN caps.total ELSE 1

\* "Depth 0 is the seed only."
NoDeeperThanAsked == \A w \in nodes : depth[w] <= wanted.depth

\* The walk ends, in a cyclic world too.
WalkEnds == (walk = "seed") ~> (walk \in {"done", "failed"})
=============================================================================
