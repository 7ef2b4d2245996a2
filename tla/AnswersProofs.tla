--------------------------- MODULE AnswersProofs ---------------------------
(***************************************************************************)
(* Proofs about parts that share no state, each for every value of its     *)
(* constants: the walk of CitationGraph, the files of Caches, the          *)
(* migration of LogMigration, the citations of Software, the searches of   *)
(* Discovery, the adapters of Bibliography, the surfaces of Settings, the  *)
(* refusals of RepeatIndex and the parser of PaperText.                    *)
(***************************************************************************)
EXTENDS CitationGraph, Caches, LogMigration, Software, Discovery, Bibliography, Settings,
        RepeatIndex, PaperText, FiniteSetTheorems, SequenceTheorems, WellFoundedInduction, TLAPS

-----------------------------------------------------------------------------
(***************************************************************************)
(* The citation graph.  Shape says what the queue and the parent are made  *)
(* of.  On it rest Accounted, that a work which is not expanded is still   *)
(* to be expanded unless the result is marked truncated, and Levels, that  *)
(* the queue is sorted by depth and spans two levels, which is what makes  *)
(* the walk breadth-first.                                                 *)
(***************************************************************************)

Walking == {"pop", "children", "done"}

Shape ==
  /\ cites \in [Works -> Seq(Works)] /\ wanted \in [depth : Nat, total : Nat, per_paper : Nat]
  /\ walk \in {"idle", "seed", "pop", "children", "done", "failed"}
  /\ nodes \subseteq Works /\ depth \in [Works -> Nat] /\ depth[Seed] = 0
  /\ queue \in Seq(Works) /\ \A i \in 1..Len(queue) : queue[i] \in nodes
  /\ parent \in Works /\ next \in Nat \ {0} /\ truncated \in BOOLEAN
  /\ edges \subseteq nodes \X nodes
  /\ walk \in {"idle", "seed"} => nodes = {} /\ queue = <<>>
  /\ walk \in Walking => Seed \in nodes /\ parent \in nodes

Expanded(u) == \A k \in 1..Len(cites[u]) : cites[u][k] \in nodes /\ <<u, cites[u][k]>> \in edges
Queued(u) == \E i \in 1..Len(queue) : queue[i] = u

Accounted ==
  /\ walk \in Walking /\ ~truncated =>
       \A u \in nodes : Expanded(u) \/ Queued(u) \/ (walk = "children" /\ u = parent)
  /\ walk = "children" /\ ~truncated =>
       /\ Len(cites[parent]) <= caps.per_paper
       /\ \A k \in 1..Len(cites[parent]) :
            k < next => cites[parent][k] \in nodes /\ <<parent, cites[parent][k]>> \in edges
  /\ walk = "done" /\ ~truncated => queue = <<>>

Levels ==
  /\ DepthIsDistance
  /\ walk \in Walking =>
       /\ \A v \in nodes : depth[v] <= depth[parent] + 1
       /\ \A i \in 1..Len(queue) : depth[parent] <= depth[queue[i]]
       /\ \A i, j \in 1..Len(queue) : i <= j => depth[queue[i]] <= depth[queue[j]]

-----------------------------------------------------------------------------
(* Queues.                                                                 *)

\* A work that is enqueued comes after the others.
LEMMA Enqueued ==
  ASSUME NEW S, NEW q \in Seq(S), NEW x \in S
  PROVE  /\ Append(q, x) \in Seq(S) /\ Len(q) \in Nat /\ Len(Append(q, x)) = Len(q) + 1
         /\ \A i \in 1..Len(q) : Append(q, x)[i] = q[i]
         /\ Append(q, x)[Len(q) + 1] = x
  OBVIOUS

\* The work that is taken from the queue is the first; the others move up.
LEMMA Dequeued ==
  ASSUME NEW S, NEW q \in Seq(S), q # <<>>
  PROVE  /\ Tail(q) \in Seq(S) /\ Len(q) \in Nat /\ Len(q) >= 1 /\ Len(Tail(q)) = Len(q) - 1
         /\ Head(q) = q[1] /\ Head(q) \in S
         /\ \A i \in 1..Len(Tail(q)) : Tail(q)[i] = q[i + 1]
  OBVIOUS

\* A request's caps are numbers, and a list cut by one is no longer than it was.
LEMMA Caps ==
  ASSUME Shape
  PROVE  /\ caps.per_paper \in Nat
         /\ \A w \in Works : Len(cites[w]) \in Nat /\ AtMost(Len(cites[w]), caps.per_paper) \in Nat
                             /\ AtMost(Len(cites[w]), caps.per_paper) <= Len(cites[w])
                             /\ (Len(cites[w]) <= caps.per_paper => AtMost(Len(cites[w]), caps.per_paper) = Len(cites[w]))
<1>1. wanted.per_paper \in Nat /\ MAX_PER_PAPER \in Nat
  BY GraphAssumption DEF Shape
<1>2. caps.per_paper = AtMost(wanted.per_paper, MAX_PER_PAPER)
  BY DEF caps
<1>3. caps.per_paper \in Nat
  BY <1>1, <1>2 DEF AtMost
<1>4. \A w \in Works : cites[w] \in Seq(Works)
  BY DEF Shape
<1>5. \A w \in Works : Len(cites[w]) \in Nat
  BY <1>4
<1> QED
  BY <1>3, <1>5 DEF AtMost

-----------------------------------------------------------------------------
(* The shape of the walk.                                                  *)

\* A walk that has not begun has no nodes.
LEMMA ShapeInit == GraphInit => Shape
<1> SUFFICES ASSUME GraphInit PROVE Shape
  OBVIOUS
<1>1. <<>> \in Seq(Works) /\ Len(<<>>) = 0
  OBVIOUS
<1>2. cites \in [Works -> Seq(Works)] /\ depth \in [Works -> Nat] /\ depth[Seed] = 0
  BY <1>1, GraphAssumption DEF GraphInit
<1>3. queue \in Seq(Works) /\ \A i \in 1..Len(queue) : queue[i] \in nodes
  BY <1>1 DEF GraphInit
<1>4. wanted \in [depth : Nat, total : Nat, per_paper : Nat]
  BY DEF GraphInit
<1>5. edges \subseteq nodes \X nodes /\ nodes \subseteq Works
  BY DEF GraphInit
<1>6. walk = "idle" /\ parent \in Works /\ next \in Nat \ {0}
  BY GraphAssumption DEF GraphInit
<1>7. nodes = {} /\ queue = <<>>
  BY DEF GraphInit
<1>8. truncated \in BOOLEAN
  BY DEF GraphInit
<1>9. walk \notin Walking
  BY <1>6 DEF Walking
<1> QED
  BY <1>2, <1>3, <1>4, <1>5, <1>6, <1>7, <1>8, <1>9 DEF Shape

\* One step of the walk keeps the queue among the nodes, the parent too.
LEMMA ShapeStep == Shape /\ [GraphNext]_graphVars => Shape'
<1> SUFFICES ASSUME Shape, [GraphNext]_graphVars PROVE Shape'
  OBVIOUS
<1> USE GraphAssumption DEF Shape, Walking, graphWorld
<1>1. CASE Expand
  <2>1. /\ cites' \in [Works -> Seq(Works)] /\ wanted' \in [depth : Nat, total : Nat, per_paper : Nat]
    BY <1>1, GraphAssumption DEF Expand
  <2>2. walk = "idle" /\ walk' = "seed" /\ UNCHANGED <<nodes, depth, edges, queue, truncated, parent, next>>
    BY <1>1 DEF Expand
  <2>3. walk' \notin Walking /\ nodes' = {} /\ queue' = <<>>
    BY <2>2
  <2> QED
    BY <2>1, <2>2, <2>3
<1>2. CASE FetchSeed
  <2>1. UNCHANGED <<cites, wanted, depth, edges, queue>> /\ nodes = {} /\ queue = <<>>
    BY <1>2 DEF FetchSeed
  <2>2. edges = {} /\ Len(queue) = 0
    BY <2>1
  <2>3. CASE walk' = "failed" /\ UNCHANGED <<nodes, truncated, parent, next>>
    BY <2>1, <2>2, <2>3
  <2>4. CASE openalex /\ nodes' = {Seed} /\ Enter(Seed)
    <3>1. truncated' \in BOOLEAN
      BY <2>4 DEF Enter
    <3> QED
      BY <2>1, <2>2, <2>4, <3>1 DEF Enter
  <2> QED
    BY <1>2, <2>3, <2>4 DEF FetchSeed
<1>3. CASE Child
  <2> DEFINE child == cites[parent][next]
  <2>1. next \in 1..Len(cites[parent])
    BY <1>3, Caps DEF Child
  <2>2. child \in Works
    BY <2>1
  <2>3. CASE child \in nodes /\ edges' = edges \cup {<<parent, child>>} /\ next' = next + 1
             /\ UNCHANGED <<nodes, depth, queue, truncated, walk>>
    <3>1. edges' \subseteq nodes' \X nodes' /\ next' \in Nat \ {0}
      BY <1>3, <2>3 DEF Child
    <3> QED
      BY <1>3, <2>3, <3>1 DEF Child
  <2>4. CASE truncated' = TRUE /\ walk' = "pop" /\ UNCHANGED <<nodes, depth, edges, queue, next>>
    BY <1>3, <2>4 DEF Child
  <2>5. CASE /\ child \notin nodes /\ nodes' = nodes \cup {child}
             /\ depth' = [depth EXCEPT ![child] = depth[parent] + 1]
             /\ edges' = edges \cup {<<parent, child>>}
             /\ queue' = Append(queue, child) /\ next' = next + 1 /\ UNCHANGED <<truncated, walk>>
    <3>1. /\ queue' \in Seq(Works) /\ Len(queue) \in Nat /\ Len(queue') = Len(queue) + 1
          /\ \A i \in 1..Len(queue) : queue'[i] = queue[i]
          /\ queue'[Len(queue) + 1] = child
      BY <2>2, <2>5, Enqueued
    <3>2. \A i \in 1..Len(queue') : queue'[i] \in nodes'
      <4> SUFFICES ASSUME NEW i \in 1..Len(queue') PROVE queue'[i] \in nodes'
        OBVIOUS
      <4>1. i \in 1..Len(queue) \/ i = Len(queue) + 1
        BY <3>1
      <4> QED
        BY <2>5, <3>1, <4>1
    <3>3. child # Seed /\ depth' \in [Works -> Nat] /\ depth'[Seed] = 0
      BY <1>3, <2>2, <2>5 DEF Child
    <3>4. edges' \subseteq nodes' \X nodes' /\ nodes' \subseteq Works
      BY <1>3, <2>2, <2>5 DEF Child
    <3>5. walk = "children" /\ walk' = walk /\ truncated' = truncated /\ parent' = parent /\ UNCHANGED <<cites, wanted>>
          /\ next' \in Nat \ {0} /\ Seed \in nodes' /\ parent \in nodes'
      BY <1>3, <2>5 DEF Child
    <3> QED
      BY <3>1, <3>2, <3>3, <3>4, <3>5
  <2> QED
    BY <1>3, <2>3, <2>4, <2>5 DEF Child
<1>4. CASE ChildrenEnd
  BY <1>4 DEF ChildrenEnd
<1>5. CASE Pop
  <2>1. /\ Tail(queue) \in Seq(Works) /\ Head(queue) \in nodes
        /\ \A i \in 1..Len(Tail(queue)) : Tail(queue)[i] \in nodes
    BY <1>5, Dequeued DEF Pop
  <2>2. UNCHANGED <<cites, wanted, nodes, depth, edges>> /\ Seed \in nodes
    BY <1>5 DEF Pop
  <2>6. walk' \in {"pop", "done", "failed", "children"}
    BY <1>5 DEF Pop, Enter
  <2>7. parent' \in nodes /\ next' \in Nat \ {0}
    BY <1>5, <2>1 DEF Pop, Enter
  <2>8. truncated' \in BOOLEAN
    BY <1>5 DEF Pop, Enter
  <2>3. queue' \in {Tail(queue), <<>>}
    BY <1>5 DEF Pop
  <2>4. CASE queue' = <<>>
    <3>1. queue' \in Seq(Works) /\ Len(queue') = 0
      BY <2>4
    <3> QED
      BY <2>2, <2>6, <2>7, <2>8, <3>1
  <2>5. CASE queue' = Tail(queue)
    BY <2>1, <2>2, <2>5, <2>6, <2>7, <2>8
  <2> QED
    BY <2>3, <2>4, <2>5
<1>6. CASE Finish
  BY <1>6 DEF Finish
<1>7. CASE UNCHANGED graphVars
  BY <1>7 DEF graphVars
<1> QED
  BY <1>1, <1>2, <1>3, <1>4, <1>5, <1>6, <1>7 DEF GraphNext, Walk

-----------------------------------------------------------------------------
(* What is not expanded is still to be, or the result says so.             *)

LEMMA AccountedInit == GraphInit => Accounted
  BY DEF GraphInit, Accounted, Walking

\* One reference of the parent: the parent gets on by one, the other nodes stay
\* expanded or queued, and a new node is queued.
LEMMA AccountedChild == Shape /\ Accounted /\ Child => Accounted'
<1> SUFFICES ASSUME Shape, Accounted, Child PROVE Accounted'
  OBVIOUS
<1> DEFINE child == cites[parent][next]
<1>1. next \in 1..Len(cites[parent]) /\ parent \in Works /\ parent \in nodes
  BY Caps DEF Child, Shape, Walking
<1>2. child \in Works
  BY <1>1 DEF Shape
<1>3. walk = "children" /\ UNCHANGED <<cites, wanted, parent>> /\ caps' = caps
  BY DEF Child, graphWorld, caps
<1>4. CASE truncated' = TRUE
  BY <1>4 DEF Accounted
<1>5. CASE /\ nodes \subseteq nodes' /\ child \in nodes' /\ edges' = edges \cup {<<parent, child>>}
           /\ next' = next + 1 /\ UNCHANGED <<truncated, walk>> /\ nodes' \subseteq nodes \cup {child}
           /\ \A u : Queued(u) => Queued(u)'
           /\ child \in nodes \/ \E i \in 1..Len(queue') : queue'[i] = child
  <2> SUFFICES ASSUME ~truncated PROVE Accounted'
    BY <1>3, <1>5 DEF Accounted
  <2>1. \A u \in Works : Expanded(u) => Expanded(u)'
    BY <1>3, <1>5 DEF Expanded
  <2>2. \A u \in nodes' : Expanded(u)' \/ Queued(u)' \/ u = parent'
    <3> SUFFICES ASSUME NEW u \in nodes' PROVE Expanded(u)' \/ Queued(u)' \/ u = parent'
      OBVIOUS
    <3>1. CASE u \in nodes
      <4>1. Expanded(u) \/ Queued(u) \/ u = parent
        BY <1>3, <3>1 DEF Accounted, Walking
      <4>2. u \in Works
        BY <3>1 DEF Shape
      <4> QED
        BY <1>3, <1>5, <2>1, <4>1, <4>2
    <3>2. CASE u = child /\ u \notin nodes
      BY <1>5, <3>2 DEF Queued
    <3> QED
      BY <1>5, <3>1, <3>2
  <2>3. \A k \in 1..Len(cites[parent]) :
          k < next + 1 => cites[parent][k] \in nodes' /\ <<parent, cites[parent][k]>> \in edges'
    <3> SUFFICES ASSUME NEW k \in 1..Len(cites[parent]), k < next + 1
                 PROVE  cites[parent][k] \in nodes' /\ <<parent, cites[parent][k]>> \in edges'
      OBVIOUS
    <3>1. k < next \/ k = next
      BY <1>1 DEF Shape
    <3> QED
      BY <1>3, <1>5, <3>1 DEF Accounted
  <2>4. Len(cites[parent]) <= caps.per_paper
    BY <1>3 DEF Accounted
  <2> QED
    BY <1>3, <1>5, <2>2, <2>3, <2>4 DEF Accounted
<1>6. CASE child \in nodes /\ edges' = edges \cup {<<parent, child>>} /\ next' = next + 1
           /\ UNCHANGED <<nodes, depth, queue, truncated, walk>>
  BY <1>5, <1>6 DEF Queued
<1>7. CASE /\ child \notin nodes /\ nodes' = nodes \cup {child}
           /\ edges' = edges \cup {<<parent, child>>}
           /\ queue' = Append(queue, child) /\ next' = next + 1 /\ UNCHANGED <<truncated, walk>>
  <2>1. /\ Len(queue) \in Nat /\ Len(queue') = Len(queue) + 1
        /\ \A i \in 1..Len(queue) : queue'[i] = queue[i]
        /\ queue'[Len(queue) + 1] = child
    BY <1>2, <1>7, Enqueued DEF Shape
  <2>2. \A u : Queued(u) => Queued(u)'
    BY <2>1 DEF Queued
  <2>3. \E i \in 1..Len(queue') : queue'[i] = child
    BY <2>1
  <2> QED
    BY <1>5, <1>7, <2>2, <2>3
<1> QED
  BY <1>3, <1>4, <1>6, <1>7 DEF Child

\* The first work of the queue: given up and marked, or made the parent.
LEMMA AccountedPop == Shape /\ Accounted /\ Pop => Accounted'
<1> SUFFICES ASSUME Shape, Accounted, Pop PROVE Accounted'
  OBVIOUS
<1> DEFINE w == Head(queue)
<1>1. walk = "pop" /\ UNCHANGED <<cites, wanted, nodes, edges>> /\ caps' = caps
  BY DEF Pop, graphWorld, caps
<1>2. CASE truncated' = TRUE
  BY <1>2 DEF Accounted
<1>3. CASE walk' = "failed"
  BY <1>3 DEF Accounted, Walking
<1>4. CASE queue' = Tail(queue) /\ Enter(w)
  <2> SUFFICES ASSUME ~truncated' PROVE Accounted'
    BY DEF Accounted
  <2>1. ~truncated /\ ~(Len(cites[w]) > caps.per_paper) /\ parent' = w /\ next' = 1 /\ walk' = "children"
    BY <1>4 DEF Enter
  <2>2. /\ Len(queue) \in Nat /\ Len(queue) >= 1 /\ Len(Tail(queue)) = Len(queue) - 1 /\ w = queue[1] /\ w \in Works
        /\ \A i \in 1..Len(Tail(queue)) : Tail(queue)[i] = queue[i + 1]
    BY Dequeued DEF Pop, Shape
  <2>3. \A u \in nodes : Expanded(u) => Expanded(u)'
    BY <1>1 DEF Expanded
  <2>4. \A u \in nodes : Queued(u) => Queued(u)' \/ u = w
    <3> SUFFICES ASSUME NEW u \in nodes, NEW i \in 1..Len(queue), queue[i] = u, u # w PROVE Queued(u)'
      BY DEF Queued
    <3>1. i # 1
      BY <2>2
    <3>2. i - 1 \in 1..Len(Tail(queue)) /\ Tail(queue)[i - 1] = queue[i]
      BY <2>2, <3>1
    <3>3. \E j \in 1..Len(queue') : queue'[j] = u
      BY <1>4, <3>2
    <3> QED
      BY <3>3 DEF Queued
  <2>5. \A u \in nodes' : Expanded(u)' \/ Queued(u)' \/ u = parent'
    BY <1>1, <2>1, <2>3, <2>4 DEF Accounted, Walking
  <2>6. Len(cites[w]) <= caps.per_paper
    BY <2>1, <2>2, Caps
  <2> QED
    BY <1>1, <2>1, <2>5, <2>6 DEF Accounted
<1> QED
  BY <1>2, <1>3, <1>4 DEF Pop

\* Every step keeps the account.
LEMMA AccountedStep == Shape /\ Accounted /\ [GraphNext]_graphVars => Accounted'
<1> SUFFICES ASSUME Shape, Accounted, [GraphNext]_graphVars PROVE Accounted'
  OBVIOUS
<1>1. CASE Expand
  BY <1>1 DEF Expand, Accounted, Walking
<1>2. CASE FetchSeed
  <2>1. CASE walk' = "failed"
    BY <2>1 DEF Accounted, Walking
  <2>2. CASE nodes' = {Seed} /\ Enter(Seed)
    <3>1. cites' = cites /\ caps' = caps /\ parent' = Seed /\ next' = 1 /\ walk' = "children"
      BY <1>2, <2>2 DEF FetchSeed, Enter, graphWorld, caps
    <3>2. ~truncated' => Len(cites[Seed]) <= caps.per_paper
      <4>1. ~truncated' => ~(Len(cites[Seed]) > caps.per_paper)
        BY <2>2, Zenon DEF Enter
      <4> QED
        BY <4>1, Caps, GraphAssumption
    <3> QED
      BY <2>2, <3>1, <3>2 DEF Accounted
  <2> QED
    BY <1>2, <2>1, <2>2 DEF FetchSeed
<1>3. CASE Child
  BY <1>3, AccountedChild
<1>4. CASE ChildrenEnd
  <2>1. walk = "children" /\ walk' = "pop" /\ UNCHANGED <<cites, wanted, nodes, edges, queue, truncated, parent, next>>
    BY <1>4 DEF ChildrenEnd, graphWorld
  <2> SUFFICES ASSUME ~truncated PROVE Accounted'
    BY <2>1 DEF Accounted
  <2>2. \A k \in 1..Len(cites[parent]) : k < next
    <3>1. Len(cites[parent]) <= caps.per_paper
      BY <2>1 DEF Accounted
    <3>2. parent \in Works /\ next \in Nat
      BY DEF Shape
    <3>3. next > Len(cites[parent]) /\ Len(cites[parent]) \in Nat
      BY <1>4, <3>1, <3>2, Caps DEF ChildrenEnd
    <3> QED
      BY <3>2, <3>3
  <2>3. Expanded(parent)
    BY <2>1, <2>2 DEF Accounted, Expanded
  <2>4. \A u \in nodes : Expanded(u) \/ Queued(u)
    BY <2>1, <2>3 DEF Accounted, Walking
  <2> QED
    BY <2>1, <2>4 DEF Accounted, Expanded, Queued
<1>5. CASE Pop
  BY <1>5, AccountedPop
<1>6. CASE Finish
  BY <1>6 DEF Finish, graphWorld, Accounted, Expanded, Queued, Walking
<1>7. CASE UNCHANGED graphVars
  BY <1>7 DEF graphVars, Accounted, Expanded, Queued, caps
<1> QED
  BY <1>1, <1>2, <1>3, <1>4, <1>5, <1>6, <1>7 DEF GraphNext, Walk

-----------------------------------------------------------------------------
(* The queue is sorted by depth.                                           *)

LEMMA LevelsInit == GraphInit => Levels
  BY DEF GraphInit, Levels, DepthIsDistance, Walking

\* A reference to a node is at most a level down, as every node is; a new node is
\* exactly a level down, and so at least as deep as all that is queued.
LEMMA LevelsChild == Shape /\ Levels /\ Child => Levels'
<1> SUFFICES ASSUME Shape, Levels, Child PROVE Levels'
  OBVIOUS
<1> DEFINE child == cites[parent][next]
<1>1. walk = "children" /\ walk \in Walking /\ parent' = parent
  BY DEF Child, Walking
<1>2. child \in Works /\ parent \in Works /\ parent \in nodes
  <2>1. next \in 1..Len(cites[parent])
    BY Caps DEF Child, Shape
  <2> QED
    BY <1>1, <2>1 DEF Shape
<1>3. CASE child \in nodes /\ edges' = edges \cup {<<parent, child>>} /\ next' = next + 1
           /\ UNCHANGED <<nodes, depth, queue, truncated, walk>>
  <2>1. depth[child] <= depth[parent] + 1
    BY <1>1, <1>3 DEF Levels
  <2>2. DepthIsDistance'
    <3>1. \A e \in edges' : depth'[e[2]] <= depth'[e[1]] + 1
      <4> SUFFICES ASSUME NEW e \in edges' PROVE depth[e[2]] <= depth[e[1]] + 1
        BY <1>3
      <4>1. CASE e \in edges
        BY <4>1 DEF Levels, DepthIsDistance
      <4>2. CASE e = <<parent, child>>
        <5>1. e[1] = parent /\ e[2] = child
          BY <4>2
        <5> QED
          BY <2>1, <5>1
      <4> QED
        BY <1>3, <4>1, <4>2
    <3>2. \A v \in nodes' \ {Seed} : \E u \in nodes' : <<u, v>> \in edges' /\ depth'[v] = depth'[u] + 1
      <4> SUFFICES ASSUME NEW v \in nodes \ {Seed}
                   PROVE  \E u \in nodes : <<u, v>> \in edges' /\ depth[v] = depth[u] + 1
        BY <1>3
      <4>1. PICK u \in nodes : <<u, v>> \in edges /\ depth[v] = depth[u] + 1
        BY DEF Levels, DepthIsDistance
      <4> QED
        BY <1>3, <4>1
    <3> QED
      BY <3>1, <3>2 DEF DepthIsDistance
  <2> QED
    BY <1>1, <1>3, <2>2 DEF Levels
<1>4. CASE walk' = "pop" /\ UNCHANGED <<nodes, depth, edges, queue, next>>
  BY <1>1, <1>4 DEF Levels, DepthIsDistance
<1>5. CASE /\ child \notin nodes /\ nodes' = nodes \cup {child}
           /\ depth' = [depth EXCEPT ![child] = depth[parent] + 1]
           /\ edges' = edges \cup {<<parent, child>>}
           /\ queue' = Append(queue, child) /\ UNCHANGED <<truncated, walk>>
  <2>1. /\ \A v \in nodes : v \in Works /\ depth'[v] = depth[v] /\ depth[v] \in Nat
        /\ depth'[child] = depth[parent] + 1
    BY <1>2, <1>5 DEF Shape
  <2>2. \A v \in nodes' : depth'[v] <= depth'[parent] + 1
    BY <1>1, <1>2, <1>5, <2>1 DEF Levels
  <2>3. DepthIsDistance'
    <3>1. \A e \in edges' : depth'[e[2]] <= depth'[e[1]] + 1
      <4> SUFFICES ASSUME NEW e \in edges' PROVE depth'[e[2]] <= depth'[e[1]] + 1
        OBVIOUS
      <4>1. CASE e \in edges
        <5>1. e[1] \in nodes /\ e[2] \in nodes
          BY <4>1 DEF Shape
        <5> QED
          BY <2>1, <4>1, <5>1 DEF Levels, DepthIsDistance
      <4>2. CASE e = <<parent, child>>
        BY <1>2, <2>1, <4>2
      <4> QED
        BY <1>5, <4>1, <4>2
    <3>2. \A v \in nodes' \ {Seed} : \E u \in nodes' : <<u, v>> \in edges' /\ depth'[v] = depth'[u] + 1
      <4> SUFFICES ASSUME NEW v \in nodes' \ {Seed}
                   PROVE  \E u \in nodes' : <<u, v>> \in edges' /\ depth'[v] = depth'[u] + 1
        OBVIOUS
      <4>1. CASE v \in nodes
        <5>1. PICK u \in nodes : <<u, v>> \in edges /\ depth[v] = depth[u] + 1
          BY <4>1 DEF Levels, DepthIsDistance
        <5> QED
          BY <1>5, <2>1, <4>1, <5>1
      <4>2. CASE v = child
        BY <1>2, <1>5, <2>1, <4>2
      <4> QED
        BY <1>5, <4>1, <4>2
    <3> QED
      BY <3>1, <3>2 DEF DepthIsDistance
  <2>4. /\ Len(queue) \in Nat /\ Len(queue') = Len(queue) + 1
        /\ \A i \in 1..Len(queue) : queue'[i] = queue[i] /\ queue[i] \in nodes
        /\ queue'[Len(queue) + 1] = child
    BY <1>2, <1>5, Enqueued DEF Shape
  <2>5. \A i \in 1..Len(queue) : depth'[queue'[i]] = depth[queue[i]] /\ depth[queue[i]] \in Nat
    BY <2>1, <2>4
  <2>6. depth'[queue'[Len(queue) + 1]] = depth[parent] + 1 /\ depth'[parent] = depth[parent] /\ depth[parent] \in Nat
    BY <1>2, <2>1, <2>4
  <2>7. \A i \in 1..Len(queue) : depth[parent] <= depth[queue[i]] /\ depth[queue[i]] <= depth[parent] + 1
    BY <1>1, <2>4 DEF Levels
  <2>8. \A i \in 1..Len(queue') : i \in 1..Len(queue) \/ i = Len(queue) + 1
    BY <2>4
  <2>9. \A i \in 1..Len(queue') : depth'[parent] <= depth'[queue'[i]]
    BY <2>5, <2>6, <2>7, <2>8
  <2>10. \A i, j \in 1..Len(queue') : i <= j => depth'[queue'[i]] <= depth'[queue'[j]]
    <3> SUFFICES ASSUME NEW i \in 1..Len(queue'), NEW j \in 1..Len(queue'), i <= j
                 PROVE  depth'[queue'[i]] <= depth'[queue'[j]]
      OBVIOUS
    <3>1. CASE j \in 1..Len(queue)
      <4>1. i \in 1..Len(queue)
        BY <2>4, <3>1
      <4>2. depth[queue[i]] <= depth[queue[j]]
        BY <1>1, <3>1, <4>1 DEF Levels
      <4> QED
        BY <2>5, <3>1, <4>1, <4>2
    <3>2. CASE j = Len(queue) + 1
      BY <2>5, <2>6, <2>7, <2>8, <3>2
    <3> QED
      BY <2>8, <3>1, <3>2
  <2> QED
    BY <1>1, <2>2, <2>3, <2>9, <2>10 DEF Levels
<1> QED
  BY <1>3, <1>4, <1>5 DEF Child

\* The first work of the queue is as deep as the last parent or deeper, and the
\* rest of the queue is as deep as it or deeper.
LEMMA LevelsPop == Shape /\ Levels /\ Pop => Levels'
<1> SUFFICES ASSUME Shape, Levels, Pop PROVE Levels'
  OBVIOUS
<1> DEFINE w == Head(queue)
<1>1. walk = "pop" /\ walk \in Walking /\ UNCHANGED <<nodes, depth, edges>>
  BY DEF Pop, Walking
<1>2. DepthIsDistance'
  BY <1>1 DEF Levels, DepthIsDistance
<1>3. /\ Len(queue) \in Nat /\ Len(queue) >= 1 /\ Len(Tail(queue)) = Len(queue) - 1 /\ w = queue[1]
      /\ \A i \in 1..Len(Tail(queue)) : Tail(queue)[i] = queue[i + 1]
  BY Dequeued DEF Pop, Shape
<1>4. /\ \A i \in 1..Len(Tail(queue)) : depth[parent] <= depth[Tail(queue)[i]] /\ depth[w] <= depth[Tail(queue)[i]]
      /\ \A i, j \in 1..Len(Tail(queue)) : i <= j => depth[Tail(queue)[i]] <= depth[Tail(queue)[j]]
  <2>1. \A i \in 1..Len(Tail(queue)) : i + 1 \in 1..Len(queue) /\ 1 <= i + 1
    BY <1>3
  <2>2. 1 \in 1..Len(queue)
    BY <1>3
  <2> QED
    BY <1>1, <1>3, <2>1, <2>2 DEF Levels
<1>5. depth[parent] <= depth[w] /\ depth[w] \in Nat /\ depth[parent] \in Nat /\ \A v \in nodes : depth[v] \in Nat
  BY <1>1, <1>3 DEF Levels, Shape
<1>6. CASE queue' = <<>> /\ UNCHANGED parent
  <2>1. Len(queue') = 0
    BY <1>6
  <2> QED
    BY <1>1, <1>2, <1>6, <2>1 DEF Levels
<1>7. CASE queue' = Tail(queue) /\ UNCHANGED parent
  BY <1>1, <1>2, <1>4, <1>7 DEF Levels
<1>8. CASE queue' = Tail(queue) /\ parent' = w
  <2>1. \A v \in nodes : depth[v] <= depth[w] + 1
    <3> SUFFICES ASSUME NEW v \in nodes PROVE depth[v] <= depth[w] + 1
      OBVIOUS
    <3>1. depth[v] <= depth[parent] + 1
      BY <1>1 DEF Levels
    <3> QED
      BY <1>5, <3>1
  <2> QED
    BY <1>1, <1>2, <1>4, <1>8, <2>1 DEF Levels
<1> QED
  BY <1>6, <1>7, <1>8 DEF Pop, Enter

\* Every step keeps the levels.
LEMMA LevelsStep == Shape /\ Levels /\ [GraphNext]_graphVars => Levels'
<1> SUFFICES ASSUME Shape, Levels, [GraphNext]_graphVars PROVE Levels'
  OBVIOUS
<1>1. CASE Expand
  BY <1>1 DEF Expand, Levels, DepthIsDistance, Walking
<1>2. CASE FetchSeed
  <2>1. nodes = {} /\ edges = {} /\ UNCHANGED <<depth, edges, queue>> /\ Len(queue) = 0
    BY <1>2 DEF FetchSeed, Shape
  <2>2. CASE walk' = "failed" /\ UNCHANGED nodes
    BY <2>1, <2>2 DEF Levels, DepthIsDistance, Walking
  <2>3. CASE nodes' = {Seed} /\ parent' = Seed
    <3>1. depth[Seed] <= depth[Seed] + 1
      BY DEF Shape
    <3> QED
      BY <2>1, <2>3, <3>1 DEF Levels, DepthIsDistance
  <2> QED
    BY <1>2, <2>2, <2>3 DEF FetchSeed, Enter
<1>3. CASE Child
  BY <1>3, LevelsChild
<1>4. CASE ChildrenEnd
  BY <1>4 DEF ChildrenEnd, Levels, DepthIsDistance, Walking
<1>5. CASE Pop
  BY <1>5, LevelsPop
<1>6. CASE Finish
  BY <1>6 DEF Finish, Levels, DepthIsDistance, Walking
<1>7. CASE UNCHANGED graphVars
  BY <1>7 DEF graphVars, Levels, DepthIsDistance
<1> QED
  BY <1>1, <1>2, <1>3, <1>4, <1>5, <1>6, <1>7 DEF GraphNext, Walk

-----------------------------------------------------------------------------
(* Theorems.                                                               *)

\* Whatever the world, the caps and the failures: a result that is not marked
\* truncated is the whole graph below the seed (expand's truncated flag).
THEOREM WholeUnlessTruncated == GraphSpec => []CompleteUnlessTruncated
<1>1. GraphInit => Shape /\ Accounted
  BY ShapeInit, AccountedInit
<1>2. (Shape /\ Accounted) /\ [GraphNext]_graphVars => (Shape /\ Accounted)'
  BY ShapeStep, AccountedStep
<1>3. Shape /\ Accounted => CompleteUnlessTruncated
  <2> SUFFICES ASSUME Shape, Accounted, walk = "done", ~truncated
               PROVE  Seed \in nodes /\ \A u \in nodes : \A v \in References(u) : v \in nodes /\ <<u, v>> \in edges
    BY DEF CompleteUnlessTruncated
  <2>1. walk \in Walking /\ queue = <<>>
    BY DEF Walking, Accounted
  <2>2. Len(queue) = 0
    BY <2>1
  <2>3. \A u \in nodes : Expanded(u)
    BY <2>1, <2>2 DEF Accounted, Queued
  <2> QED
    BY <2>1, <2>3 DEF Shape, Expanded, References
<1> QED
  BY <1>1, <1>2, <1>3, PTL DEF GraphSpec

\* Whatever the world, the caps and the failures: the depth of a node is its
\* distance from the seed in the result (enqueue_children numbers the levels).
THEOREM DepthsAreDistances == GraphSpec => []DepthIsDistance
<1>1. GraphInit => Shape /\ Levels
  BY ShapeInit, LevelsInit
<1>2. (Shape /\ Levels) /\ [GraphNext]_graphVars => (Shape /\ Levels)'
  BY ShapeStep, LevelsStep
<1>3. Levels => DepthIsDistance
  BY DEF Levels
<1> QED
  BY <1>1, <1>2, <1>3, PTL DEF GraphSpec

-----------------------------------------------------------------------------
(***************************************************************************)
(* The caches.  ServedIsWhole rests on what every file holds: an inode has *)
(* one name at most (OneName), the bytes under a name are torn or answer   *)
(* that name's question (Named), and whoever has an inode open that still  *)
(* has a name is writing an answer to that name's question (Opened).       *)
(***************************************************************************)

\* What a file under the name of an entry may hold, and what a call has in hand.
Content == Answer \cup {Empty, Torn}
About(val, kind, key) == val \in {Empty, Torn} \/ (val \in Answer /\ val.kind = kind /\ safekey[val.ref] = key)
Limited == Limits \cup {NoLimit}

\* A call: a question once it is made, the network's answer to it once that is
\* there, an open file only while it is written.
Asking == {"read", "resolve", "open", "write", "rename", "answered", "failed"}
Served(q) ==
  q.pc = "answered" =>
    /\ q.answer.val \in Answer /\ q.answer.val.ref = q.ref /\ q.answer.val.kind = q.kind
    /\ q.answer.val.at + TTL[q.kind] >= q.since
    /\ q.answer.len <= q.max /\ q.answer.truncated = (q.answer.len < q.answer.val.len)
    /\ q.answer.len = q.answer.val.len \/ q.answer.len = q.max
CallRecord ==
  [pc : Asking \cup {"idle"}, ref : CacheRefs \cup {"none"}, kind : CacheKinds \cup {"none"}, max : Limited,
   cached : BOOLEAN, val : Content, inode : Inodes \cup {0},
   answer : [val : Content, len : Nat, truncated : BOOLEAN], asked : BOOLEAN, since : 0..MaxClock]
Question(q) == q.ref \in CacheRefs /\ q.kind \in CacheKinds
InHand(q) == q.val \in Answer /\ q.val.ref = q.ref /\ q.val.kind = q.kind /\ q.val.at >= q.since
GoodCall(q) ==
  /\ q \in CallRecord
  /\ q.pc \in Asking => Question(q)
  /\ q.pc \in {"open", "write", "rename"} => InHand(q)
  /\ q.pc \in {"write", "rename"} => q.inode \in Inodes
  /\ q.pc \notin {"write", "rename"} => q.inode = 0
  /\ Served(q)

CacheTyped ==
  /\ dir \in [Paths -> Inodes \cup {0}] /\ bytes \in [Inodes -> Content] /\ clock \in 0..MaxClock
  /\ call \in [Callers -> CallRecord]
  /\ \A c \in Callers : GoodCall(call[c]) /\ call[c].since <= clock

\* An inode has one name; what it holds, and who has it open, is about that name.
OneName == \A p, q \in Paths : dir[p] = dir[q] /\ dir[p] # 0 => p = q
Named == \A p \in Paths : dir[p] # 0 => About(bytes[dir[p]], p.kind, p.key)
Opened == \A c \in Callers, p \in Paths :
            dir[p] # 0 /\ dir[p] = call[c].inode => p.kind = call[c].kind /\ p.key = safekey[call[c].ref]
CacheInv == CacheTyped /\ OneName /\ Named /\ Opened

OwnNames == \A r, s \in CacheRefs : safekey[r] = safekey[s] => r = s

LEMMA ContentTypes ==
  /\ Empty \in Content /\ Torn \in Content /\ Empty.len = 0 /\ Torn.len = 0
  /\ \A val \in Content : val.len \in Nat /\ (val.len > 0 => val \in Answer)
  /\ \A val \in Answer : /\ val.len \in Nat /\ val.len > 0 /\ val.at \in Nat /\ val.at \in 0..MaxClock
                          /\ val.ref \in CacheRefs /\ val.kind \in CacheKinds
<1>1. Empty.len = 0 /\ Torn.len = 0
  BY DEF Empty, Torn
<1>2. ASSUME NEW val \in Answer
      PROVE  /\ val.len \in Nat /\ val.len > 0 /\ val.at \in Nat /\ val.at \in 0..MaxClock
             /\ val.ref \in CacheRefs /\ val.kind \in CacheKinds
  <2>1. val.len \in Lengths /\ val.at \in 0..MaxClock /\ val.ref \in CacheRefs /\ val.kind \in CacheKinds
    BY DEF Answer
  <2>2. Lengths \subseteq Nat \ {0} /\ MaxClock \in Nat
    BY CacheAssumption
  <2>3. val.len \in Nat \ {0}
    BY <2>1, <2>2
  <2>4. val.at \in Nat
    BY <2>1, <2>2
  <2> QED
    BY <2>1, <2>3, <2>4
<1> QED
  BY <1>1, <1>2 DEF Content

LEMMA IdleIsGood ==
  GoodCall(IdleCall) /\ IdleCall.since = 0 /\ IdleCall.inode = 0 /\ IdleCall \in CallRecord
<1>1. NoAnswer \in [val : Content, len : Nat, truncated : BOOLEAN]
  BY ContentTypes DEF NoAnswer
<1>2. IdleCall \in CallRecord
  BY <1>1, ContentTypes, CacheAssumption DEF IdleCall, CallRecord, Limited
<1>3. IdleCall.pc = "idle" /\ IdleCall.inode = 0 /\ IdleCall.since = 0
  BY DEF IdleCall
<1> QED
  BY <1>2, <1>3 DEF GoodCall, Asking, Served

\* An answer to the question of the call, fresh enough, is what the caller may be given.
LEMMA AnsweredIsGood ==
  ASSUME NEW c \in Callers, GoodCall(call[c]), call[c].pc \in Asking,
         NEW val \in Answer, val.ref = call[c].ref, val.kind = call[c].kind,
         val.at + TTL[call[c].kind] >= call[c].since
  PROVE  /\ GoodCall(Answered(c, val)) /\ Answered(c, val).inode = 0
         /\ Answered(c, val).since = call[c].since
<1> DEFINE q == call[c]
           a == apply_max_chars(val, q.max)
           r == [q EXCEPT !.pc = "answered", !.inode = 0, !.val = Empty, !.answer = a]
<1>1. q \in CallRecord /\ Question(q) /\ val.len \in Nat /\ q.max \in Nat
  <2>1. NoLimit \in Nat /\ Limits \subseteq Nat
    BY CacheAssumption DEF NoLimit
  <2> QED
    BY <2>1, ContentTypes DEF GoodCall, CallRecord, Limited
<1>2. /\ a.val = val /\ a.len <= q.max /\ a.truncated = (a.len < val.len) /\ (a.len = val.len \/ a.len = q.max)
      /\ a \in [val : Content, len : Nat, truncated : BOOLEAN]
  BY <1>1 DEF apply_max_chars, Content
<1> HIDE DEF a, q
<1>3. r \in CallRecord
  BY <1>1, <1>2, ContentTypes DEF CallRecord, Asking
<1>4. /\ r.pc = "answered" /\ r.inode = 0 /\ r.answer = a /\ r.ref = q.ref /\ r.kind = q.kind /\ r.max = q.max
      /\ r.since = q.since
  BY <1>1 DEF CallRecord
<1>5. Answered(c, val) = r
  BY DEF Answered, q, a
<1> HIDE DEF r
<1>6. Served(r)
  BY <1>2, <1>4 DEF Served, q
<1>7. Question(r)
  BY <1>1, <1>4 DEF Question
<1> QED
  BY <1>3, <1>4, <1>5, <1>6, <1>7 DEF GoodCall, q

\* A step of one call that leaves the files alone and holds none open.
LEMMA CallMoves ==
  ASSUME CacheInv, NEW c \in Callers, NEW q, GoodCall(q), q.inode = 0, q.since <= clock,
         call' = [call EXCEPT ![c] = q], UNCHANGED <<dir, bytes, clock>>
  PROVE  CacheInv'
<1>1. call'[c] = q /\ \A d \in Callers : d # c => call'[d] = call[d]
  BY DEF CacheInv, CacheTyped
<1>2. call' \in [Callers -> CallRecord]
  BY DEF CacheInv, CacheTyped, GoodCall
<1>3. \A d \in Callers : GoodCall(call'[d]) /\ call'[d].since <= clock'
  BY <1>1 DEF CacheInv, CacheTyped
<1>4. CacheTyped'
  BY <1>2, <1>3 DEF CacheInv, CacheTyped
<1>5. OneName' /\ Named'
  BY DEF CacheInv, OneName, Named
<1>6. Opened'
  BY <1>1 DEF CacheInv, Opened
<1> QED
  BY <1>4, <1>5, <1>6 DEF CacheInv

LEMMA AskKeeps ==
  ASSUME CacheInv, NEW c \in Callers, NEW ref \in CacheRefs, NEW kind \in CacheKinds, NEW max \in Limited,
         NEW cached \in BOOLEAN, Ask(c, ref, kind, max, cached)
  PROVE  CacheInv'
<1> DEFINE q == [IdleCall EXCEPT !.pc = IF cached THEN "read" ELSE "resolve",
                   !.ref = ref, !.kind = kind, !.max = max, !.cached = cached, !.since = clock]
<1>1. clock \in 0..MaxClock /\ clock <= clock
  BY CacheAssumption DEF CacheInv, CacheTyped
<1>2. IdleCall \in CallRecord /\ IdleCall.inode = 0
  BY IdleIsGood
<1>3. q \in CallRecord
  BY <1>1, <1>2 DEF CallRecord, Asking
<1>4. q.pc \in {"read", "resolve"} /\ q.ref = ref /\ q.kind = kind /\ q.since = clock /\ q.inode = 0
  BY <1>2 DEF CallRecord
<1>5. call' = [call EXCEPT ![c] = q] /\ UNCHANGED <<dir, bytes, clock>>
  BY DEF Ask
<1> HIDE DEF q
<1>6. GoodCall(q)
  BY <1>3, <1>4 DEF GoodCall, Question, Served
<1> QED
  BY <1>1, <1>4, <1>5, <1>6, CallMoves

LEMMA ReadKeeps ==
  ASSUME OwnNames, CacheInv, NEW c \in Callers, CacheRead(c)
  PROVE  CacheInv'
<1> DEFINE i == dir[Entry(c)]
<1>1. /\ GoodCall(call[c]) /\ call[c].pc = "read" /\ Question(call[c]) /\ call[c].since <= clock
      /\ call[c].since \in Nat /\ clock \in Nat /\ call[c] \in CallRecord
      /\ UNCHANGED <<dir, bytes, clock>>
  BY CacheAssumption DEF CacheRead, CacheInv, CacheTyped, GoodCall, Asking, CallRecord
<1>2. CASE Parses(i) /\ Fresh(bytes[i], call[c].kind) /\ call' = [call EXCEPT ![c] = Answered(c, bytes[i])]
  <2>1. Entry(c) \in Paths /\ Entry(c).kind = call[c].kind /\ Entry(c).key = safekey[call[c].ref]
    BY <1>1 DEF Entry, cache_file, Paths, Question
  <2>2. i \in Inodes /\ bytes[i] \in Content /\ bytes[i].len > 0
    BY <1>2, <2>1 DEF Parses, CacheInv, CacheTyped
  <2>3. bytes[i] \in Answer /\ About(bytes[i], call[c].kind, safekey[call[c].ref])
    BY <1>2, <2>1, <2>2, ContentTypes DEF CacheInv, Named, Parses
  <2> DEFINE val == bytes[i]
  <2>4. val.kind = call[c].kind /\ safekey[val.ref] = safekey[call[c].ref] /\ val.ref \in CacheRefs
    BY <2>2, <2>3, ContentTypes DEF About
  <2>5. val.ref = call[c].ref
    BY <1>1, <2>4 DEF OwnNames, Question
  <2>6. val.at + TTL[call[c].kind] >= call[c].since
    <3>1. val.at \in Nat /\ TTL[call[c].kind] \in Nat
      BY <1>1, <2>3, ContentTypes, CacheAssumption DEF Question
    <3>2. clock <= val.at + TTL[call[c].kind]
      BY <1>2 DEF Fresh
    <3> QED
      BY <1>1, <3>1, <3>2
  <2> HIDE DEF i
  <2>7. /\ GoodCall(Answered(c, val)) /\ Answered(c, val).inode = 0
        /\ Answered(c, val).since = call[c].since
    BY <1>1, <2>3, <2>4, <2>5, <2>6, AnsweredIsGood DEF Asking
  <2> QED
    BY <1>1, <1>2, <2>7, CallMoves
<1>3. CASE call' = [call EXCEPT ![c].pc = "resolve"]
  <2> DEFINE q == [call[c] EXCEPT !.pc = "resolve"]
  <2>1. q \in CallRecord
    BY <1>1 DEF CallRecord, Asking
  <2>2. q.pc = "resolve" /\ q.ref = call[c].ref /\ q.kind = call[c].kind /\ q.inode = call[c].inode /\ q.since = call[c].since
    BY <1>1 DEF CallRecord
  <2>3. call' = [call EXCEPT ![c] = q]
    BY <1>3
  <2> HIDE DEF q
  <2>4. GoodCall(q) /\ q.inode = 0
    BY <1>1, <2>1, <2>2 DEF GoodCall, Question, Served
  <2> QED
    BY <1>1, <2>2, <2>3, <2>4, CallMoves
<1> QED
  BY <1>2, <1>3 DEF CacheRead

LEMMA ResolveKeeps ==
  ASSUME CacheInv, NEW c \in Callers, CacheResolve(c)
  PROVE  CacheInv'
<1>1. /\ GoodCall(call[c]) /\ call[c].pc = "resolve" /\ Question(call[c]) /\ call[c].since <= clock
      /\ call[c].since \in Nat /\ clock \in Nat /\ clock \in 0..MaxClock /\ call[c] \in CallRecord
      /\ call[c].inode = 0 /\ UNCHANGED <<dir, bytes, clock>>
  <2>1. call[c].pc = "resolve" /\ UNCHANGED <<dir, bytes, clock>>
    BY DEF CacheResolve
  <2>2. MaxClock \in Nat
    BY CacheAssumption
  <2> QED
    BY <2>1, <2>2 DEF CacheInv, CacheTyped, GoodCall, Asking, CallRecord
<1>2. ASSUME NEW n \in Lengths, NEW val, val = [ref |-> call[c].ref, kind |-> call[c].kind, len |-> n, at |-> clock],
             call' = [call EXCEPT ![c] =
               IF @.cached THEN [@ EXCEPT !.pc = "open", !.val = val, !.asked = TRUE]
               ELSE [Answered(c, val) EXCEPT !.asked = TRUE]]
      PROVE  CacheInv'
  <2>1. val \in Answer /\ val.ref = call[c].ref /\ val.kind = call[c].kind /\ val.at = clock
    BY <1>1, <1>2 DEF Answer, Question
  <2>2. TTL[call[c].kind] \in Nat /\ val.at + TTL[call[c].kind] >= call[c].since
    <3>1. TTL \in [CacheKinds -> Nat] /\ call[c].kind \in CacheKinds
      BY <1>1, CacheAssumption DEF Question
    <3>2. TTL[call[c].kind] \in Nat
      BY <3>1
    <3> QED
      BY <1>1, <2>1, <3>2
  <2>3. CASE call[c].cached
    <3> DEFINE q == [call[c] EXCEPT !.pc = "open", !.val = val, !.asked = TRUE]
    <3>1. q \in CallRecord
      BY <1>1, <2>1 DEF CallRecord, Asking, Content
    <3>2. /\ q.pc = "open" /\ q.ref = call[c].ref /\ q.kind = call[c].kind /\ q.inode = 0 /\ q.since = call[c].since
          /\ q.val = val
      BY <1>1 DEF CallRecord
    <3>3. call' = [call EXCEPT ![c] = q]
      BY <1>2, <2>3
    <3> HIDE DEF q
    <3>4. GoodCall(q)
      BY <1>1, <2>1, <3>1, <3>2 DEF GoodCall, Question, Served, InHand
    <3> QED
      BY <1>1, <3>2, <3>3, <3>4, CallMoves
  <2>4. CASE ~call[c].cached
    <3> DEFINE r == Answered(c, val)
               q == [r EXCEPT !.asked = TRUE]
    <3>1. GoodCall(r) /\ r.inode = 0 /\ r.since = call[c].since /\ r \in CallRecord
      BY <1>1, <2>1, <2>2, AnsweredIsGood DEF Asking, GoodCall
    <3>2. call' = [call EXCEPT ![c] = q]
      BY <1>2, <2>4
    <3> HIDE DEF r
    <3>3. /\ q \in CallRecord /\ q.pc = r.pc /\ q.ref = r.ref /\ q.kind = r.kind /\ q.inode = r.inode
          /\ q.since = r.since /\ q.val = r.val /\ q.answer = r.answer /\ q.max = r.max
      BY <3>1 DEF CallRecord
    <3> HIDE DEF q
    <3>4. GoodCall(q)
      BY <3>1, <3>3 DEF GoodCall, Question, Served, InHand
    <3> QED
      BY <1>1, <3>1, <3>2, <3>3, <3>4, CallMoves
  <2> QED
    BY <2>3, <2>4
<1>3. CASE call' = [call EXCEPT ![c].pc = "failed", ![c].asked = TRUE]
  <2> DEFINE q == [call[c] EXCEPT !.pc = "failed", !.asked = TRUE]
  <2>1. q \in CallRecord
    BY <1>1 DEF CallRecord, Asking
  <2>2. q.pc = "failed" /\ q.ref = call[c].ref /\ q.kind = call[c].kind /\ q.inode = 0 /\ q.since = call[c].since
    BY <1>1 DEF CallRecord
  <2>3. call' = [call EXCEPT ![c] = q]
    BY <1>3 DEF CacheInv, CacheTyped
  <2> HIDE DEF q
  <2>4. GoodCall(q)
    BY <1>1, <2>1, <2>2 DEF GoodCall, Question, Served
  <2> QED
    BY <1>1, <2>2, <2>3, <2>4, CallMoves
<1> QED
  BY <1>2, <1>3 DEF CacheResolve

\* The call of c becomes q, and every other call stays as it is.
LEMMA OneCall ==
  ASSUME CacheInv, NEW c \in Callers, NEW q, GoodCall(q), q.since <= clock,
         call' = [call EXCEPT ![c] = q], clock' = clock
  PROVE  /\ call' \in [Callers -> CallRecord] /\ call'[c] = q /\ \A d \in Callers \ {c} : call'[d] = call[d]
         /\ \A d \in Callers : GoodCall(call'[d]) /\ call'[d].since <= clock'
<1>1. call'[c] = q /\ \A d \in Callers \ {c} : call'[d] = call[d]
  BY DEF CacheInv, CacheTyped
<1>2. call' \in [Callers -> CallRecord]
  BY DEF CacheInv, CacheTyped, GoodCall
<1> QED
  BY <1>1, <1>2 DEF CacheInv, CacheTyped

\* A step that changes what a file holds, and not its name.
LEMMA BytesChange ==
  ASSUME CacheInv, NEW c \in Callers, NEW q, GoodCall(q), q.since <= clock,
         q.inode = 0 \/ (q.inode = call[c].inode /\ q.kind = call[c].kind /\ q.ref = call[c].ref),
         call' = [call EXCEPT ![c] = q], UNCHANGED <<dir, clock>>, bytes' \in [Inodes -> Content],
         \A p \in Paths : dir[p] # 0 => About(bytes'[dir[p]], p.kind, p.key)
  PROVE  CacheInv'
<1>1. /\ call' \in [Callers -> CallRecord] /\ call'[c] = q /\ \A d \in Callers \ {c} : call'[d] = call[d]
      /\ \A d \in Callers : GoodCall(call'[d]) /\ call'[d].since <= clock'
  BY OneCall
<1>2. CacheTyped'
  BY <1>1 DEF CacheInv, CacheTyped
<1>3. OneName' /\ Named'
  BY DEF CacheInv, OneName, Named
<1>4. Opened'
  BY <1>1 DEF CacheInv, Opened
<1> QED
  BY <1>2, <1>3, <1>4 DEF CacheInv

\* A call that has opened its file, or is about to.
LEMMA WriterFacts ==
  ASSUME CacheInv, NEW c \in Callers, call[c].pc \in {"open", "write", "rename"}
  PROVE  /\ GoodCall(call[c]) /\ Question(call[c]) /\ InHand(call[c]) /\ call[c].since <= clock
         /\ call[c] \in CallRecord /\ call[c].inode \in Inodes \cup {0}
         /\ call[c].val.at + TTL[call[c].kind] >= call[c].since
         /\ Target(c) \in Paths /\ Target(c).kind = call[c].kind /\ Target(c).key = safekey[call[c].ref]
         /\ Entry(c) \in Paths /\ Entry(c).kind = call[c].kind /\ Entry(c).key = safekey[call[c].ref]
         /\ call[c].pc \in Asking
<1>1. /\ GoodCall(call[c]) /\ Question(call[c]) /\ InHand(call[c]) /\ call[c].since <= clock
      /\ call[c] \in CallRecord /\ call[c].inode \in Inodes \cup {0} /\ call[c].pc \in Asking
  BY DEF CacheInv, CacheTyped, GoodCall, Asking, CallRecord
<1>2. TTL[call[c].kind] \in Nat
  <2>1. TTL \in [CacheKinds -> Nat] /\ call[c].kind \in CacheKinds
    BY <1>1, CacheAssumption DEF Question
  <2> QED
    BY <2>1
<1>3. call[c].val.at + TTL[call[c].kind] >= call[c].since
  <2>1. call[c].val.at \in Nat /\ call[c].val.at >= call[c].since
    BY <1>1, ContentTypes DEF InHand
  <2>2. call[c].since \in 0..MaxClock /\ MaxClock \in Nat
    BY <1>1, CacheAssumption DEF CallRecord
  <2> QED
    BY <1>2, <2>1, <2>2
<1>4. Entry(c) \in Paths /\ Entry(c).kind = call[c].kind /\ Entry(c).key = safekey[call[c].ref]
  BY <1>1 DEF Entry, cache_file, Paths, Question
<1>5. Target(c) \in Paths /\ Target(c).kind = call[c].kind /\ Target(c).key = safekey[call[c].ref]
  <2>1. Atomic(call[c].kind) \in BOOLEAN
    BY DEF Atomic
  <2> QED
    BY <1>4, <2>1 DEF Target, Paths
<1> QED
  BY <1>1, <1>3, <1>4, <1>5

\* The answer in hand goes to the caller.
LEMMA InHandAnswers ==
  ASSUME CacheInv, NEW c \in Callers, call[c].pc \in {"open", "write", "rename"}
  PROVE  LET q == Answered(c, call[c].val) IN GoodCall(q) /\ q.inode = 0 /\ q.since <= clock
<1>1. /\ GoodCall(Answered(c, call[c].val)) /\ Answered(c, call[c].val).inode = 0
      /\ Answered(c, call[c].val).since = call[c].since
  BY WriterFacts, AnsweredIsGood DEF InHand
<1> QED
  BY <1>1, WriterFacts

LEMMA OpenKeeps ==
  ASSUME CacheInv, NEW c \in Callers, OpenEntry(c)
  PROVE  CacheInv'
<1> DEFINE T == Target(c)
<1>1. call[c].pc = "open" /\ clock' = clock
  BY DEF OpenEntry
<1>2. ASSUME NEW i \in Inodes, IF dir[T] # 0 THEN i = dir[T] ELSE FirstUnused(i),
             dir' = [dir EXCEPT ![T] = i], bytes' = [bytes EXCEPT ![i] = Empty],
             call' = [call EXCEPT ![c].inode = i, ![c].pc = "write"]
      PROVE  CacheInv'
  <2> DEFINE q == [call[c] EXCEPT !.inode = i, !.pc = "write"]
  <2>1. /\ GoodCall(call[c]) /\ Question(call[c]) /\ InHand(call[c]) /\ call[c].since <= clock
        /\ call[c] \in CallRecord /\ T \in Paths /\ T.kind = call[c].kind /\ T.key = safekey[call[c].ref]
    BY <1>1, WriterFacts
  <2>2. /\ q \in CallRecord /\ q.pc = "write" /\ q.inode = i /\ q.ref = call[c].ref /\ q.kind = call[c].kind
        /\ q.val = call[c].val /\ q.since = call[c].since
    BY <2>1 DEF CallRecord, Asking
  <2>3. call' = [call EXCEPT ![c] = q]
    BY <1>2 DEF CacheInv, CacheTyped
  <2> HIDE DEF q, T
  <2>4. GoodCall(q)
    BY <2>1, <2>2 DEF GoodCall, Question, InHand, Served
  <2>5. /\ call' \in [Callers -> CallRecord] /\ call'[c] = q /\ \A d \in Callers \ {c} : call'[d] = call[d]
        /\ \A d \in Callers : GoodCall(call'[d]) /\ call'[d].since <= clock'
    BY <1>1, <2>1, <2>2, <2>3, <2>4, OneCall
  <2>6. i # 0 /\ dir \in [Paths -> Inodes \cup {0}] /\ bytes \in [Inodes -> Content]
    BY DEF Inodes, CacheInv, CacheTyped
  <2>7. dir'[T] = i /\ \A p \in Paths \ {T} : dir'[p] = dir[p]
    BY <1>2, <2>1, <2>6
  <2>8. \A p \in Paths \ {T} : dir[p] # i
    BY <1>2, <2>1, <2>6 DEF FirstUnused, Unused, CacheInv, OneName
  <2>9. \A d \in Callers \ {c} : call[d].inode = i => T.kind = call[d].kind /\ T.key = safekey[call[d].ref]
    BY <1>2, <2>1, <2>6 DEF FirstUnused, Unused, CacheInv, Opened
  <2>10. CacheTyped'
    <3>1. dir' \in [Paths -> Inodes \cup {0}] /\ bytes' \in [Inodes -> Content]
      BY <1>2, <2>6, ContentTypes
    <3> QED
      BY <1>1, <2>5, <3>1 DEF CacheInv, CacheTyped
  <2>11. OneName'
    BY <2>7, <2>8 DEF CacheInv, OneName
  <2>12. Named'
    <3> SUFFICES ASSUME NEW p \in Paths, dir'[p] # 0 PROVE About(bytes'[dir'[p]], p.kind, p.key)
      BY DEF Named
    <3>1. CASE p = T
      BY <1>2, <2>6, <2>7, <3>1 DEF About
    <3>2. CASE p # T
      BY <1>2, <2>6, <2>7, <2>8, <3>2 DEF CacheInv, Named
    <3> QED
      BY <3>1, <3>2
  <2>13. Opened'
    BY <2>1, <2>2, <2>5, <2>7, <2>8, <2>9 DEF CacheInv, Opened
  <2> QED
    BY <2>10, <2>11, <2>12, <2>13 DEF CacheInv
<1>3. CASE call' = [call EXCEPT ![c] = Answered(c, call[c].val)] /\ UNCHANGED <<dir, bytes>>
  BY <1>1, <1>3, InHandAnswers, CallMoves
<1> QED
  BY <1>2, <1>3 DEF OpenEntry

\* Whatever a writer leaves in its file is torn or its own answer, and if the file
\* has a name, it is one of its own question.
LEMMA WriteKeeps ==
  ASSUME CacheInv, NEW c \in Callers, WriteEntry(c)
  PROVE  CacheInv'
<1> DEFINE i == call[c].inode
           a == Answered(c, call[c].val)
           r == [call[c] EXCEPT !.pc = "rename"]
<1>1. call[c].pc = "write" /\ UNCHANGED <<dir, clock>>
  BY DEF WriteEntry
<1>2. /\ GoodCall(call[c]) /\ Question(call[c]) /\ InHand(call[c]) /\ call[c].since <= clock
      /\ call[c] \in CallRecord
  BY <1>1, WriterFacts
<1>3. i \in Inodes /\ i # 0
  BY <1>1, <1>2 DEF GoodCall, Inodes
<1>4. PICK val, q : /\ val \in {Torn, call[c].val} /\ bytes' = [bytes EXCEPT ![i] = val]
                    /\ q \in {a, r} /\ call' = [call EXCEPT ![c] = q]
  <2>1. CASE /\ bytes' = [bytes EXCEPT ![i] = Overwrite(@, call[c].val)]
             /\ call' = [call EXCEPT ![c] = IF Atomic(@.kind) THEN [@ EXCEPT !.pc = "rename"] ELSE Answered(c, @.val)]
    <3>1. Overwrite(bytes[i], call[c].val) \in {Torn, call[c].val}
      BY DEF Overwrite
    <3>2. bytes' = [bytes EXCEPT ![i] = Overwrite(bytes[i], call[c].val)]
      BY <1>3, <2>1
    <3>3. call' = [call EXCEPT ![c] = IF Atomic(call[c].kind) THEN r ELSE a]
      BY <2>1 DEF CacheInv, CacheTyped
    <3> HIDE DEF i, a, r
    <3> QED
      BY <3>1, <3>2, <3>3
  <2>2. CASE bytes' = [bytes EXCEPT ![i] = Torn] /\ call' = [call EXCEPT ![c] = Answered(c, call[c].val)]
    BY <2>2
  <2> QED
    BY <2>1, <2>2 DEF WriteEntry
<1>5. /\ r \in CallRecord /\ r.pc = "rename" /\ r.inode = i /\ r.ref = call[c].ref /\ r.kind = call[c].kind
      /\ r.val = call[c].val /\ r.since = call[c].since
  BY <1>2 DEF CallRecord, Asking
<1>6. GoodCall(a) /\ a.inode = 0 /\ a.since <= clock
  BY <1>1, InHandAnswers
<1> HIDE DEF a, r
<1>7. GoodCall(r)
  BY <1>2, <1>3, <1>5 DEF GoodCall, Question, InHand, Served
<1>8. /\ GoodCall(q) /\ q.since <= clock
      /\ q.inode = 0 \/ (q.inode = call[c].inode /\ q.kind = call[c].kind /\ q.ref = call[c].ref)
  BY <1>2, <1>4, <1>5, <1>6, <1>7
<1>9. val \in Content /\ About(val, call[c].kind, safekey[call[c].ref])
  BY <1>2, <1>4, ContentTypes DEF InHand, About, Content
<1>10. bytes' \in [Inodes -> Content]
  BY <1>3, <1>4, <1>9 DEF CacheInv, CacheTyped
<1>11. \A p \in Paths : dir[p] # 0 => About(bytes'[dir[p]], p.kind, p.key)
  <2> SUFFICES ASSUME NEW p \in Paths, dir[p] # 0 PROVE About(bytes'[dir[p]], p.kind, p.key)
    OBVIOUS
  <2>1. dir[p] \in Inodes /\ bytes \in [Inodes -> Content] /\ About(bytes[dir[p]], p.kind, p.key)
    BY DEF CacheInv, CacheTyped, Named
  <2>2. CASE dir[p] = i
    <3>1. p.kind = call[c].kind /\ p.key = safekey[call[c].ref]
      BY <2>2 DEF CacheInv, Opened
    <3> QED
      BY <1>4, <1>9, <2>1, <2>2, <3>1
  <2>3. CASE dir[p] # i
    BY <1>4, <2>1, <2>3
  <2> QED
    BY <2>2, <2>3
<1> QED
  BY <1>1, <1>4, <1>8, <1>10, <1>11, BytesChange

LEMMA RenameKeeps ==
  ASSUME CacheInv, NEW c \in Callers, RenameEntry(c)
  PROVE  CacheInv'
<1> DEFINE T == Target(c)
           E == Entry(c)
           q == Answered(c, call[c].val)
<1>1. call[c].pc = "rename" /\ clock' = clock /\ call' = [call EXCEPT ![c] = q]
  BY DEF RenameEntry
<1>2. GoodCall(q) /\ q.inode = 0 /\ q.since <= clock
  BY <1>1, InHandAnswers
<1>3. CASE UNCHANGED <<dir, bytes>>
  <2> HIDE DEF q
  <2> QED
    BY <1>1, <1>2, <1>3, CallMoves
<1>4. CASE /\ dir[T] # 0 /\ dir' = [dir EXCEPT ![E] = dir[T], ![T] = 0]
           /\ bytes' = [i \in Inodes |-> IF i = dir[E] /\ \A d \in Callers : call[d].inode # i
                                         THEN Empty ELSE bytes[i]]
  <2>1. T \in Paths /\ E \in Paths /\ T.kind = E.kind /\ T.key = E.key
    BY <1>1, WriterFacts
  <2>2. dir \in [Paths -> Inodes \cup {0}] /\ bytes \in [Inodes -> Content]
    BY DEF CacheInv, CacheTyped
  <2> HIDE DEF q, T, E
  <2>3. /\ call' \in [Callers -> CallRecord] /\ call'[c] = q /\ \A d \in Callers \ {c} : call'[d] = call[d]
        /\ \A d \in Callers : GoodCall(call'[d]) /\ call'[d].since <= clock'
    BY <1>1, <1>2, OneCall
  <2>4. /\ dir' \in [Paths -> Inodes \cup {0}] /\ dir'[T] = 0 /\ (E # T => dir'[E] = dir[T])
        /\ \A p \in Paths \ {E, T} : dir'[p] = dir[p]
    BY <1>4, <2>1, <2>2
  <2>5. bytes' \in [Inodes -> Content] /\ \A i \in Inodes : bytes'[i] \in {Empty, bytes[i]}
    BY <1>4, <2>2, ContentTypes
  <2>6. CacheTyped'
    BY <1>1, <2>3, <2>4, <2>5 DEF CacheInv, CacheTyped
  \* Every name that is left was the name of the same inode, or of E's.
  <2>7. \A p \in Paths : dir'[p] # 0 =>
          \E o \in Paths :
             /\ dir[o] = dir'[p] /\ o.kind = p.kind /\ o.key = p.key
             /\ (p = E /\ o = T) \/ (p \notin {E, T} /\ o = p)
    BY <2>1, <2>4
  <2>8. OneName'
    <3> SUFFICES ASSUME NEW p1 \in Paths, NEW p2 \in Paths, dir'[p1] = dir'[p2], dir'[p1] # 0 PROVE p1 = p2
      BY DEF OneName
    <3>1. PICK o1 \in Paths : dir[o1] = dir'[p1] /\ ((p1 = E /\ o1 = T) \/ (p1 \notin {E, T} /\ o1 = p1))
      BY <2>7
    <3>2. PICK o2 \in Paths : dir[o2] = dir'[p2] /\ ((p2 = E /\ o2 = T) \/ (p2 \notin {E, T} /\ o2 = p2))
      BY <2>7
    <3>3. o1 = o2
      BY <3>1, <3>2 DEF CacheInv, OneName
    <3> QED
      BY <3>1, <3>2, <3>3
  <2>9. Named'
    <3> SUFFICES ASSUME NEW p \in Paths, dir'[p] # 0 PROVE About(bytes'[dir'[p]], p.kind, p.key)
      BY DEF Named
    <3>1. PICK o \in Paths : dir[o] = dir'[p] /\ o.kind = p.kind /\ o.key = p.key
      BY <2>7
    <3>2. About(bytes[dir'[p]], p.kind, p.key) /\ dir'[p] \in Inodes
      BY <2>4, <3>1 DEF CacheInv, Named
    <3>3. bytes'[dir'[p]] \in {Empty, bytes[dir'[p]]}
      BY <2>5, <3>2
    <3> QED
      BY <3>2, <3>3 DEF About
  <2>10. Opened'
    <3> SUFFICES ASSUME NEW d \in Callers, NEW p \in Paths, dir'[p] # 0, dir'[p] = call'[d].inode
                 PROVE  p.kind = call'[d].kind /\ p.key = safekey[call'[d].ref]
      BY DEF Opened
    <3>1. d # c /\ call'[d] = call[d]
      BY <1>2, <2>3
    <3>2. PICK o \in Paths : dir[o] = dir'[p] /\ o.kind = p.kind /\ o.key = p.key
      BY <2>7
    <3> QED
      BY <3>1, <3>2 DEF CacheInv, Opened
  <2> QED
    BY <2>6, <2>8, <2>9, <2>10 DEF CacheInv
<1> QED
  BY <1>3, <1>4 DEF RenameEntry

LEMMA CrashKeeps ==
  ASSUME CacheInv, NEW c \in Callers, CacheCrash(c)
  PROVE  CacheInv'
<1>1. /\ call[c].pc \in {"open", "write", "rename"} /\ call' = [call EXCEPT ![c] = IdleCall] /\ UNCHANGED <<dir, clock>>
      /\ bytes' \in {bytes} \cup {[bytes EXCEPT ![i] = Torn] : i \in {call[c].inode} \ {0}}
  BY DEF CacheCrash
<1>2. call[c].inode \in Inodes \cup {0} /\ bytes \in [Inodes -> Content] /\ dir \in [Paths -> Inodes \cup {0}]
  BY <1>1, WriterFacts DEF CacheInv, CacheTyped
<1>3. bytes' \in [Inodes -> Content] /\ \A i \in Inodes : bytes'[i] \in {Torn, bytes[i]}
  <2>1. CASE bytes' = bytes
    BY <1>2, <2>1
  <2>2. CASE call[c].inode # 0 /\ bytes' = [bytes EXCEPT ![call[c].inode] = Torn]
    BY <1>2, <2>2, ContentTypes
  <2> QED
    BY <1>1, <2>1, <2>2
<1>4. \A p \in Paths : dir[p] # 0 => About(bytes'[dir[p]], p.kind, p.key)
  <2> SUFFICES ASSUME NEW p \in Paths, dir[p] # 0 PROVE About(bytes'[dir[p]], p.kind, p.key)
    OBVIOUS
  <2>1. dir[p] \in Inodes /\ About(bytes[dir[p]], p.kind, p.key)
    BY <1>2 DEF CacheInv, Named
  <2>2. bytes'[dir[p]] \in {Torn, bytes[dir[p]]}
    BY <1>3, <2>1
  <2> QED
    BY <2>1, <2>2 DEF About
<1>5. GoodCall(IdleCall) /\ IdleCall.inode = 0 /\ IdleCall.since <= clock
  BY IdleIsGood DEF CacheInv, CacheTyped
<1> QED
  BY <1>1, <1>3, <1>4, <1>5, BytesChange

\* Whatever the callers, the refs, the limits and the ages, and however calls, their
\* writes and their crashes interleave over files nobody locks: what a caller is given
\* is a whole answer to its own question, young enough, and cut by its own limit alone
\* (read_at_with_options, write_at, cache_write_at), provided that no two refs share a
\* safekey.
THEOREM WholeAnswers ==
  ASSUME OwnNames
  PROVE  CacheSpec => []ServedIsWhole
<1>1. CacheInit => CacheInv
  <2> SUFFICES ASSUME CacheInit PROVE CacheInv
    OBVIOUS
  <2>1. dir = [p \in Paths |-> 0] /\ bytes = [i \in Inodes |-> Empty] /\ call = [c \in Callers |-> IdleCall] /\ clock = 0
    BY DEF CacheInit
  <2>2. 0 \in 0..MaxClock
    BY CacheAssumption
  <2>3. CacheTyped
    BY <2>1, <2>2, IdleIsGood, ContentTypes DEF CacheTyped
  <2>4. \A p \in Paths : dir[p] = 0
    BY <2>1
  <2> QED
    BY <2>3, <2>4 DEF CacheInv, OneName, Named, Opened
<1>2. CacheInv /\ [CacheNext]_cacheVars => CacheInv'
  <2> SUFFICES ASSUME CacheInv, [CacheNext]_cacheVars PROVE CacheInv'
    OBVIOUS
  <2>1. CASE UNCHANGED cacheVars
    BY <2>1 DEF cacheVars, CacheInv, CacheTyped, OneName, Named, Opened
  <2>2. ASSUME NEW c \in Callers, NEW ref \in CacheRefs, NEW kind \in CacheKinds, NEW max \in Limits \cup {NoLimit},
               NEW cached \in BOOLEAN, Ask(c, ref, kind, max, cached)
        PROVE  CacheInv'
    BY <2>2, AskKeeps DEF Limited
  <2>3. ASSUME NEW c \in Callers, CacheStep(c) PROVE CacheInv'
    BY <2>3, ReadKeeps, ResolveKeeps, OpenKeeps, WriteKeeps, RenameKeeps DEF CacheStep
  <2>4. ASSUME NEW c \in Callers, CacheReturn(c) PROVE CacheInv'
    <3>1. GoodCall(IdleCall) /\ IdleCall.inode = 0 /\ IdleCall.since <= clock
      BY IdleIsGood DEF CacheInv, CacheTyped
    <3> QED
      BY <2>4, <3>1, CallMoves DEF CacheReturn
  <2>5. ASSUME NEW c \in Callers, CacheCrash(c) PROVE CacheInv'
    BY <2>5, CrashKeeps
  <2>6. CASE CacheTick
    <3>1. clock' \in 0..MaxClock /\ \A c \in Callers : call[c].since <= clock'
      <4>1. clock \in 0..MaxClock /\ clock < MaxClock /\ clock' = clock + 1 /\ MaxClock \in Nat
        BY <2>6, CacheAssumption DEF CacheTick, CacheInv, CacheTyped
      <4>2. \A c \in Callers : call[c].since \in 0..MaxClock /\ call[c].since <= clock
        BY DEF CacheInv, CacheTyped, GoodCall, CallRecord
      <4> QED
        BY <4>1, <4>2
    <3>2. UNCHANGED <<dir, bytes, call>>
      BY <2>6 DEF CacheTick
    <3> QED
      BY <3>1, <3>2 DEF CacheInv, CacheTyped, OneName, Named, Opened
  <2>7. CacheNext \/ UNCHANGED cacheVars
    OBVIOUS
  <2> QED
    BY <2>1, <2>2, <2>3, <2>4, <2>5, <2>6, <2>7, Zenon DEF CacheNext
<1>3. CacheInv => ServedIsWhole
  BY DEF CacheInv, CacheTyped, GoodCall, Served, ServedIsWhole
<1> QED
  BY <1>1, <1>2, <1>3, PTL DEF CacheSpec

-----------------------------------------------------------------------------
(***************************************************************************)
(* The migration.  What is about to take the log's name has been verified, *)
(* and a process that appends has the end of the log in memory (Follows),  *)
(* unless a migration has moved the log away under it.                     *)
(***************************************************************************)

\* The other process appends rows of format 2 to rows of format 2.
Appends == mem.next_seq \in Nat \ {0} /\ mem.last_hash \in Hash /\ AllV2(live)

\* It has in memory where the log ends.
Follows ==
  /\ Rows(live) = <<>> => mem.last_hash = Genesis
  /\ Rows(live) # <<>> =>
       mem.next_seq > live[Len(live)].ts_seq /\ mem.last_hash = live[Len(live)].this_hash

\* What is about to be published has been verified, and nobody has the log open or
\* somebody was beside it.
MigInv ==
  /\ live \in Seq(Line) /\ staged \in Seq(Line) /\ seeds \in Seq(Line)
  /\ mig \in {"start", "idle", "stage", "verify", "drop", "backup", "publish"}
  /\ mig = "stage" => \A i \in 1..Len(seeds) : seeds[i] # BadLine
  /\ mig \in {"drop", "backup", "publish"} => MigVerifies(staged)
  /\ mig = "start" => mem = Closed
  /\ ~beside /\ mig # "idle" => mem = Closed
  /\ mem # Closed => Appends
  /\ ~beside /\ mem # Closed => Follows
  /\ LiveIsWhole

LEMMA LineFields ==
  /\ BadLine \in Line /\ BadLine.id = 0 /\ BadLine.v = 0 /\ <<>> \in Hash
  /\ Absent \in Seq(Line) /\ Rows(Absent) = <<>>
  /\ \A r \in Line : r.id \in Int /\ r.v \in Int /\ r.ts_seq \in Nat /\ r.this_hash \in Hash /\ (r.id = 0 => r = BadLine)
<1>1. BadLine \in Line /\ BadLine.id = 0 /\ BadLine.v = 0 /\ <<>> \in Hash
  BY DEF BadLine, Line, Hash
<1>2. [BadLine EXCEPT !.id = -1] \in Line
  <2> DEFINE a == [BadLine EXCEPT !.id = -1]
  <2>1. a = [id |-> -1, v |-> 0, ts_seq |-> 0, prev_hash |-> <<>>, this_hash |-> <<>>]
    BY DEF BadLine
  <2>2. -1 \in Int /\ -1 # 0 /\ 0 \in Nat /\ 0 \in Int
    OBVIOUS
  <2>3. a \in [id : Int, v : Int, ts_seq : Nat, prev_hash : Hash, this_hash : Hash] /\ a.id = -1
    BY <1>1, <2>1, <2>2
  <2> HIDE DEF a
  <2> QED
    BY <2>2, <2>3 DEF Line, a
<1>3. Absent \in Seq(Line) /\ Rows(Absent) = <<>>
  BY <1>2 DEF Absent, Rows
<1> QED
  BY <1>1, <1>3 DEF Line

LEMMA RowFields ==
  ASSUME NEW id \in Int \ {0}, NEW v \in Int, NEW seq \in Nat, NEW prev \in Hash
  PROVE  LET r == MigRow(id, v, seq, prev) IN
         r \in Line /\ r.id = id /\ r.v = v /\ r.ts_seq = seq /\ r.prev_hash = prev /\ r.this_hash \in Hash
<1>1. Append(prev, <<id, v>>) \in Hash
  BY DEF Hash
<1> QED
  BY <1>1 DEF MigRow, Line

\* The rows chained afresh are rows.
LEMMA RechainedIsLog ==
  ASSUME seeds \in Seq(Line), \A i \in 1..Len(seeds) : seeds[i] # BadLine
  PROVE  Rechained \in Seq(Line) /\ Len(Rechained) = Len(seeds)
<1>1. Len(seeds) \in Nat /\ \A i \in 1..Len(seeds) : seeds[i] \in Line /\ seeds[i].id \in Int \ {0} /\ seeds[i].ts_seq \in Nat
  BY LineFields
<1>2. ASSUME NEW i \in 1..Len(seeds)
      PROVE  MigRow(seeds[i].id, 2, seeds[i].ts_seq, [j \in 1..(i - 1) |-> <<seeds[j].id, 2>>]) \in Line
  <2>1. \A j \in 1..(i - 1) : <<seeds[j].id, 2>> \in Int \X Int
    BY <1>1
  <2> DEFINE prev == [j \in 1..(i - 1) |-> <<seeds[j].id, 2>>]
  <2>2. prev \in Hash
    BY <1>1, <2>1 DEF Hash
  <2> HIDE DEF prev
  <2>3. MigRow(seeds[i].id, 2, seeds[i].ts_seq, prev) \in Line
    BY <1>1, <2>2, RowFields
  <2> QED
    BY <2>3 DEF prev
<1> QED
  BY <1>1, <1>2 DEF Rechained

\* A file that verifies is a whole log of format 2.
LEMMA VerifiedIsWhole ==
  ASSUME NEW f \in Seq(Line), MigVerifies(f)
  PROVE  AllV2(f) /\ Chains(f) /\ 0 \notin Ids(f)
<1>1. CASE f = Absent
  BY <1>1, LineFields DEF AllV2, Chains, Ids
<1>2. CASE f # Absent
  <2>1. Rows(f) = f /\ \A i \in 1..Len(f) : f[i] \in Line
    BY <1>2 DEF Rows
  <2>2. AllV2(f) /\ Chains(f)
    BY <2>1 DEF MigVerifies, AllV2, Chains
  <2>3. \A i \in 1..Len(f) : f[i].id # 0
    BY <2>1, <2>2, LineFields DEF AllV2
  <2> QED
    BY <2>1, <2>2, <2>3 DEF Ids
<1> QED
  BY <1>1, <1>2

\* A row appended to rows of format 2 leaves such rows, and after the end that
\* memory knows a log that verifies.
LEMMA AppendedIsWhole ==
  ASSUME live \in Seq(Line), Appends, NEW id \in Nat \ {0}
  PROVE  LET r == MigRow(id, 2, mem.next_seq, mem.last_hash)
             f == Append(Rows(live), r)
         IN /\ f \in Seq(Line) /\ AllV2(f) /\ Rows(f) = f /\ f # <<>>
            /\ Follows /\ Chains(live) => Chains(f)
            /\ f[Len(f)] = r /\ r.this_hash \in Hash /\ r.ts_seq = mem.next_seq
            /\ Ids(f) = Ids(live) \cup {id}
<1> DEFINE r == MigRow(id, 2, mem.next_seq, mem.last_hash)
           g == Rows(live)
           f == Append(g, r)
<1>1. /\ r \in Line /\ r.id = id /\ r.v = 2 /\ r.ts_seq = mem.next_seq /\ r.prev_hash = mem.last_hash
      /\ r.this_hash \in Hash
  <2>1. mem.next_seq \in Nat /\ mem.last_hash \in Hash /\ id \in Int \ {0} /\ 2 \in Int
    BY DEF Appends
  <2> QED
    BY <2>1, RowFields
<1>2. g \in Seq(Line) /\ (live = g \/ g = <<>>)
  BY DEF Rows
<1> HIDE DEF r, g
<1>3. /\ f \in Seq(Line) /\ Len(f) = Len(g) + 1 /\ f[Len(g) + 1] = r /\ Len(g) \in Nat
      /\ \A i \in 1..Len(g) : f[i] = g[i]
  BY <1>1, <1>2
<1>4. f # Absent
  <2>1. [BadLine EXCEPT !.id = -1].id = -1
    BY DEF BadLine
  <2>2. Len(Absent) = 1 /\ Absent[1].id = -1
    BY <2>1 DEF Absent
  <2> HIDE DEF f
  <2>3. SUFFICES ASSUME f = Absent PROVE FALSE
    OBVIOUS
  <2>4. Len(g) + 1 = 1
    BY <1>3, <2>2, <2>3
  <2>5. Absent[1] = r
    BY <1>3, <2>3, <2>4
  <2>6. r.id # -1
    BY <1>1
  <2> QED
    BY <2>2, <2>5, <2>6
<1>5. Rows(f) = f
  BY <1>4 DEF Rows
<1> HIDE DEF f
<1>6. AllV2(f)
  BY <1>1, <1>3, <1>5 DEF AllV2, Appends, g
<1>7. Follows /\ Chains(live) => Chains(f)
  <2> SUFFICES ASSUME Follows, Chains(live), NEW i \in 1..Len(f)
               PROVE  \/ f[i].prev_hash = Genesis
                      \/ i > 1 /\ f[i].prev_hash = f[i - 1].this_hash /\ f[i].ts_seq > f[i - 1].ts_seq
    BY <1>5 DEF Chains
  <2>1. CASE i \in 1..Len(g)
    <3>1. f[i] = g[i] /\ (i > 1 => f[i - 1] = g[i - 1]) /\ g = live
      BY <1>2, <1>3, <2>1
    <3> QED
      BY <2>1, <3>1 DEF Chains, g
  <2>2. CASE i = Len(g) + 1 /\ g = <<>>
    BY <1>1, <1>3, <2>2 DEF Follows, g
  <2>3. CASE i = Len(g) + 1 /\ g # <<>>
    <3>1. g = live /\ Len(g) > 0 /\ f[i] = r /\ f[i - 1] = live[Len(live)]
      BY <1>2, <1>3, <2>3
    <3>2. mem.next_seq > live[Len(live)].ts_seq /\ mem.last_hash = live[Len(live)].this_hash
      BY <2>3, <3>1 DEF Follows, g
    <3> QED
      BY <1>1, <2>3, <3>1, <3>2
  <2> QED
    BY <1>3, <2>1, <2>2, <2>3
<1>8. Ids(f) = Ids(live) \cup {id}
  BY <1>1, <1>3, <1>5 DEF Ids, g
<1> QED
  BY <1>1, <1>3, <1>5, <1>6, <1>7, <1>8 DEF f, g, r

\* The steps of the migration itself: only BackUp and PublishLog touch the log, and
\* what they leave is none or the verified file.
LEMMA MigrationKeeps ==
  ASSUME MigInv, MigStep
  PROVE  MigInv'
<1>1. CASE Stage
  <2>1. mig = "stage" /\ UNCHANGED <<live, seeds, mem, beside, old>> /\ mig' \in {"verify", "idle"}
    BY <1>1 DEF Stage
  <2>2. Rechained \in Seq(Line) /\ Len(Rechained) = Len(seeds)
    BY <2>1, RechainedIsLog DEF MigInv
  <2>3. staged' \in Seq(Line)
    <3>1. CASE staged' = Rechained
      BY <2>2, <3>1
    <3>2. ASSUME NEW n \in 0..Len(seeds), staged' = Append(SubSeq(Rechained, 1, n), BadLine)
          PROVE  staged' \in Seq(Line)
      <4> DEFINE R == Rechained
      <4>1. R \in Seq(Line) /\ n \in 0..Len(R)
        BY <2>2
      <4> HIDE DEF R
      <4>2. SubSeq(R, 1, n) \in Seq(Line)
        BY <4>1
      <4> QED
        BY <3>2, <4>2, LineFields DEF R
    <3> QED
      BY <1>1, <3>1, <3>2 DEF Stage
  <2> QED
    BY <2>1, <2>3 DEF MigInv, LiveIsWhole, Appends, Follows
<1>2. CASE VerifyStaged
  BY <1>2 DEF VerifyStaged, MigInv, LiveIsWhole, Appends, Follows, MigVerifies
<1>3. CASE DropBackup
  BY <1>3 DEF DropBackup, MigInv, LiveIsWhole, Appends, Follows, MigVerifies
<1>4. CASE BackUp
  <2>1. mig = "backup" /\ live' = Absent /\ mig' = "publish" /\ UNCHANGED <<staged, seeds, mem, beside>>
    BY <1>4 DEF BackUp
  <2>2. LiveIsWhole'
    BY <2>1, LineFields DEF LiveIsWhole, Ids, AllV2, Chains
  <2>3. AllV2(live')
    BY <2>1, LineFields DEF AllV2
  <2> QED
    BY <2>1, <2>2, <2>3, LineFields DEF MigInv, MigVerifies, Appends
<1>5. CASE PublishLog
  <2>1. mig = "publish" /\ live' = staged /\ staged' = Absent /\ mig' = "idle" /\ UNCHANGED <<seeds, mem, beside>>
    BY <1>5 DEF PublishLog
  <2>2. AllV2(staged) /\ Chains(staged) /\ 0 \notin Ids(staged) /\ staged \in Seq(Line)
    BY <2>1, VerifiedIsWhole DEF MigInv
  <2>3. LiveIsWhole'
    BY <2>1, <2>2 DEF LiveIsWhole, AllV2, Chains, Ids
  <2> QED
    BY <2>1, <2>2, <2>3, LineFields DEF MigInv, Appends, AllV2
<1> QED
  BY <1>1, <1>2, <1>3, <1>4, <1>5 DEF MigStep

\* Another doiget on the log, while a migration is running or not.
LEMMA LogUseKeeps ==
  ASSUME MigInv, OpenLog \/ AppendRow
  PROVE  MigInv'
<1>1. CASE OpenLog
  <2>1. /\ mig # "start" /\ (~beside' => ~beside /\ mig = "idle")
        /\ AllV2(live) /\ live \in Seq(Line) /\ UNCHANGED <<live, staged, mig, seeds, old>>
        /\ mem' = IF Rows(live) = <<>> THEN [next_seq |-> 1, last_hash |-> Genesis]
                  ELSE [next_seq |-> live[Len(live)].ts_seq + 1, last_hash |-> live[Len(live)].this_hash]
    BY <1>1 DEF OpenLog, MigInv
  <2>2. Appends' /\ Follows'
    <3>1. CASE Rows(live) = <<>>
      BY <2>1, <3>1, LineFields DEF Appends, Follows, Genesis, AllV2, Rows
    <3>2. CASE Rows(live) # <<>>
      <4>1. Rows(live) = live /\ live # <<>>
        BY <3>2 DEF Rows
      <4>2. live[Len(live)] \in Line
        BY <2>1, <4>1
      <4>3. live[Len(live)].ts_seq \in Nat /\ live[Len(live)].this_hash \in Hash
        BY <4>2, LineFields
      <4>4. mem'.next_seq = live[Len(live)].ts_seq + 1 /\ mem'.last_hash = live[Len(live)].this_hash
        BY <2>1, <3>2
      <4>5. Rows(live') = Rows(live) /\ AllV2(live')
        BY <2>1 DEF Rows, AllV2
      <4> QED
        BY <2>1, <3>2, <4>3, <4>4, <4>5 DEF Appends, Follows
    <3> QED
      BY <3>1, <3>2
  <2> QED
    BY <2>1, <2>2 DEF MigInv, LiveIsWhole
<1>2. CASE AppendRow
  <2>1. PICK n \in 1..MaxAppends :
          /\ live' = Append(Rows(live), MigRow(100 + n, 2, mem.next_seq, mem.last_hash))
          /\ mem' = [next_seq |-> mem.next_seq + 1,
                     last_hash |-> MigRow(100 + n, 2, mem.next_seq, mem.last_hash).this_hash]
    BY <1>2 DEF AppendRow
  <2> DEFINE r == MigRow(100 + n, 2, mem.next_seq, mem.last_hash)
  <2>2. mem # Closed /\ UNCHANGED <<staged, mig, seeds, beside, old>>
    BY <1>2 DEF AppendRow
  <2>3. Appends /\ live \in Seq(Line) /\ LiveIsWhole /\ mem.next_seq \in Nat /\ mig # "start"
    BY <2>2 DEF MigInv, Appends
  <2>4. ~beside => mig = "idle" /\ Follows /\ Chains(live)
    BY <2>2, <2>3 DEF MigInv, LiveIsWhole, Appends
  <2>5. 100 + n \in Nat \ {0}
    OBVIOUS
  <2>6. /\ live' \in Seq(Line) /\ AllV2(live') /\ Rows(live') = live' /\ live' # <<>>
        /\ Follows /\ Chains(live) => Chains(live')
        /\ live'[Len(live')] = r /\ r.this_hash \in Hash /\ r.ts_seq = mem.next_seq
        /\ Ids(live') = Ids(live) \cup {100 + n}
    BY <2>1, <2>3, <2>5, AppendedIsWhole
  <2> HIDE DEF r
  <2>7. mem'.next_seq = mem.next_seq + 1 /\ mem'.last_hash = r.this_hash
    BY <2>1 DEF r
  <2>8. Appends' /\ Follows'
    BY <2>3, <2>6, <2>7 DEF Appends, Follows
  <2>9. LiveIsWhole'
    BY <2>2, <2>3, <2>4, <2>5, <2>6 DEF LiveIsWhole
  <2> QED
    BY <2>2, <2>3, <2>4, <2>6, <2>8, <2>9 DEF MigInv
<1> QED
  BY <1>1, <1>2

\* Whatever logs there are to begin with, wherever a migration fails, is killed or
\* is run again, and whatever another doiget appends meanwhile: the file under the
\* log's name is never a half-rewritten one (migrate_v1_to_v2), and one of format 2
\* verifies as long as no other doiget had it open during a migration.
THEOREM NoHalfMigratedLog == MigSpec => []LiveIsWhole
<1>1. MigInit => MigInv
  <2> SUFFICES ASSUME MigInit PROVE MigInv
    OBVIOUS
  <2>1. LiveIsWhole
    BY LineFields DEF MigInit, LiveIsWhole, Ids, AllV2, Chains
  <2> QED
    BY <2>1, LineFields DEF MigInit, MigInv
<1>2. MigInv /\ [MigNext]_migVars => MigInv'
  <2> SUFFICES ASSUME MigInv, [MigNext]_migVars PROVE MigInv'
    OBVIOUS
  <2>1. CASE UNCHANGED migVars
    BY <2>1 DEF migVars, MigInv, LiveIsWhole, Appends, Follows, MigVerifies
  <2>2. CASE Install
    <3>1. /\ live' \in OldLogs /\ old' = Ids(live') /\ mig' = "idle" /\ mem' = mem /\ mem = Closed
          /\ UNCHANGED <<staged, seeds, beside>>
      BY <2>2 DEF Install, MigInv
    <3>2. LiveIsWhole' /\ live' \in Seq(Line)
      BY <3>1, LogsAssumption DEF LiveIsWhole
    <3> QED
      BY <3>1, <3>2 DEF MigInv
  <2>3. ASSUME NEW dry \in BOOLEAN, MigRead(dry) PROVE MigInv'
    <3>1. /\ mig' \in {"idle", "stage"} /\ seeds' = Rows(live) /\ UNCHANGED <<live, staged, mem, old>>
          /\ ~beside' => ~beside /\ (mig' = "stage" => mem = Closed)
          /\ mig = "idle"
          /\ mig' = "stage" => \A i \in 1..Len(Rows(live)) : Rows(live)[i] # BadLine
      BY <2>3 DEF MigRead
    <3>2. Rows(live) \in Seq(Line)
      BY DEF Rows, MigInv
    <3> QED
      BY <3>1, <3>2 DEF MigInv, LiveIsWhole, Appends, Follows
  <2>4. CASE MigStep
    BY <2>4, MigrationKeeps
  <2>5. CASE MigFails
    BY <2>5 DEF MigFails, MigInv, LiveIsWhole, Appends, Follows
  <2>6. CASE Kill \/ CloseLog
    BY <2>6 DEF Kill, CloseLog, MigInv, LiveIsWhole, Appends, Follows, MigVerifies
  <2>7. CASE OpenLog \/ AppendRow
    BY <2>7, LogUseKeeps
  <2>8. MigNext \/ UNCHANGED migVars
    OBVIOUS
  <2> QED
    BY <2>1, <2>2, <2>3, <2>4, <2>5, <2>6, <2>7, <2>8, Zenon DEF MigNext
<1>3. MigInv => LiveIsWhole
  BY DEF MigInv
<1> QED
  BY <1>1, <1>2, <1>3, PTL DEF MigSpec

-----------------------------------------------------------------------------
(***************************************************************************)
(* Software citations.  Assembled says, for each request still to come,    *)
(* that the parts put together so far are of the version it will be about. *)
(***************************************************************************)

\* A tag, or none.
MaybeTag == Tags \cup {NoTag}

Hub == [repo : BOOLEAN, tags : SUBSET Tags, released : SUBSET Tags, latest : MaybeTag,
        cff : [Tags \cup {HEAD} -> CffKinds \cup {"none"}]]
Places == {"idle", "repo", "release", "commit", "cff"} \cup Over
Job == [what : {"none", "cite", "verify"}, tag : MaybeTag, at : Places, moved : BOOLEAN]
Version == MaybeTag \cup {HEAD}
Citation == [url : Version, date : Version, version : Version, cff : Version, from_cff : BOOLEAN,
             noted : SUBSET {"latest", "commit", "owner"}]

\* What a citation in the making is made of, by the request that comes next.
Assembled ==
  /\ job.at \in {"idle", "repo", "release"} => cited = NoCitation
  /\ job.at \in {"repo", "release", "commit"} => job.what # "none"
  /\ job.at = "commit" /\ job.what = "cite" =>
       cited.url = job.tag /\ cited.version = job.tag /\ cited.cff = NoTag /\ job.tag # NoTag
  /\ job.at = "cff" =>
       /\ cited.url = cited.version /\ cited.date = cited.version
       /\ cited.version \in MaybeTag
       /\ job.tag # NoTag => cited.version = job.tag
       /\ job.tag = NoTag /\ cited.version \in Tags => "latest" \in cited.noted
SoftwareInv == hub \in Hub /\ job \in Job /\ cited \in Citation /\ Assembled /\ OneVersion

\* What the owner does leaves the citation and the place of the call alone.
LEMMA OwnerMoves ==
  ASSUME SoftwareInv, NEW new \in Hub, Moves(new)
  PROVE  SoftwareInv'
<1>1. hub' = new /\ job' = [job EXCEPT !.moved = TRUE] /\ cited' = cited /\ job \in Job /\ cited \in Citation
  BY DEF Moves, SoftwareInv
<1>2. job' \in Job /\ job'.at = job.at /\ job'.what = job.what /\ job'.tag = job.tag
  BY <1>1 DEF Job
<1>3. Assembled' /\ OneVersion'
  BY <1>1, <1>2 DEF SoftwareInv, Assembled, OneVersion
<1> QED
  BY <1>1, <1>2, <1>3 DEF SoftwareInv

LEMMA OwnerKeeps ==
  ASSUME SoftwareInv,
         \/ \E t \in Tags : (\E k \in CffKinds : Tag(t, k)) \/ PublishRelease(t) \/ DeleteTag(t)
         \/ TakeDown
  PROVE  SoftwareInv'
<1>1. hub \in Hub
  BY DEF SoftwareInv
<1>2. ASSUME NEW t \in Tags, NEW k \in CffKinds, Tag(t, k) PROVE SoftwareInv'
  <2>1. Moves([hub EXCEPT !.tags = @ \cup {t}, !.cff[t] = k, !.cff[HEAD] = k])
    BY <1>2 DEF Tag
  <2>2. [hub EXCEPT !.tags = @ \cup {t}, !.cff[t] = k, !.cff[HEAD] = k] \in Hub
    BY <1>1 DEF Hub
  <2> QED
    BY <2>1, <2>2, OwnerMoves
<1>3. ASSUME NEW t \in Tags, PublishRelease(t) PROVE SoftwareInv'
  <2>1. Moves([hub EXCEPT !.released = @ \cup {t}, !.latest = t])
    BY <1>3 DEF PublishRelease
  <2>2. [hub EXCEPT !.released = @ \cup {t}, !.latest = t] \in Hub
    BY <1>1 DEF Hub, MaybeTag
  <2> QED
    BY <2>1, <2>2, OwnerMoves
<1>4. ASSUME NEW t \in Tags, DeleteTag(t) PROVE SoftwareInv'
  <2>1. PICK l \in (IF hub.released \ {t} = {} THEN {NoTag} ELSE hub.released \ {t}) :
          Moves([hub EXCEPT !.tags = @ \ {t}, !.released = hub.released \ {t}, !.latest = IF @ = t THEN l ELSE @])
    BY <1>4 DEF DeleteTag
  <2>2. l \in MaybeTag
    BY <1>1, <2>1 DEF Hub, MaybeTag
  <2>3. [hub EXCEPT !.tags = @ \ {t}, !.released = hub.released \ {t}, !.latest = IF @ = t THEN l ELSE @] \in Hub
    BY <1>1, <2>2 DEF Hub
  <2> QED
    BY <2>1, <2>3, OwnerMoves
<1>5. CASE TakeDown
  <2>1. Moves([hub EXCEPT !.repo = FALSE])
    BY <1>5 DEF TakeDown
  <2>2. [hub EXCEPT !.repo = FALSE] \in Hub
    BY <1>1 DEF Hub
  <2> QED
    BY <2>1, <2>2, OwnerMoves
<1> QED
  BY <1>2, <1>3, <1>4, <1>5

\* A call begins, and is forgotten, with nothing put together.
LEMMA CallBegins ==
  ASSUME SoftwareInv, NEW what \in {"cite", "verify"}, NEW tag \in ValidTags \cup {NoTag},
         Start(what, tag) \/ Again
  PROVE  SoftwareInv'
<1>1. NoCitation \in Citation /\ NoJob \in Job
  BY DEF NoCitation, Citation, Version, NoJob, Job, MaybeTag, Places
<1>2. hub' = hub /\ cited' = NoCitation
  BY DEF Start, Again
<1>3. job' \in Job /\ job'.at \in {"idle", "repo"} /\ (job'.at = "repo" => job'.what # "none")
  <2>1. CASE Start(what, tag)
    <3>1. job' = [what |-> what, tag |-> tag, at |-> "repo", moved |-> FALSE] /\ tag \in MaybeTag
      BY <2>1, SoftwareAssumption DEF Start, MaybeTag
    <3> QED
      BY <3>1 DEF Job, Places
  <2>2. CASE Again
    BY <1>1, <2>2 DEF Again, NoJob
  <2> QED
    BY <2>1, <2>2
<1> QED
  BY <1>1, <1>2, <1>3 DEF SoftwareInv, Assembled, OneVersion

\* A step that only moves the call, to a place where no citation is in the making.
LEMMA GoesOn ==
  ASSUME SoftwareInv, NEW at \in Over \ {"cited"}, Goto(at), UNCHANGED <<hub, cited>>
  PROVE  SoftwareInv'
<1>1. job' = [job EXCEPT !.at = at] /\ job \in Job /\ at \in Places
  BY DEF Goto, SoftwareInv, Places
<1>2. job' \in Job /\ job'.at = at
  BY <1>1 DEF Job
<1>3. Assembled' /\ OneVersion'
  BY <1>2 DEF Assembled, OneVersion, Over
<1> QED
  BY <1>2, <1>3 DEF SoftwareInv

LEMMA RepoKeeps ==
  ASSUME SoftwareInv, GetRepo
  PROVE  SoftwareInv'
<1>1. CASE Goto("release") /\ job.what \in {"cite", "verify"}
  <2>1. job' = [job EXCEPT !.at = "release"] /\ job \in Job /\ job.at = "repo" /\ UNCHANGED <<hub, cited>>
    BY <1>1 DEF GetRepo, Goto, SoftwareInv
  <2>2. job' \in Job /\ job'.at = "release" /\ job'.what = job.what
    BY <2>1 DEF Job, Places
  <2>3. cited' = NoCitation /\ Assembled' /\ OneVersion'
    BY <1>1, <2>1, <2>2 DEF SoftwareInv, Assembled, OneVersion
  <2> QED
    BY <2>1, <2>2, <2>3 DEF SoftwareInv
<1>2. CASE \E at \in {"gone", "NOT_FOUND", "there"} : Goto(at)
  BY <1>2, GoesOn DEF GetRepo, Over
<1>3. job.what \in {"cite", "verify"}
  BY DEF SoftwareInv, Assembled, Job, GetRepo
<1> QED
  BY <1>1, <1>2, <1>3 DEF GetRepo, NotFound

\* The release, and with it the tag.
LEMMA ReleaseKeeps ==
  ASSUME ValidTags = Tags, SoftwareInv, GetRelease
  PROVE  SoftwareInv'
<1> DEFINE release == IF job.tag = NoTag THEN hub.latest ELSE job.tag
           found == hub.repo /\ release \in hub.released
           tag == IF job.tag # NoTag \/ (found /\ release \in ValidTags) THEN release ELSE NoTag
           new == [cited EXCEPT
                     !.url = IF found THEN release ELSE tag, !.date = IF found THEN release ELSE NoTag, !.version = tag,
                     !.noted = IF job.tag = NoTag /\ tag # NoTag THEN {"latest"} ELSE {}]
<1>1. /\ job.at = "release" /\ hub' = hub /\ hub \in Hub /\ job \in Job /\ cited \in Citation
      /\ cited = NoCitation /\ job.what # "none"
      /\ hub.released \subseteq Tags /\ hub.latest \in MaybeTag /\ job.tag \in MaybeTag
  BY DEF SoftwareInv, GetRelease, Assembled, Hub, Job
<1>2. CASE job.what = "verify" /\ Goto("there") /\ cited' = cited
  BY <1>1, <1>2, GoesOn DEF Over
<1>3. CASE job.what = "verify" /\ Goto("commit") /\ cited' = cited
  <2>1. job' = [job EXCEPT !.at = "commit"]
    BY <1>3 DEF Goto
  <2>2. job' \in Job /\ job'.at = "commit" /\ job'.what = "verify"
    BY <1>1, <1>3, <2>1 DEF Job, Places
  <2>3. Assembled' /\ OneVersion'
    BY <2>2 DEF Assembled, OneVersion
  <2> QED
    BY <1>1, <1>3, <2>2, <2>3 DEF SoftwareInv
<1>4. CASE job.what # "verify" /\ cited' = new /\ Goto(IF ~found /\ tag # NoTag THEN "commit" ELSE "cff")
  <2>1. /\ release \in MaybeTag /\ tag \in MaybeTag /\ (found => release \in Tags)
        /\ (job.tag # NoTag => tag = job.tag) /\ (found => tag = release)
        /\ (tag # NoTag /\ ~found => tag = job.tag)
    BY <1>1 DEF MaybeTag
  <2>2. /\ new \in Citation /\ new.url = tag /\ new.version = tag /\ new.cff = NoTag
        /\ new.date = (IF found THEN tag ELSE NoTag)
        /\ (job.tag = NoTag /\ tag # NoTag => "latest" \in new.noted)
    <3> HIDE DEF release, found, tag
    <3> QED
      BY <1>1, <2>1 DEF Citation, NoCitation, Version, MaybeTag
  <2>3. PICK at \in {"commit", "cff"} : job' = [job EXCEPT !.at = at] /\ ((at = "commit") <=> (~found /\ tag # NoTag))
    BY <1>4 DEF Goto
  <2>4. job' \in Job /\ job'.at = at /\ job'.what = job.what /\ job'.tag = job.tag
    BY <1>1, <2>3 DEF Job, Places
  <2> HIDE DEF release, found, tag, new
  <2>5. NoTag \notin Tags
    BY SoftwareAssumption
  <2>6. Assembled' /\ OneVersion'
    BY <1>1, <1>4, <2>1, <2>2, <2>3, <2>4, <2>5 DEF Assembled, OneVersion, MaybeTag
  <2> QED
    BY <1>1, <1>4, <2>2, <2>4, <2>6 DEF SoftwareInv
<1> QED
  <2>1. IF job.what = "verify" THEN Goto(IF found THEN "there" ELSE "commit") /\ cited' = cited
        ELSE cited' = new /\ Goto(IF ~found /\ tag # NoTag THEN "commit" ELSE "cff")
    BY DEF GetRelease
  <2> QED
    BY <1>2, <1>3, <1>4, <2>1

LEMMA CommitKeeps ==
  ASSUME SoftwareInv, GetCommit
  PROVE  SoftwareInv'
<1> DEFINE new == [cited EXCEPT !.date = job.tag, !.noted = @ \cup {"commit"}]
<1>1. job.at = "commit" /\ hub' = hub /\ hub \in Hub /\ job \in Job /\ cited \in Citation /\ job.tag \in MaybeTag
  BY DEF SoftwareInv, GetCommit, Job
<1>2. CASE cited' = cited /\ \E at \in {"gone", "NOT_FOUND", "there"} : Goto(at)
  BY <1>1, <1>2, GoesOn DEF Over
<1>3. CASE job.what # "verify" /\ cited' = new /\ Goto("cff")
  <2>1. /\ job.what = "cite" /\ cited.url = job.tag /\ cited.version = job.tag /\ cited.cff = NoTag
        /\ job.tag # NoTag
    BY <1>1, <1>3 DEF SoftwareInv, Assembled, Job
  <2>2. /\ new \in Citation /\ new.url = job.tag /\ new.date = job.tag /\ new.version = job.tag
    BY <1>1, <2>1 DEF Citation, Version
  <2>3. job' \in Job /\ job'.at = "cff" /\ job'.what = job.what /\ job'.tag = job.tag
    BY <1>1, <1>3 DEF Goto, Job, Places
  <2> HIDE DEF new
  <2>4. Assembled' /\ OneVersion'
    BY <1>1, <1>3, <2>1, <2>2, <2>3 DEF Assembled, OneVersion
  <2> QED
    BY <1>1, <1>3, <2>2, <2>3, <2>4 DEF SoftwareInv
<1> QED
  BY <1>2, <1>3 DEF GetCommit, NotFound

\* CITATION.cff is asked for at the version that is cited, so what it adds is of
\* that version; only a citation of no version takes what HEAD has.
LEMMA CffKeeps ==
  ASSUME SoftwareInv, GetCff
  PROVE  SoftwareInv'
<1> DEFINE ref == IF cited.version = NoTag THEN HEAD ELSE cited.version
           there == hub.repo /\ (ref = HEAD \/ ref \in hub.tags)
           kind == IF there THEN hub.cff[ref] ELSE "none"
           taken == IF kind = "none" THEN NoTag ELSE HEAD
           new == [cited EXCEPT !.cff = IF kind = "none" THEN NoTag ELSE ref, !.from_cff = kind = "authors",
                     !.version = IF @ # NoTag THEN @ ELSE IF kind = "none" THEN NoTag ELSE HEAD,
                     !.date = IF @ # NoTag THEN @ ELSE IF kind = "none" THEN NoTag ELSE HEAD,
                     !.noted = IF kind = "authors" THEN @ ELSE @ \cup {"owner"}]
<1>1. /\ job.at = "cff" /\ hub' = hub /\ hub \in Hub /\ job \in Job /\ cited \in Citation /\ job.tag \in MaybeTag
      /\ cited.url = cited.version /\ cited.date = cited.version
      /\ cited.version \in MaybeTag
      /\ job.tag # NoTag => cited.version = job.tag
      /\ job.tag = NoTag /\ cited.version \in Tags => "latest" \in cited.noted
  BY DEF SoftwareInv, GetCff, Job, Assembled
<1>2. cited' = new /\ Goto("cited")
  BY DEF GetCff
<1>3. job' \in Job /\ job'.at = "cited" /\ job'.tag = job.tag
  BY <1>1, <1>2 DEF Goto, Job, Places, Over
<1>4. ref \in Tags \cup {HEAD} /\ (cited.version # NoTag => ref = cited.version)
  BY <1>1 DEF MaybeTag
<1>5. HEAD # NoTag /\ NoTag \notin Tags /\ HEAD \notin Tags
  BY SoftwareAssumption DEF HEAD, NoTag
<1> HIDE DEF there, kind
<1>6. taken \in {HEAD, NoTag}
  OBVIOUS
<1>7. new.url = cited.url /\ cited.noted \subseteq new.noted /\ (~new.from_cff => "owner" \in new.noted)
  BY <1>1 DEF Citation
<1>8. /\ new.version = (IF cited.version # NoTag THEN cited.version ELSE taken)
      /\ new.date = (IF cited.date # NoTag THEN cited.date ELSE taken)
      /\ new.cff \in {ref, NoTag}
  BY <1>1 DEF Citation
<1>9. new \in Citation
  <2> HIDE DEF ref
  <2>1. (kind = "authors") \in BOOLEAN
    OBVIOUS
  <2>2. ref \in Version /\ HEAD \in Version /\ NoTag \in Version
    BY <1>4 DEF Version, MaybeTag
  <2> QED
    BY <1>1, <2>1, <2>2 DEF Citation
<1> HIDE DEF new, taken
<1>10. {new.url, new.date, new.version, new.cff} \subseteq {ref, NoTag}
  BY <1>1, <1>5, <1>6, <1>7, <1>8
<1>11. /\ job.tag # NoTag => new.version = job.tag
       /\ job.tag = NoTag /\ new.version \in Tags => "latest" \in new.noted
  BY <1>1, <1>5, <1>6, <1>7, <1>8
<1> HIDE DEF ref
<1>12. OneVersion'
  BY <1>2, <1>3, <1>4, <1>7, <1>10, <1>11 DEF OneVersion
<1>13. Assembled'
  BY <1>3 DEF Assembled
<1> QED
  BY <1>1, <1>2, <1>3, <1>9, <1>12, <1>13 DEF SoftwareInv

\* A citation describes one version of the software, whatever the owner publishes
\* or deletes while it is put together (resolve_github), provided that the tags of
\* the repository are tags valid_tag takes.
THEOREM CitesOneVersion ==
  ASSUME ValidTags = Tags
  PROVE  SoftwareSpec => []OneVersion
<1>1. SoftwareInit => SoftwareInv
  <2> SUFFICES ASSUME SoftwareInit PROVE SoftwareInv
    OBVIOUS
  <2>1. hub \in Hub
    BY DEF SoftwareInit, Hub, MaybeTag
  <2>2. NoCitation \in Citation /\ NoJob \in Job /\ NoJob.at = "idle"
    BY DEF NoCitation, Citation, Version, NoJob, Job, MaybeTag, Places
  <2> QED
    BY <2>1, <2>2 DEF SoftwareInit, SoftwareInv, Assembled, OneVersion
<1>2. SoftwareInv /\ [SoftwareNext]_softwareVars => SoftwareInv'
  <2> SUFFICES ASSUME SoftwareInv, [SoftwareNext]_softwareVars PROVE SoftwareInv'
    OBVIOUS
  <2>1. CASE UNCHANGED softwareVars
    BY <2>1 DEF softwareVars, SoftwareInv, Assembled, OneVersion
  <2>2. CASE \/ \E t \in Tags : (\E k \in CffKinds : Tag(t, k)) \/ PublishRelease(t) \/ DeleteTag(t)
             \/ TakeDown
    BY <2>2, OwnerKeeps
  <2>3. ASSUME NEW what \in {"cite", "verify"}, NEW tag \in ValidTags \cup {NoTag}, Start(what, tag) PROVE SoftwareInv'
    BY <2>3, CallBegins
  <2>4. CASE Again
    BY <2>4, CallBegins
  <2>5. CASE GetFails
    BY <2>5, GoesOn DEF GetFails, Over
  <2>6. CASE GetRepo \/ GetRelease \/ GetCommit \/ GetCff
    BY <2>6, RepoKeeps, ReleaseKeeps, CommitKeeps, CffKeeps
  <2>7. SoftwareNext \/ UNCHANGED softwareVars
    OBVIOUS
  <2> QED
    BY <2>1, <2>2, <2>3, <2>4, <2>5, <2>6, <2>7, Zenon DEF SoftwareNext
<1>3. SoftwareInv => OneVersion
  BY DEF SoftwareInv
<1> QED
  BY <1>1, <1>2, <1>3, PTL DEF SoftwareSpec

-----------------------------------------------------------------------------
(***************************************************************************)
(* Searches.  Part is what is known of a search between two requests: the  *)
(* names still to be resolved are the last ones asked for, and each of the *)
(* others has an identifier among ids that its search found.               *)
(***************************************************************************)

Below == {pair \in Nat \X Nat : pair[1] < pair[2]}

\* A set of naturals has a least member.
LEMMA LeastNumber ==
  ASSUME NEW S, S \subseteq Nat, S # {}
  PROVE  \E m \in S : \A k \in S : m <= k
<1>1. Below = OpToRel(<, Nat)
  BY Zenon DEF Below, OpToRel
<1>2. IsWellFoundedOn(Below, Nat)
  BY <1>1, NatLessThanWellFounded, Zenon
<1>3. PICK m \in S : \A k \in S : ~(<<k, m>> \in Below)
  BY <1>2, WFMin, Zenon
<1>4. \A k \in S : ~(k < m)
  BY <1>3 DEF Below
<1>5. \A k \in S : m <= k
  BY <1>4
<1> QED
  BY <1>5

Topped(found) == \E c \in found : \A d \in found : d.relevance <= c.relevance

\* Of the entities on a page one is the most relevant: a page without one would
\* have a smallest part without one, and that has one less than itself that has.
LEMMA PageIsTopped ==
  ASSUME NEW found, IsFiniteSet(found), found # {}, \A c \in found : c.relevance \in Nat
  PROVE  Topped(found)
<1> DEFINE bare == {s \in SUBSET found : s # {} /\ ~Topped(s)}
           sizes == {Cardinality(s) : s \in bare}
<1>1. \A s \in SUBSET found : IsFiniteSet(s) /\ Cardinality(s) \in Nat
  BY FS_Subset, FS_CardinalityType
<1> SUFFICES ASSUME ~Topped(found) PROVE FALSE
  OBVIOUS
<1>2. sizes \subseteq Nat /\ sizes # {}
  BY <1>1
<1>3. PICK m \in sizes : \A k \in sizes : m <= k
  <2> HIDE DEF sizes
  <2> QED
    BY <1>2, LeastNumber
<1>4. PICK s \in bare : Cardinality(s) = m
  BY <1>3
<1>5. PICK x \in s : TRUE
  BY <1>4
<1> DEFINE rest == s \ {x}
<1>6. IsFiniteSet(s) /\ Cardinality(s) \in Nat
  BY <1>1, <1>4
<1>7. Cardinality(rest) = Cardinality(s) - 1
  <2>1. Cardinality(s \ {x}) = IF x \in s THEN Cardinality(s) - 1 ELSE Cardinality(s)
    BY <1>6, FS_RemoveElement
  <2> QED
    BY <2>1, <1>5
<1>8. rest \in SUBSET found /\ rest \notin bare
  <2>1. rest \in SUBSET found
    BY <1>4
  <2>2. ASSUME rest \in bare PROVE FALSE
    <3>1. Cardinality(rest) \in sizes
      BY <2>2
    <3>2. m <= Cardinality(rest)
      BY <3>1, <1>3
    <3> HIDE DEF rest
    <3> QED
      BY <3>2, <1>7, <1>6, <1>4
  <2> QED
    BY <2>1, <2>2
<1>9. \A c \in s : c.relevance \in Nat
  BY <1>4
<1>10. CASE rest = {}
  <2>1. \A d \in s : d = x
    BY <1>10
  <2>2. Topped(s)
    BY <2>1, <1>5, <1>9 DEF Topped
  <2> QED
    BY <2>2, <1>4
<1>11. CASE rest # {}
  <2>1. Topped(rest)
    BY <1>8, <1>11
  <2>2. PICK c \in rest : \A d \in rest : d.relevance <= c.relevance
    BY <2>1 DEF Topped
  <2>3. \A d \in s : d = x \/ d \in rest
    OBVIOUS
  <2>4. c \in s /\ c.relevance \in Nat /\ x.relevance \in Nat
    BY <2>2, <1>5, <1>9
  <2>5. CASE x.relevance <= c.relevance
    <3>1. \A d \in s : d.relevance <= c.relevance
      BY <2>2, <2>3, <2>5
    <3> QED
      BY <3>1, <2>4, <1>4 DEF Topped
  <2>6. CASE c.relevance <= x.relevance
    <3>1. \A d \in s : d.relevance <= x.relevance
      <4> HIDE DEF rest
      <4> QED
        BY <2>2, <2>3, <2>4, <2>6, <1>9
    <3> QED
      BY <3>1, <1>5, <1>4 DEF Topped
  <2> QED
    BY <2>4, <2>5, <2>6
<1> QED
  BY <1>10, <1>11

Meant(found) == \E c \in found : Unmistakable(c, found)

\* select_entity returns the entity that was meant, and fails when none is.
LEMMA EntityIsFound ==
  ASSUME NEW found \in NameAnswers, select_entity(found) \notin Failures
  PROVE  \E c \in found : c.id = select_entity(found) /\ Unmistakable(c, found)
<1> DEFINE exact == {c \in found : c.exact}
           top == CHOOSE c \in found : \A d \in found : d.relevance <= c.relevance
           rest == found \ {top}
           second == CHOOSE c \in rest : \A d \in rest : d.relevance <= c.relevance
           stands == exact = {} /\ second.relevance > 0 /\ top.relevance >= DOMINANCE_RATIO * second.relevance
<1>1. IsFiniteSet(found) /\ \A c \in found : c.relevance \in Nat
  BY DiscoveryAssumption
<1>2. IsFiniteSet(exact) /\ Cardinality(exact) \in Nat
  <2>1. exact \in SUBSET found
    OBVIOUS
  <2> QED
    BY <1>1, <2>1, FS_Subset, FS_CardinalityType
<1>3. select_entity(found) =
        IF found = {} THEN "NotFound"
        ELSE IF Cardinality(found) = 1 THEN top.id
        ELSE IF Cardinality(exact) = 1 THEN (CHOOSE c \in exact : TRUE).id
        ELSE IF stands THEN top.id
        ELSE "Ambiguous"
  BY Zenon DEF select_entity
<1>4. found # {}
  BY <1>3 DEF Failures
<1>5. top \in found
  <2>1. \E c \in found : \A d \in found : d.relevance <= c.relevance
    BY <1>1, <1>4, PageIsTopped DEF Topped
  <2> QED
    BY <2>1, Zenon
<1>6. CASE Cardinality(found) = 1
  <2>1. \E x : found = {x}
    BY <1>6, <1>1, FS_Singleton
  <2>2. found = {top}
    <3> HIDE DEF top
    <3> QED
      BY <2>1, <1>5
  <2>3. select_entity(found) = top.id
    BY <1>3, <1>4, <1>6
  <2> HIDE DEF top
  <2> QED
    BY <2>2, <2>3, <1>5 DEF Unmistakable
<1>7. CASE Cardinality(found) # 1 /\ Cardinality(exact) = 1
  <2> DEFINE named == CHOOSE c \in exact : TRUE
  <2>1. select_entity(found) = named.id
    BY <1>3, <1>4, <1>7
  <2>2. \E x : exact = {x}
    <3> HIDE DEF exact
    <3> QED
      BY <1>7, <1>2, FS_Singleton
  <2>3. exact = {named}
    <3> HIDE DEF exact
    <3> QED
      BY <2>2, Zenon
  <2>4. named \in found /\ named.exact /\ \A d \in found : d.exact => d = named
    <3> HIDE DEF named
    <3> QED
      BY <2>3
  <2> HIDE DEF named
  <2> QED
    BY <2>1, <2>4 DEF Unmistakable
<1>8. CASE Cardinality(found) # 1 /\ Cardinality(exact) # 1
  <2>1. stands /\ select_entity(found) = top.id
    BY <1>3, <1>4, <1>8 DEF Failures
  <2>2. IsFiniteSet(rest) /\ rest # {}
    <3>1. IsFiniteSet(rest)
      BY <1>1, FS_RemoveElement
    <3>2. ASSUME rest = {} PROVE FALSE
      <4>1. found = {top}
        BY <3>2, <1>5
      <4>2. Cardinality({top}) = 1
        BY FS_Singleton
      <4> HIDE DEF top
      <4> QED
        BY <4>1, <4>2, <1>8
    <3> QED
      BY <3>1, <3>2
  <2>3. second \in rest /\ \A d \in rest : d.relevance <= second.relevance
    <3>1. \A c \in rest : c.relevance \in Nat
      BY <1>1
    <3> HIDE DEF rest
    <3>2. \E c \in rest : \A d \in rest : d.relevance <= c.relevance
      BY <2>2, <3>1, PageIsTopped DEF Topped
    <3> QED
      BY <3>2, Zenon
  <2>4. \A d \in found : ~d.exact
    BY <2>1
  <2>5. second.relevance > 0 /\ top.relevance >= 2 * second.relevance
    BY <2>1 DEF DOMINANCE_RATIO
  <2> HIDE DEF top, second
  <2>6. \A d \in rest : d.relevance \in Nat /\ second.relevance \in Nat /\ top.relevance \in Nat
    BY <1>1, <1>5, <2>3
  <2>7. \A d \in rest : top.relevance >= 2 * d.relevance
    <3> HIDE DEF rest
    <3> QED
      BY <2>3, <2>5, <2>6
  <2>8. \E d \in rest : d.relevance > 0
    BY <2>3, <2>5
  <2> QED
    BY <2>1, <2>4, <2>7, <2>8, <1>5 DEF Unmistakable
<1> QED
  BY <1>6, <1>7, <1>8

NameKinds == {"author", "venue", "publisher"}

\* The names that are not pending have the identifier of what they meant.
Resolved(q) ==
  /\ names \in Seq(NameKinds) /\ Len(names) <= Len(q.names)
  /\ \A j \in 1..Len(names) : names[j] = q.names[Len(q.names) - Len(names) + j]
  /\ \A n \in 1..(Len(q.names) - Len(names)) :
       \E a \in answers, i \in ids : a.kind = q.names[n] /\ \E c \in a.found : Unmistakable(c, a.found) /\ c.id = i.id
  /\ \A a \in answers : Meant(a.found)

SearchInv ==
  /\ phase = "idle" => answers = {}
  /\ phase \in {"names", "works"} =>
       asked.kind = "search" /\ asked.q \in Searches /\ validate(asked.q) /\ Resolved(asked.q)
  /\ phase = "names" => names # <<>>
  /\ phase = "works" => names = <<>>
  /\ phase \in {"seed", "citing"} => asked.kind = "frontier"
  /\ phase = "citing" => ids = {[kind |-> "seed", id |-> asked.q.seed]}
  /\ phase = "link" => asked.kind = "link"

\* What a page comes to in some order has the page's length and is the page.
LEMMA PageInOrder ==
  ASSUME NEW onPage, IsFiniteSet(onPage), NEW s \in Orders(onPage)
  PROVE  /\ s \in Seq(onPage) /\ Len(s) = Cardinality(onPage) /\ DOMAIN s = 1..Len(s)
         /\ {s[i] : i \in DOMAIN s} = onPage
<1>1. Cardinality(onPage) \in Nat
  BY FS_CardinalityType
<1>2. s \in [1..Cardinality(onPage) -> onPage] /\ \A i, j \in DOMAIN s : s[i] = s[j] => i = j
  BY DEF Orders
<1>3. s \in Seq(onPage) /\ Len(s) = Cardinality(onPage) /\ DOMAIN s = 1..Len(s)
  BY <1>1, <1>2
<1>4. ASSUME NEW w \in onPage, \A i \in DOMAIN s : s[i] # w PROVE FALSE
  <2>1. IsFiniteSet(onPage \ {w}) /\ Cardinality(onPage \ {w}) = Cardinality(onPage) - 1
    <3>1. /\ IsFiniteSet(onPage \ {w})
          /\ Cardinality(onPage \ {w}) = IF w \in onPage THEN Cardinality(onPage) - 1 ELSE Cardinality(onPage)
      BY FS_RemoveElement
    <3> QED
      BY <3>1, <1>4
  <2>2. IsFiniteSet(1..Cardinality(onPage)) /\ Cardinality(1..Cardinality(onPage)) = Cardinality(onPage)
    <3>1. /\ IsFiniteSet(1..Cardinality(onPage))
          /\ Cardinality(1..Cardinality(onPage)) = IF 1 > Cardinality(onPage) THEN 0 ELSE Cardinality(onPage) - 1 + 1
      BY <1>1, FS_Interval
    <3> QED
      BY <3>1, <1>1
  <2>3. s \in [1..Cardinality(onPage) -> onPage \ {w}]
    BY <1>2, <1>4
  <2>4. Cardinality(onPage \ {w}) < Cardinality(1..Cardinality(onPage))
    BY <2>1, <2>2, <1>1
  <2>5. \E x, y \in 1..Cardinality(onPage) : x # y /\ s[x] = s[y]
    <3> DEFINE places == 1..Cardinality(onPage)
               others == onPage \ {w}
    <3>1. /\ IsFiniteSet(places) /\ IsFiniteSet(others) /\ s \in [places -> others]
          /\ Cardinality(others) < Cardinality(places)
      BY <2>1, <2>2, <2>3, <2>4
    <3> HIDE DEF places, others
    <3>2. \E x, y \in places : x # y /\ s[x] = s[y]
      BY <3>1, FS_PigeonHole
    <3> QED
      BY <3>2 DEF places
  <2> QED
    BY <2>5, <1>2
<1>5. {s[i] : i \in DOMAIN s} \subseteq onPage
  BY <1>2
<1> QED
  BY <1>3, <1>4, <1>5

DiscoveryInv == SearchInv /\ SearchKeepsFilters /\ FrontierRanked

Underway == {"idle", "names", "works", "seed", "citing", "link", "answered"}

\* A call that failed has nothing to keep.
LEMMA FailedCall ==
  ASSUME phase' \notin Underway
  PROVE  DiscoveryInv'
<1>1. /\ phase' # "idle" /\ phase' \notin {"names", "works"} /\ phase' # "names" /\ phase' # "works"
      /\ phase' \notin {"seed", "citing"} /\ phase' # "citing" /\ phase' # "link" /\ phase' # "answered"
  BY DEF Underway
<1> QED
  BY <1>1, Zenon DEF DiscoveryInv, SearchInv, SearchKeepsFilters, FrontierRanked

\* A request that fails, or whose row is lost, fails the call.
LEMMA Requested ==
  ASSUME NEW Then, Get(Then)
  PROVE  DiscoveryInv' \/ Then
<1>1. phase' \in {"Http", "Log", "SourceSchema"} \/ Then
  BY Zenon DEF Get
<1>2. phase' \in {"Http", "Log", "SourceSchema"} => phase' \notin Underway
  BY DEF Underway
<1> QED
  BY <1>1, <1>2, FailedCall

\* What a call begins with.
LEMMA CallStarts ==
  ASSUME DiscoveryInv,
         \/ \E q \in Searches : StartSearch(q)
         \/ \E q \in Frontiers : StartFrontier(q)
         \/ \E id \in {w.id : w \in Corpus} \cup {"unlisted"} : StartLink(id)
  PROVE  DiscoveryInv'
<1>1. ASSUME NEW q \in Searches, StartSearch(q) PROVE DiscoveryInv'
  <2>1. CASE ~validate(q)
    <3>1. phase' = "invalid"
      BY <1>1, <2>1 DEF StartSearch
    <3>2. phase' \notin Underway
      BY <3>1 DEF Underway
    <3> QED
      BY <3>2, FailedCall
  <2>2. CASE validate(q)
    <3>1. /\ asked' = [kind |-> "search", q |-> q] /\ names' = q.names /\ answers' = answers /\ answers = {}
          /\ phase' = IF q.names = <<>> THEN "works" ELSE "names"
      BY <1>1, <2>2 DEF StartSearch, DiscoveryInv, SearchInv
    <3>2. q.names \in Seq(NameKinds) /\ Len(q.names) \in Nat
      BY DiscoveryAssumption DEF NameKinds
    <3>3. asked'.kind = "search" /\ asked'.q = q
      BY <3>1
    <3>4. Resolved(q)'
      BY <3>1, <3>2 DEF Resolved
    <3>5. SearchInv'
      BY <3>1, <3>3, <3>4, <2>2 DEF SearchInv, validate
    <3>6. phase' # "answered"
      BY <3>1
    <3> QED
      BY <3>5, <3>6 DEF DiscoveryInv, SearchKeepsFilters, FrontierRanked
  <2> QED
    BY <2>1, <2>2
<1>2. ASSUME NEW q \in Frontiers, StartFrontier(q) PROVE DiscoveryInv'
  BY <1>2 DEF StartFrontier, DiscoveryInv, SearchInv, SearchKeepsFilters, FrontierRanked
<1>3. ASSUME NEW id, StartLink(id) PROVE DiscoveryInv'
  BY <1>3 DEF StartLink, DiscoveryInv, SearchInv, SearchKeepsFilters, FrontierRanked
<1> QED
  BY <1>1, <1>2, <1>3

\* A name that is resolved is off the list, with an identifier of its page; one
\* that is not ends the call.
LEMMA NameResolves ==
  ASSUME DiscoveryInv, ResolveName
  PROVE  DiscoveryInv'
<1> DEFINE q == asked.q
<1>1. /\ asked.kind = "search" /\ q \in Searches /\ validate(q) /\ Resolved(q) /\ names # <<>>
  BY DEF DiscoveryInv, SearchInv, ResolveName
<1>2. asked' = asked
  BY DEF ResolveName
<1> SUFFICES ASSUME NEW found \in NameAnswers,
                    answers' = answers \cup {[kind |-> Head(names), found |-> found]},
                    IF select_entity(found) \in Failures
                    THEN phase' = select_entity(found) /\ UNCHANGED <<names, ids>>
                    ELSE /\ names' = Tail(names)
                         /\ ids' = ids \cup {[kind |-> Head(names), id |-> select_entity(found)]}
                         /\ phase' = IF Tail(names) = <<>> THEN "works" ELSE "names"
             PROVE  DiscoveryInv'
  BY Requested, Zenon DEF ResolveName
<1>3. CASE select_entity(found) \in Failures
  <2>1. phase' \notin Underway
    BY <1>3 DEF Failures, Underway
  <2> QED
    BY <2>1, FailedCall
<1>4. CASE select_entity(found) \notin Failures
  <2> DEFINE id == select_entity(found)
             onPage == [kind |-> Head(names), found |-> found]
             done == Len(q.names) - Len(names)
  <2>1. \E c \in found : c.id = id /\ Unmistakable(c, found)
    BY <1>4, EntityIsFound
  <2>2. /\ names' = Tail(names) /\ ids' = ids \cup {[kind |-> Head(names), id |-> id]}
        /\ phase' = (IF Tail(names) = <<>> THEN "works" ELSE "names") /\ answers' = answers \cup {onPage}
    BY <1>4
  <2>3. q.names \in Seq(NameKinds) /\ Len(q.names) \in Nat
    BY <1>1, DiscoveryAssumption DEF NameKinds
  <2>4. /\ names \in Seq(NameKinds) /\ Len(names) \in Nat /\ Len(names) > 0 /\ Len(names) <= Len(q.names)
        /\ Tail(names) \in Seq(NameKinds) /\ Len(Tail(names)) = Len(names) - 1
        /\ \A j \in 1..Len(Tail(names)) : Tail(names)[j] = names[j + 1]
        /\ Head(names) = names[1]
    BY <1>1 DEF Resolved
  <2>5. Head(names) = q.names[done + 1]
    BY <1>1, <2>3, <2>4 DEF Resolved
  <2> HIDE DEF id
  <2>6. ASSUME NEW j \in 1..Len(Tail(names))
        PROVE  Tail(names)[j] = q.names[Len(q.names) - Len(Tail(names)) + j]
    <3>1. j + 1 \in 1..Len(names) /\ Tail(names)[j] = names[j + 1]
      BY <2>4
    <3>2. names[j + 1] = q.names[Len(q.names) - Len(names) + (j + 1)]
      BY <3>1, <1>1 DEF Resolved
    <3>3. Len(q.names) - Len(names) + (j + 1) = Len(q.names) - Len(Tail(names)) + j
      <4>1. \A m, k \in Nat : m - k + (j + 1) = m - (k - 1) + j
        OBVIOUS
      <4>2. Len(Tail(names)) = Len(names) - 1 /\ Len(q.names) \in Nat /\ Len(names) \in Nat
        BY <2>3, <2>4
      <4> QED
        BY <4>1, <4>2
    <3> QED
      BY <3>1, <3>2, <3>3
  <2>7. ASSUME NEW n \in 1..(Len(q.names) - Len(Tail(names)))
        PROVE  \E a \in answers', i \in ids' :
                 a.kind = q.names[n] /\ \E c \in a.found : Unmistakable(c, a.found) /\ c.id = i.id
    <3>1. CASE n = done + 1
      <4>1. onPage \in answers' /\ [kind |-> Head(names), id |-> id] \in ids'
        BY <2>2
      <4>2. onPage.kind = q.names[n] /\ onPage.found = found /\ [kind |-> Head(names), id |-> id].id = id
        BY <3>1, <2>5
      <4> HIDE DEF onPage
      <4> QED
        BY <4>1, <4>2, <2>1
    <3>2. CASE n # done + 1
      <4>1. n \in 1..(Len(q.names) - Len(names))
        BY <3>2, <2>3, <2>4
      <4>2. \E a \in answers, i \in ids :
              a.kind = q.names[n] /\ \E c \in a.found : Unmistakable(c, a.found) /\ c.id = i.id
        BY <4>1, <1>1 DEF Resolved
      <4> QED
        BY <4>2, <2>2
    <3> QED
      BY <3>1, <3>2
  <2>8. \A a \in answers' : Meant(a.found)
    <3>1. ASSUME NEW a \in answers' PROVE a \in answers \/ a.found = found
      BY <2>2
    <3>2. \A a \in answers : Meant(a.found)
      BY <1>1 DEF Resolved
    <3> QED
      BY <3>1, <3>2, <2>1 DEF Meant
  <2>9. Resolved(q)'
    <3>1. q' = q
      BY <1>2
    <3>2. Len(Tail(names)) <= Len(q.names)
      <4>1. \A m, k \in Nat : k <= m => k - 1 <= m
        OBVIOUS
      <4> QED
        BY <4>1, <2>3, <2>4
    <3>3. names' \in Seq(NameKinds) /\ Len(names') <= Len(q.names)
      BY <3>2, <2>2, <2>4
    <3>4. \A j \in 1..Len(names') : names'[j] = q.names[Len(q.names) - Len(names') + j]
      BY <2>2, <2>6, Zenon
    <3>5. \A n \in 1..(Len(q.names) - Len(names')) :
            \E a \in answers', i \in ids' :
              a.kind = q.names[n] /\ \E c \in a.found : Unmistakable(c, a.found) /\ c.id = i.id
      BY <2>2, <2>7, Zenon
    <3> HIDE DEF q
    <3> QED
      BY <3>1, <3>3, <3>4, <3>5, <2>8, Zenon DEF Resolved
  <2>10. SearchInv'
    BY <1>1, <1>2, <2>2, <2>9 DEF SearchInv, validate
  <2>11. phase' # "answered"
    BY <2>2
  <2> QED
    BY <2>10, <2>11 DEF DiscoveryInv, SearchKeepsFilters, FrontierRanked
<1> QED
  BY <1>3, <1>4

\* The works of a page are works that match, and the page is full if it can be.
LEMMA WorksAnswer ==
  ASSUME DiscoveryInv, SearchWorks
  PROVE  DiscoveryInv'
<1> DEFINE q == asked.q
           matching == Filtered(q)
<1>1. /\ asked.kind = "search" /\ q \in Searches /\ validate(q) /\ Resolved(q) /\ names = <<>>
  BY DEF DiscoveryInv, SearchInv, SearchWorks
<1> SUFFICES ASSUME NEW onPage \in FirstBy(matching, q.limit, LAMBDA w : w.rel), hits' \in Orders(onPage),
                    total' = Cardinality(matching), phase' = "answered",
                    UNCHANGED <<asked, ids, answers>>
             PROVE  DiscoveryInv'
  BY Requested, Zenon DEF SearchWorks
<1>2. SearchInv'
  BY DEF SearchInv
<1>3. FrontierRanked'
  BY <1>1 DEF FrontierRanked
<1>4. onPage \in SUBSET matching /\ Cardinality(onPage) = AsMost(q.limit, Cardinality(matching))
  BY DEF FirstBy
<1>5. IsFiniteSet(matching) /\ Cardinality(matching) \in Nat
  <2>1. matching \in SUBSET Corpus
    BY DEF Filtered
  <2>2. IsFiniteSet(Corpus)
    BY DiscoveryAssumption
  <2> HIDE DEF matching
  <2>3. IsFiniteSet(matching)
    BY <2>1, <2>2, FS_Subset
  <2> QED
    BY <2>3, FS_CardinalityType
<1>6. IsFiniteSet(onPage)
  <2> HIDE DEF matching
  <2> QED
    BY <1>4, <1>5, FS_Subset
<1>7. hits' \in Seq(onPage) /\ Len(hits') = Cardinality(onPage) /\ DOMAIN hits' = 1..Len(hits')
  BY <1>6, PageInOrder
<1>8. ASSUME NEW i \in DOMAIN hits'
      PROVE  /\ q.from # Unknown => hits'[i].year >= q.from
             /\ q.to # Unknown => hits'[i].year <= q.to
             /\ q.oa_only => hits'[i].oa
             /\ q.min_citations # Unknown => hits'[i].cites > q.min_citations
             /\ q.min_fwci # Unknown => hits'[i].fwci > q.min_fwci
             /\ q.min_percentile # Unknown => hits'[i].pct >= q.min_percentile
             /\ \A n \in 1..Len(q.names) : \E a \in answers :
                  /\ a.kind = q.names[n]
                  /\ \E c \in a.found : Unmistakable(c, a.found) /\ c.id \in hits'[i].by
  <2>1. hits'[i] \in matching
    BY <1>4, <1>7, <1>8
  <2>2. /\ q.from # Unknown => hits'[i].year >= q.from
        /\ q.to # Unknown => hits'[i].year \in 1..q.to
        /\ q.oa_only => hits'[i].oa
        /\ q.min_citations # Unknown => hits'[i].cites > q.min_citations
        /\ q.min_fwci # Unknown => hits'[i].fwci > q.min_fwci
        /\ q.min_percentile # Unknown => hits'[i].pct >= q.min_percentile
        /\ \A n \in ids : n.id \in hits'[i].by
    BY <2>1 DEF Filtered
  <2>3. q.to \in Nat /\ q.names \in Seq(NameKinds) /\ Len(q.names) \in Nat
    BY <1>1, DiscoveryAssumption DEF NameKinds
  <2>4. q.to # Unknown => hits'[i].year <= q.to
    BY <2>2, <2>3
  <2>5. Len(q.names) - Len(names) = Len(q.names)
    BY <1>1, <2>3
  <2>6. \A n \in 1..Len(q.names) : \E a \in answers, k \in ids :
          a.kind = q.names[n] /\ \E c \in a.found : Unmistakable(c, a.found) /\ c.id = k.id
    BY <1>1, <2>5 DEF Resolved
  <2>7. ASSUME NEW n \in 1..Len(q.names)
        PROVE  \E a \in answers :
                 /\ a.kind = q.names[n]
                 /\ \E c \in a.found : Unmistakable(c, a.found) /\ c.id \in hits'[i].by
    <3>1. PICK a \in answers, k \in ids :
            a.kind = q.names[n] /\ \E c \in a.found : Unmistakable(c, a.found) /\ c.id = k.id
      BY <2>6
    <3> QED
      BY <3>1, <2>2
  <2> QED
    BY <2>2, <2>4, <2>7
<1>9. Len(hits') <= q.limit /\ (total' > 0 => hits' # <<>>)
  <2>1. q.limit \in Nat /\ q.limit >= 1
    BY <1>1, DiscoveryAssumption DEF validate
  <2>2. Len(hits') <= q.limit /\ (Cardinality(matching) > 0 => Len(hits') > 0)
    <3> HIDE DEF matching, q
    <3> QED
      BY <2>1, <1>4, <1>5, <1>7 DEF AsMost
  <2>3. Cardinality(matching) > 0 => hits' # <<>>
    BY <2>2
  <2> QED
    BY <2>2, <2>3
<1>10. \A a \in answers : \E c \in a.found : Unmistakable(c, a.found)
  BY <1>1 DEF Resolved, Meant
<1>11. SearchKeepsFilters'
  <2> HIDE DEF q
  <2>1. q' = q
    BY DEF q
  <2> QED
    BY <1>8, <1>9, <1>10, <2>1, Zenon DEF SearchKeepsFilters, q
<1> QED
  BY <1>2, <1>3, <1>11 DEF DiscoveryInv

\* The seed is found, or the call is over.
LEMMA SeedFound ==
  ASSUME DiscoveryInv, LookUpSeed
  PROVE  DiscoveryInv'
<1>1. asked.kind = "frontier" /\ asked' = asked
  BY DEF DiscoveryInv, SearchInv, LookUpSeed
<1> SUFFICES ASSUME \/ phase' = "NotFound"
                    \/ phase' = "citing" /\ ids' = {[kind |-> "seed", id |-> asked.q.seed]}
             PROVE  DiscoveryInv'
  BY Requested, Zenon DEF LookUpSeed
<1>2. CASE phase' = "NotFound"
  <2>1. phase' \notin Underway
    BY <1>2 DEF Underway
  <2> QED
    BY <2>1, FailedCall
<1>3. CASE phase' = "citing" /\ ids' = {[kind |-> "seed", id |-> asked.q.seed]}
  BY <1>1, <1>3 DEF DiscoveryInv, SearchInv, SearchKeepsFilters, FrontierRanked
<1> QED
  BY <1>2, <1>3

\* The page has the citing works of the greatest fwci, and what is too old is
\* taken out of it after that.
LEMMA CitingAnswer ==
  ASSUME DiscoveryInv, CitingWorks
  PROVE  DiscoveryInv'
<1> DEFINE q == asked.q
           citing == {w \in Corpus : \E s \in ids : s.id \in w.refs}
           limit == IF q.limit = 0 THEN 1 ELSE AsMost(q.limit, MAX_PER_PAGE)
           Recent(onPage) == {w \in onPage : q.min_year # Unknown => w.year >= q.min_year}
<1>1. asked.kind = "frontier" /\ ids = {[kind |-> "seed", id |-> q.seed]}
  BY DEF DiscoveryInv, SearchInv, CitingWorks
<1> SUFFICES ASSUME NEW onPage \in FirstBy(citing, limit, LAMBDA w : w.fwci),
                    hits' \in {s \in Orders(Recent(onPage)) : \A i, j \in DOMAIN s : i < j => Before(s[i], s[j])},
                    phase' = "answered", asked' = asked
             PROVE  DiscoveryInv'
  BY Requested, Zenon DEF CitingWorks
<1>2. SearchInv' /\ SearchKeepsFilters'
  BY <1>1 DEF SearchInv, SearchKeepsFilters
<1> DEFINE new == Recent(onPage)
<1>3. onPage \in SUBSET citing /\ \A w \in onPage : \A v \in citing \ onPage : v.fwci <= w.fwci
  BY DEF FirstBy
<1>4. new \in SUBSET Corpus /\ new \subseteq onPage
  BY <1>3
<1>5. IsFiniteSet(new)
  <2>1. IsFiniteSet(Corpus)
    BY DiscoveryAssumption
  <2> HIDE DEF new
  <2> QED
    BY <1>4, <2>1, FS_Subset
<1>6. /\ hits' \in Seq(new) /\ DOMAIN hits' = 1..Len(hits') /\ {hits'[i] : i \in DOMAIN hits'} = new
      /\ \A i, j \in DOMAIN hits' : i < j => Before(hits'[i], hits'[j])
  <2>1. hits' \in Orders(new) /\ \A i, j \in DOMAIN hits' : i < j => Before(hits'[i], hits'[j])
    OBVIOUS
  <2> HIDE DEF new
  <2> QED
    BY <2>1, <1>5, PageInOrder
<1> DEFINE due == {w \in Corpus : q.seed \in w.refs /\ (q.min_year # Unknown => w.year >= q.min_year)}
<1>7. \A w \in Corpus : w \in citing <=> q.seed \in w.refs
  BY <1>1
<1>8. new \subseteq due
  BY <1>3, <1>4, <1>7
<1>9. \A i \in 1..(Len(hits') - 1) : Before(hits'[i], hits'[i + 1])
  <2>1. Len(hits') \in Nat
    BY <1>6
  <2>2. \A i \in 1..(Len(hits') - 1) : i \in DOMAIN hits' /\ i + 1 \in DOMAIN hits' /\ i < i + 1
    BY <1>6, <2>1
  <2> QED
    BY <1>6, <2>2
<1>10. ASSUME NEW w \in due \ new, NEW h \in new PROVE w.fwci <= h.fwci
  <2>1. w \in citing /\ w \notin onPage /\ h \in onPage
    BY <1>10, <1>7, <1>4
  <2> QED
    BY <2>1, <1>3
<1>11. FrontierRanked'
  <2>1. q' = q /\ {hits'[i] : i \in DOMAIN hits'} = new
    BY <1>6
  <2> HIDE DEF new, due, q
  <2>2. due = {w \in Corpus : q.seed \in w.refs /\ (q.min_year # Unknown => w.year >= q.min_year)}
    BY DEF due
  <2> QED
    BY <2>1, <2>2, <1>8, <1>9, <1>10, Zenon DEF FrontierRanked, q
<1> QED
  BY <1>2, <1>11 DEF DiscoveryInv

\* A link is no search.
LEMMA LinksAnswer ==
  ASSUME DiscoveryInv, LookUpLinks
  PROVE  DiscoveryInv'
<1>1. asked.kind = "link" /\ asked' = asked
  BY DEF DiscoveryInv, SearchInv, LookUpLinks
<1>2. DiscoveryInv' \/ phase' \in {"NotFound", "answered"}
  <2>1. DiscoveryInv' \/ phase' = "NotFound" \/ phase' = "answered"
    BY Requested, Zenon DEF LookUpLinks
  <2> QED
    BY <2>1
<1>3. CASE phase' \in {"NotFound", "answered"}
  BY <1>1, <1>3 DEF DiscoveryInv, SearchInv, SearchKeepsFilters, FrontierRanked
<1> QED
  BY <1>2, <1>3

LEMMA DiscoveryKeeps == DiscoverySpec => []DiscoveryInv
<1>1. DiscoveryInit => DiscoveryInv
  BY DEF DiscoveryInit, DiscoveryInv, SearchInv, SearchKeepsFilters, FrontierRanked
<1>2. DiscoveryInv /\ [DiscoveryNext]_discoveryVars => DiscoveryInv'
  <2> SUFFICES ASSUME DiscoveryInv, [DiscoveryNext]_discoveryVars PROVE DiscoveryInv'
    OBVIOUS
  <2>1. CASE UNCHANGED discoveryVars
    <3>1. UNCHANGED <<phase, asked, names, ids, answers, hits, total>>
      BY <2>1 DEF discoveryVars
    <3>2. SearchInv'
      BY <3>1 DEF DiscoveryInv, SearchInv, Resolved, validate
    <3>3. SearchKeepsFilters'
      BY <3>1 DEF DiscoveryInv, SearchKeepsFilters
    <3>4. FrontierRanked'
      BY <3>1 DEF DiscoveryInv, FrontierRanked, Before
    <3> QED
      BY <3>2, <3>3, <3>4 DEF DiscoveryInv
  <2>2. CASE \/ \E q \in Searches : StartSearch(q)
             \/ \E q \in Frontiers : StartFrontier(q)
             \/ \E id \in {w.id : w \in Corpus} \cup {"unlisted"} : StartLink(id)
    BY <2>2, CallStarts
  <2>3. CASE DiscoveryStep
    BY <2>3, NameResolves, WorksAnswer, SeedFound, CitingAnswer, LinksAnswer, Zenon DEF DiscoveryStep
  <2> QED
    BY <2>1, <2>2, <2>3, Zenon DEF DiscoveryNext
<1> QED
  BY <1>1, <1>2, PTL DEF DiscoverySpec

\* Whatever is found under the names of a search, and in whatever order the
\* service lists the works, no filter of paper_search is dropped, and a name is
\* never guessed at where another entity may have been meant (select_entity).
THEOREM FiltersAreKept == DiscoverySpec => []SearchKeepsFilters
<1>1. DiscoveryInv => SearchKeepsFilters
  BY DEF DiscoveryInv
<1> QED
  BY <1>1, DiscoveryKeeps, PTL

\* What frontier_view answers is the best of the years asked for, in order.
THEOREM FrontierIsBest == DiscoverySpec => []FrontierRanked
<1>1. DiscoveryInv => FrontierRanked
  BY DEF DiscoveryInv
<1> QED
  BY <1>1, DiscoveryKeeps, PTL

-----------------------------------------------------------------------------
(***************************************************************************)
(* Bibliographies: what the two adapters made of the entry is what they    *)
(* make of it.                                                             *)
(***************************************************************************)

BiblioInv == bibtex # "unread" => bibtex = parse_bibtex_entry(entry) /\ csl = parse_csl_entry(entry)

\* What FormatsAgree says, of what the adapters make of an entry.
LEMMA AdaptersAgree ==
  ASSUME NEW e
  PROVE  LET b == parse_bibtex_entry(e)
             c == parse_csl_entry(e)
         IN /\ Says(e.doi) => b = c /\ b \in {"doi", "InvalidRef"}
            /\ b # c => e.note # "none" \/ (Says(e.eprint) /\ e.archive \in {"none", "arxivlike", "pubmed"})
            /\ {b, c} \cap {"PMID", "PMCID", "SoftwareUrl"} # {} => ~HasDoiOrArxiv(e)
            /\ "NoIdentifier" \in {b, c} => ~HasIdentifier(e)
<1> DEFINE b == parse_bibtex_entry(e)
           c == parse_csl_entry(e)
<1>1. \A kind \in {"doi", "arxiv"} : \A f : Parsed(kind, f) \in {kind, "InvalidRef"}
  BY DEF Parsed
<1>2. Says(e.doi) => b = Parsed("doi", e.doi) /\ c = Parsed("doi", e.doi)
  BY DEF parse_bibtex_entry, parse_csl_entry
<1>3. e.archive = "arxiv" /\ Says(e.eprint) /\ ~Says(e.doi) =>
        b = Parsed("arxiv", e.eprint) /\ c = Parsed("arxiv", e.eprint)
  BY DEF parse_bibtex_entry, parse_csl_entry, arxiv_eligible
<1>4. HasDoiOrArxiv(e) => b \in {"doi", "arxiv", "InvalidRef"} /\ c \in {"doi", "arxiv", "InvalidRef"}
  BY <1>1, <1>2, <1>3 DEF HasDoiOrArxiv
<1>5. /\ unsupported_identifier(e) \in {"none", "PMID", "PMCID"}
      /\ csl_unsupported_identifier(e) \in {"none", "PMID", "PMCID"}
  BY DEF unsupported_identifier, csl_unsupported_identifier
<1>6. Says(e.pmid) \/ Says(e.pmcid) => unsupported_identifier(e) # "none" /\ csl_unsupported_identifier(e) # "none"
  BY DEF unsupported_identifier, csl_unsupported_identifier
<1>7. b = "NoIdentifier" \/ c = "NoIdentifier" => ~HasIdentifier(e)
  BY <1>1, <1>4, <1>5, <1>6 DEF HasIdentifier, parse_bibtex_entry, parse_csl_entry
<1>8. e.note = "none" /\ ~(Says(e.eprint) /\ e.archive \in {"none", "arxivlike", "pubmed"}) => b = c
  <2> SUFFICES ASSUME e.note = "none", ~(Says(e.eprint) /\ e.archive \in {"none", "arxivlike", "pubmed"}) PROVE b = c
    OBVIOUS
  <2>1. Says(e.eprint) /\ arxiv_eligible(e) <=> e.archive = "arxiv" /\ Says(e.eprint)
    BY DEF arxiv_eligible
  <2>2. unsupported_identifier(e) = csl_unsupported_identifier(e)
    BY DEF unsupported_identifier, csl_unsupported_identifier
  <2> QED
    BY <2>1, <2>2 DEF parse_bibtex_entry, parse_csl_entry
<1>9. Says(e.doi) => b = c /\ b \in {"doi", "InvalidRef"}
  BY <1>1, <1>2
<1> QED
  BY <1>4, <1>7, <1>8, <1>9

\* One reference is fetched by the same identifier from BibTeX and from CSL-JSON
\* (refs.rs), whatever its fields say, but for what only one of the two reads.
THEOREM SameIdentifier == BiblioSpec => []FormatsAgree
<1>1. BiblioInit => BiblioInv
  BY DEF BiblioInit, BiblioInv
<1>2. BiblioInv /\ [BiblioNext]_biblioVars => BiblioInv'
  <2> SUFFICES ASSUME BiblioInv, [BiblioNext]_biblioVars PROVE BiblioInv'
    OBVIOUS
  <2>1. ASSUME NEW e \in Entries, ReadEntry(e) PROVE BiblioInv'
    BY <2>1 DEF ReadEntry, BiblioInv
  <2>2. CASE UNCHANGED <<entry, bibtex, csl>>
    BY <2>2 DEF BiblioInv
  <2>3. LookUpEntry \/ UNCHANGED biblioVars => UNCHANGED <<entry, bibtex, csl>>
    BY DEF LookUpEntry, biblioVars
  <2> QED
    BY <2>1, <2>2, <2>3, Zenon DEF BiblioNext
<1>3. BiblioInv => FormatsAgree
  <2> SUFFICES ASSUME BiblioInv, bibtex # "unread" PROVE FormatsAgree
    BY DEF FormatsAgree
  <2>1. bibtex = parse_bibtex_entry(entry) /\ csl = parse_csl_entry(entry)
    BY DEF BiblioInv
  <2> QED
    BY <2>1, AdaptersAgree, Zenon DEF FormatsAgree
<1> QED
  BY <1>1, <1>2, <1>3, PTL DEF BiblioSpec

-----------------------------------------------------------------------------
(***************************************************************************)
(* Settings.                                                               *)
(***************************************************************************)

\* The hosts a user writes down are not of the sets that stand for many.
HostSets == {"curated"} \cup academic_repo_hosts \cup oa_registry_hosts
NewHosts == \A c \in Configs : c.hosts \cap HostSets = {}

\* A source of tier 2 or 3 is switched on only in a build that has it.
Switchable(b) == {s.name : s \in {s \in CATALOG : s.tier > 1 /\ s.feature \in b}}

FilesInv ==
  /\ NoPath \notin DOMAIN config
  /\ NewHosts => \A d \in DOMAIN config : config[d].hosts \cap HostSets = {}

ServerInv ==
  /\ "oa-only" \in build
  /\ server.up => server.profile \subseteq Switchable(build)
  /\ GrantIsAgreed

SettingsInv == FilesInv /\ ServerInv

\* The rows of the catalog: what each tier has in common.
LEMMA CatalogRows ==
  ASSUME NEW s \in CATALOG
  PROVE  \/ /\ s.tier = 1 /\ s.feature = "oa-only" /\ s.enable = {}
            /\ s.name \in {"crossref", "unpaywall", "oa-publisher", "arxiv"}
         \/ /\ s.tier = 2 /\ s.feature = "metadata"
            /\ s.name \in preprint_allowlist \cup tier_2_allowlist
         \/ s.tier = 3 /\ s.feature = "tdm-aps" /\ s.name = "tdm-aps"
  BY DEF CATALOG, SourceInfo, t1, t2, t3, preprint_allowlist, tier_2_allowlist

\* Two rows of one name are one row, and a publisher's source has two switches,
\* an optional one a switch other than the key of CORE.
LEMMA CatalogNames ==
  /\ \A s, t \in CATALOG : s.name = t.name => s = t
  /\ \A s \in CATALOG : s.tier = 3 => s.enable = {"DOIGET_KEY", "DOIGET_AGREE_TDM"}
  /\ \A s \in CATALOG : s.name = "ads" => s.enable = {"DOIGET_ADS_TOKEN"}
  /\ \A s \in CATALOG : s.tier = 2 => \E v \in s.enable : v # "DOIGET_CORE_API_KEY"
<1>1. \A s, t \in CATALOG : s.name = t.name => s = t
  BY DEF CATALOG, SourceInfo, t1, t2, t3
<1>2. /\ \A s \in CATALOG : s.tier = 3 => s.enable = {"DOIGET_KEY", "DOIGET_AGREE_TDM"}
      /\ \A s \in CATALOG : s.name = "ads" => s.enable = {"DOIGET_ADS_TOKEN"}
  BY DEF CATALOG, SourceInfo, t1, t2, t3
<1>3. \A s \in CATALOG : s.tier = 2 => \E v \in s.enable : v # "DOIGET_CORE_API_KEY"
  BY DEF CATALOG, SourceInfo, t1, t2, t3
<1> QED
  BY <1>1, <1>2, <1>3

\* from_env switches on what is built, and never a source of tier 1.
LEMMA ProfileIsBuilt ==
  ASSUME NEW b, NEW e, NEW k
  PROVE  from_env(b, e, k) \subseteq Switchable(b)
<1> SUFFICES ASSUME NEW s \in CATALOG, SwitchedOn(b, e, k, s)
             PROVE  s.tier > 1 /\ s.feature \in b
  BY Zenon DEF from_env, Switchable
<1>1. CASE s.name = "ads"
  <2>1. "metadata" \in b
    BY <1>1 DEF SwitchedOn
  <2>2. s.tier = 2 /\ s.feature = "metadata"
    BY <1>1, CatalogRows DEF tier_2_allowlist, preprint_allowlist
  <2> QED
    BY <2>1, <2>2
<1>2. CASE s.name = "tdm-aps"
  <2>1. resolve_tdm_grant(b, e, k) # "none"
    BY <1>2 DEF SwitchedOn
  <2>2. s.tier = 3 /\ s.feature = "tdm-aps"
    BY <1>2, CatalogRows DEF tier_2_allowlist, preprint_allowlist
  <2>3. resolve_tdm_grant(b, e, k) \notin GrantErrors
    BY <1>2 DEF SwitchedOn
  <2>4. "tdm-aps" \in b
    BY <2>1, <2>3 DEF resolve_tdm_grant, GrantErrors
  <2> QED
    BY <2>2, <2>4
<1>3. CASE s.name \notin {"ads", "tdm-aps"}
  <2>1. resolve_metadata_flag(b, e, s)
    BY <1>3 DEF SwitchedOn
  <2>2. "metadata" \in b /\ s.tier = 2
    BY <2>1 DEF resolve_metadata_flag
  <2>3. s.feature = "metadata"
    BY <2>2, CatalogRows
  <2> QED
    BY <2>2, <2>3
<1> QED
  BY <1>1, <1>2, <1>3

\* A grant is a key and an agreement in one environment.
LEMMA GrantNeedsBoth ==
  ASSUME NEW b, NEW e, NEW k, resolve_tdm_grant(b, e, k) \notin GrantErrors \cup {"none"}
  PROVE  /\ e["DOIGET_AGREE_TDM"] = "1"
         /\ resolve_tdm_grant(b, e, k) = OrElse(Env(e, "DOIGET_KEY"), api_key(k))
  BY DEF resolve_tdm_grant, GrantErrors

\* What an edit puts into the user's directory is what it was given.
LEMMA FilesPut ==
  ASSUME FilesInv, NEW c, NewHosts => c.hosts \cap HostSets = {}, config_dir(env) # NoPath,
         config' = Put(config, config_dir(env), c)
  PROVE  FilesInv'
<1>1. /\ DOMAIN config' = DOMAIN config \cup {config_dir(env)}
      /\ \A d \in DOMAIN config' : config'[d] = IF d = config_dir(env) THEN c ELSE config[d]
  BY DEF Put
<1> QED
  BY <1>1 DEF FilesInv

LEMMA SettingsKeep == SettingsSpec => []SettingsInv
<1>1. SettingsInit => SettingsInv
  <2> SUFFICES ASSUME SettingsInit PROVE SettingsInv
    OBVIOUS
  <2>1. "oa-only" \in build
    BY SettingsAssumption DEF SettingsInit
  <2>2. DOMAIN config = {<<"home", ".config">>} /\ \A d \in DOMAIN config : config[d].hosts = {}
    BY DEF SettingsInit, NoConfig, Default
  <2>3. <<"home", ".config">> # NoPath
    BY DEF NoPath
  <2>4. ~server.up
    BY DEF SettingsInit, NoServer
  <2> QED
    BY <2>1, <2>2, <2>3, <2>4 DEF SettingsInv, FilesInv, ServerInv, GrantIsAgreed
<1>2. SettingsInv /\ [SettingsNext]_settingsVars => SettingsInv'
  <2> SUFFICES ASSUME SettingsInv, [SettingsNext]_settingsVars PROVE SettingsInv'
    OBVIOUS
  <2>1. UNCHANGED config => FilesInv'
    BY DEF SettingsInv, FilesInv
  <2>2. UNCHANGED <<build, server>> => ServerInv'
    BY DEF SettingsInv, ServerInv, GrantIsAgreed
  <2>3. CASE UNCHANGED settingsVars
    BY <2>1, <2>2, <2>3 DEF settingsVars, SettingsInv
  <2>4. ASSUME NEW v, NEW x, SetEnv(v, x) PROVE SettingsInv'
    BY <2>1, <2>2, <2>4 DEF SetEnv, SettingsInv
  <2>5. ASSUME NEW c \in Configs, EditConfig(c) PROVE SettingsInv'
    BY <2>2, <2>5, FilesPut DEF EditConfig, SettingsInv, NewHosts
  <2>6. ASSUME NEW force \in BOOLEAN, InitConfig(force) PROVE SettingsInv'
    <3>1. PICK c \in {Default, BrokenConfig} : config' = Put(config, config_dir(env), c)
      BY <2>6 DEF InitConfig
    <3>2. c.hosts = {}
      BY <3>1 DEF Default, BrokenConfig
    <3>3. config_dir(env) # NoPath /\ UNCHANGED <<build, server>>
      BY <2>6 DEF InitConfig
    <3> QED
      BY <3>1, <3>2, <3>3, <2>2, FilesPut DEF SettingsInv
  <2>7. ASSUME NEW k, EditCreds(k) PROVE SettingsInv'
    BY <2>1, <2>2, <2>7 DEF EditCreds, SettingsInv
  <2>8. CASE StartServer
    <3> DEFINE k == At(creds, env, NoCreds)
    <3>1. /\ resolve_tdm_grant(build, env, k) \notin GrantErrors /\ UNCHANGED <<build, config>>
          /\ server' = [up |-> TRUE, env |-> env, grant |-> resolve_tdm_grant(build, env, k),
                        profile |-> from_env(build, env, k), key_then |-> api_key(k)]
      BY <2>8, Zenon DEF StartServer
    <3> HIDE DEF k
    <3>2. /\ server'.env = env /\ server'.grant = resolve_tdm_grant(build, env, k)
          /\ server'.profile = from_env(build, env, k) /\ server'.key_then = api_key(k)
      BY <3>1
    <3>3. server'.profile \subseteq Switchable(build')
      BY <3>1, <3>2, ProfileIsBuilt
    <3>4. GrantIsAgreed'
      BY <3>1, <3>2, GrantNeedsBoth DEF GrantIsAgreed
    <3> QED
      BY <3>1, <3>3, <3>4, <2>1 DEF SettingsInv, ServerInv
  <2>9. CASE StopServer
    <3>1. UNCHANGED <<build, config>> /\ ~server'.up
      BY <2>9 DEF StopServer, NoServer
    <3> QED
      BY <3>1, <2>1 DEF SettingsInv, ServerInv, GrantIsAgreed
  <2> QED
    BY <2>3, <2>4, <2>5, <2>6, <2>7, <2>8, <2>9, Zenon DEF SettingsNext
<1> QED
  BY <1>1, <1>2, PTL DEF SettingsSpec

\* The store, the addresses and the count of hosts are the same on every surface,
\* whatever the user edits and whenever, if the user's hosts are hosts that are not
\* trusted already.
THEOREM OneSetOfSettings ==
  ASSUME NewHosts
  PROVE  SettingsSpec => []SurfacesAgree
<1>1. SettingsInv => SurfacesAgree
  <2> SUFFICES ASSUME SettingsInv PROVE SurfacesAgree
    OBVIOUS
  <2> DEFINE c == At(config, env, NoConfig)
  <2>1. cli_store_root(env, c) = mcp_store_root(env, c)
    BY Zenon DEF cli_store_root, mcp_store_root
  <2> DEFINE used == resolve_contact_emails(env, c)
             shown == resolve_email(env, c)
             f == load_or_default(c)
             contact == OrElse(Env(env, "DOIGET_CONTACT_EMAIL"), f.contact)
             own == OrElse(Env(env, "DOIGET_UNPAYWALL_EMAIL"), f.unpaywall)
  <2>2. /\ used.crossref = OrElse(contact, "doiget@localhost")
        /\ used.unpaywall = OrElse(own, OrElse(contact, "doiget@localhost"))
        /\ shown.contact = contact /\ shown.unpaywall = OrElse(own, contact)
    <3> HIDE DEF c
    <3> QED
      BY DEF resolve_contact_emails, resolve_email
  <2>3. /\ shown.contact # Unset => used.crossref = shown.contact
        /\ shown.contact = Unset => used.crossref = "doiget@localhost"
        /\ shown.unpaywall # Unset => used.unpaywall = shown.unpaywall
        /\ shown.unpaywall = Unset => used.unpaywall = "doiget@localhost"
    <3> HIDE DEF used, shown, own, contact
    <3> QED
      BY <2>2 DEF OrElse
  <2>4. c.hosts \cap HostSets = {} /\ (config_dir(env) = NoPath => c = NoConfig)
    <3>1. NoConfig.hosts = {}
      BY DEF NoConfig, Default
    <3>2. c = IF config_dir(env) \in DOMAIN config THEN config[config_dir(env)] ELSE NoConfig
      BY Zenon DEF At
    <3> HIDE DEF c
    <3> QED
      BY <3>1, <3>2 DEF SettingsInv, FilesInv
  <2>5. user_extension_count(env, c) = Cardinality(merge_into_allowlists(c) \ HostSets)
    <3> HIDE DEF c
    <3>1. Cardinality({}) = 0
      BY FS_EmptySet
    <3>2. CASE ~c.parses
      <4>1. merge_into_allowlists(c) \ HostSets = {}
        BY <3>2 DEF merge_into_allowlists, HostSets
      <4> QED
        BY <3>1, <3>2, <4>1 DEF user_extension_count
    <3>3. CASE c.parses
      <4>1. merge_into_allowlists(c) \ HostSets = c.hosts
        BY <3>3, <2>4 DEF merge_into_allowlists, HostSets, academic_repo_hosts, oa_registry_hosts
      <4>2. CASE config_dir(env) = NoPath
        <5>1. c.hosts = {}
          BY <4>2, <2>4 DEF NoConfig, Default
        <5> QED
          BY <3>1, <4>1, <4>2, <5>1 DEF user_extension_count
      <4>3. CASE config_dir(env) # NoPath
        BY <3>3, <4>1, <4>3 DEF user_extension_count
      <4> QED
        BY <4>2, <4>3
    <3> QED
      BY <3>2, <3>3
  <2> QED
    BY <2>1, <2>3, <2>5, Zenon DEF SurfacesAgree, HostSets
<1> QED
  BY <1>1, SettingsKeep, PTL

\* A server holds a publisher's key only under an agreement it was started with
\* (resolve_tdm_grant), whatever is edited while it runs.
THEOREM KeysAreAgreed == SettingsSpec => []GrantIsAgreed
<1>1. SettingsInv => GrantIsAgreed
  BY DEF SettingsInv, ServerInv
<1> QED
  BY <1>1, SettingsKeep, PTL

ReadyNames(b, p) == {s.name : s \in {s \in CATALOG : configured(s, b, p) = "ready"}}

\* What is ready is built, and of tier 1 or switched on.
LEMMA ReadyIsBuilt ==
  ASSUME NEW b, NEW p, NEW s \in CATALOG, configured(s, b, p) = "ready"
  PROVE  s.feature \in b /\ (s.tier > 1 => s.name \in p)
  BY DEF configured

\* Both clients know whatever is ready.
LEMMA ClientsKnow ==
  ASSUME NEW b, NEW s \in CATALOG, s.feature \in b
  PROVE  s.name \in cli_client(b) /\ s.name \in mcp_client(b)
<1>1. CASE s.tier = 1
  <2>1. s.name \in tier_1_allowlist \cup oa_publisher_allowlist
    BY <1>1, CatalogRows DEF tier_1_allowlist, oa_publisher_allowlist
  <2> QED
    BY <2>1 DEF cli_client, mcp_client
<1>2. CASE s.tier = 2
  <2>1. s.name \in preprint_allowlist \cup tier_2_allowlist /\ "metadata" \in b
    BY <1>2, CatalogRows
  <2> QED
    BY <2>1 DEF cli_client, mcp_client
<1>3. CASE s.tier = 3
  <2>1. s.name \in tier_3_allowlists(b)
    BY <1>3, CatalogRows DEF tier_3_allowlists
  <2> QED
    BY <2>1 DEF cli_client, mcp_client
<1> QED
  BY <1>1, <1>2, <1>3, CatalogRows

\* The advice on a source that is not asked works: built with its feature and with
\* its variables set, it is switched on.
LEMMA AdviceSwitchesOn ==
  ASSUME ServerInv, NEW k, NEW p, NEW s \in could_look(build, p, "tdm-aps")
  PROVE  /\ s \in CATALOG /\ s.feature \in Advised(s).build
         /\ SwitchedOn(Advised(s).build, Advised(s).env, k, s)
         /\ configured(s, Advised(s).build, {s.name}) = "ready"
<1> DEFINE b == Advised(s).build
           e == Advised(s).env
<1>1. s \in CATALOG /\ availability(s, build, p, "tdm-aps") \in {"not_enabled", "not_built"}
  BY DEF could_look
<1>2. s.tier > 1
  <2>1. SUFFICES ASSUME s.tier = 1 PROVE FALSE
    BY <1>1, CatalogRows
  <2>2. configured(s, build, p) = "ready"
    BY <1>1, <2>1, CatalogRows DEF configured, ServerInv
  <2> QED
    BY <1>1, <2>2 DEF availability
<1>3. b = build \cup {s.feature} /\ s.feature \in b
  BY DEF Advised
<1>4. \A v \in s.enable : e[v] = "1"
  <2>1. s.enable \subseteq Vars
    BY <1>1, Zenon DEF Vars
  <2> QED
    BY <2>1 DEF Advised
<1> HIDE DEF b, e
<1>5. \A v \in s.enable : Filled(e, v) /\ Given(e, v)
  BY <1>4 DEF Filled, Given, Unset
<1>6. SwitchedOn(b, e, k, s)
  <2>1. CASE s.name = "ads"
    <3>1. "metadata" \in b
      BY <1>1, <1>3, <2>1, CatalogRows
    <3>2. "DOIGET_ADS_TOKEN" \in s.enable
      BY <1>1, <2>1, CatalogNames
    <3> QED
      BY <1>5, <2>1, <3>1, <3>2 DEF SwitchedOn
  <2>2. CASE s.tier = 3
    <3>1. s.name = "tdm-aps" /\ "tdm-aps" \in b /\ s.enable = {"DOIGET_KEY", "DOIGET_AGREE_TDM"}
      BY <1>1, <1>3, <2>2, CatalogRows, CatalogNames
    <3>2. e["DOIGET_AGREE_TDM"] = "1" /\ Env(e, "DOIGET_KEY") = "1"
      BY <3>1, <1>4, <1>5 DEF Env
    <3>3. OrElse(Env(e, "DOIGET_KEY"), api_key(k)) = "1"
      BY <3>2 DEF OrElse, Unset
    <3>4. resolve_tdm_grant(b, e, k) = "1"
      BY <3>1, <3>2, <3>3 DEF resolve_tdm_grant, Unset
    <3> QED
      BY <3>1, <3>4 DEF SwitchedOn, GrantErrors
  <2>3. CASE s.tier = 2 /\ s.name # "ads"
    <3>1. "metadata" \in b /\ s.name # "tdm-aps"
      BY <1>1, <1>3, <2>3, CatalogRows DEF tier_2_allowlist, preprint_allowlist
    <3>2. \E v \in s.enable : v # "DOIGET_CORE_API_KEY"
      BY <1>1, <2>3, CatalogNames
    <3>3. resolve_metadata_flag(b, e, s)
      BY <1>5, <2>3, <3>1, <3>2 DEF resolve_metadata_flag
    <3> QED
      BY <2>3, <3>1, <3>3 DEF SwitchedOn
  <2> QED
    BY <1>1, <1>2, <2>1, <2>2, <2>3, CatalogRows
<1>7. configured(s, b, {s.name}) = "ready"
  BY <1>3 DEF configured
<1> QED
  BY <1>1, <1>3, <1>6, <1>7 DEF b, e

\* Whatever may be asked is known to the client that asks it, the server shows the
\* sources that are ready, and coverage's advice makes a source ready (http.rs,
\* source_catalog.rs): for every build, environment and history of edits.
THEOREM AdviceIsGood == SettingsSpec => []AdviceWorks
<1>1. SettingsInv => AdviceWorks
  <2> SUFFICES ASSUME ServerInv PROVE AdviceWorks
    BY DEF SettingsInv
  <2> DEFINE k == At(creds, env, NoCreds)
             cli == from_env(build, env, k)
  <2>1. \A p : ReadyNames(build, p) \subseteq cli_client(build) \cap mcp_client(build)
    <3>1. ASSUME NEW p, NEW s \in CATALOG, configured(s, build, p) = "ready"
          PROVE  s.name \in cli_client(build) \cap mcp_client(build)
      BY <3>1, ReadyIsBuilt, ClientsKnow
    <3> QED
      BY <3>1, Zenon DEF ReadyNames
  <2>2. /\ AlwaysAsked \cup software_allowlist \subseteq cli_client(build)
        /\ AlwaysAsked \subseteq mcp_client(build)
    BY DEF AlwaysAsked, cli_client, mcp_client, discovery_allowlist, fulltext_allowlist, pubmed_allowlist, tier_2_allowlist
  <2>3. ASSUME server.up
        PROVE  LET shown == capability_profile_to_json(server.profile) IN
               shown.tier_2 \cup shown.tier_3
                 = {s.name : s \in {s \in CATALOG : s.tier > 1}} \cap ReadyNames(build, server.profile)
    <3> DEFINE p == server.profile
               shown == capability_profile_to_json(p)
               optional == {s.name : s \in {s \in CATALOG : s.tier > 1}}
    <3>1. p \subseteq Switchable(build)
      BY <2>3 DEF ServerInv
    <3> HIDE DEF p
    <3>2. shown.tier_2 \cup shown.tier_3
            = p \cap ({"openalex", "semantic_scholar", "doaj", "biorxiv", "inspire", "ads",
                       "datacite", "hal", "openaire", "core", "europe-pmc"}
                      \cup {"tdm-elsevier", "tdm-aps", "tdm-springer", "tdm-ieee"})
      BY DEF capability_profile_to_json
    <3>3. ASSUME NEW x \in p
          PROVE  /\ x \in shown.tier_2 \cup shown.tier_3
                 /\ x \in optional /\ x \in ReadyNames(build, p)
      <4>1. PICK s \in CATALOG : s.tier > 1 /\ s.feature \in build /\ s.name = x
        BY <3>1, <3>3 DEF Switchable
      <4>2. x \in preprint_allowlist \cup tier_2_allowlist \cup {"tdm-aps"}
        BY <4>1, CatalogRows
      <4>3. x \in shown.tier_2 \cup shown.tier_3
        BY <3>2, <3>3, <4>2 DEF preprint_allowlist, tier_2_allowlist
      <4>4. configured(s, build, p) = "ready"
        BY <3>3, <4>1 DEF configured
      <4> QED
        BY <4>1, <4>3, <4>4 DEF ReadyNames
    <3>4. ASSUME NEW x \in optional, x \in ReadyNames(build, p) PROVE x \in p
      <4>1. PICK s \in CATALOG : s.tier > 1 /\ s.name = x
        BY <3>4
      <4>2. PICK t \in CATALOG : configured(t, build, p) = "ready" /\ t.name = x
        BY <3>4 DEF ReadyNames
      <4>3. s = t
        BY <4>1, <4>2, CatalogNames
      <4> QED
        BY <4>1, <4>2, <4>3, ReadyIsBuilt
    <3>5. shown.tier_2 \cup shown.tier_3 \subseteq p
      BY <3>2
    <3>6. shown.tier_2 \cup shown.tier_3 = optional \cap ReadyNames(build, p)
      <4> HIDE DEF shown, optional
      <4> QED
        BY <3>3, <3>4, <3>5
    <3> QED
      BY <3>6 DEF p
  <2>4. ASSUME NEW s \in could_look(build, cli, "tdm-aps")
        PROVE  /\ SwitchedOn(Advised(s).build, Advised(s).env, k, s)
               /\ configured(s, Advised(s).build, {s.name}) = "ready"
               /\ s.name \in cli_client(Advised(s).build) \cap mcp_client(Advised(s).build)
    <3> HIDE DEF k, cli
    <3>1. /\ s \in CATALOG /\ s.feature \in Advised(s).build
          /\ SwitchedOn(Advised(s).build, Advised(s).env, k, s)
          /\ configured(s, Advised(s).build, {s.name}) = "ready"
      BY <2>4, AdviceSwitchesOn
    <3> QED
      BY <3>1, ClientsKnow
  <2>5. AlwaysAsked \cup software_allowlist \cup ReadyNames(build, cli) \subseteq cli_client(build)
    <3> HIDE DEF cli
    <3> QED
      BY <2>1, <2>2
  <2>6. AlwaysAsked \cup ReadyNames(build, server.profile) \subseteq mcp_client(build)
    BY <2>1, <2>2
  <2> QED
    BY <2>3, <2>4, <2>5, <2>6, Zenon DEF AdviceWorks, ReadyNames
<1> QED
  BY <1>1, SettingsKeep, PTL

-----------------------------------------------------------------------------
(***************************************************************************)
(* Repeat suppression.  Backed: an entry goes back to an answer that was   *)
(* observed, and one filed under the configuration of that answer is that  *)
(* answer.  Relayed: what a refused caller was told is what the entry      *)
(* still says.                                                             *)
(***************************************************************************)

\* A call under way has a ref, and went to the network if it is asking.
Working ==
  \A c \in Fetchers :
    /\ pc[c] # "idle" => fetch[c].ref \in Refs
    /\ pc[c] = "idle" => ~went_out[c]
    /\ pc[c] = "asking" => went_out[c]
    /\ fetch[c].fp <= config_fp

Told(e, l) ==
  /\ l.told # "ok" /\ Disposition(l.told) = Disposition(e.code) /\ l.age <= e.age
  /\ Disposition(e.code) # "retry_after" => e.code = l.told

Backing(e, l) ==
  e # None => l # None /\ (e.fingerprint = l.fp => Told(e, l))

Backed ==
  \A r \in Refs :
    /\ Backing(entries[r], last[r])
    /\ last[r] # None => last[r].fp <= config_fp
    /\ entries[r] # None => entries[r].fingerprint <= config_fp

Relay(f, e, l) ==
  /\ f.told # "ok" /\ e # None /\ l # None
  /\ e.fingerprint = f.fp /\ l.fp <= f.fp
  /\ Disposition(f.told) = Disposition(e.code)
  /\ Disposition(e.code) # "retry_after" => f.told = e.code

Relayed ==
  \A c \in Fetchers :
    pc[c] = "told" /\ ~went_out[c] => Relay(fetch[c], entries[fetch[c].ref], last[fetch[c].ref])

IndexTyped == TypeOK /\ Working /\ IsFiniteSet(Present) /\ IndexBounded

\* A call's answer in hand.
LEMMA Dispositions ==
  /\ \A code : Disposition(code) \in {"terminal", "needs_config", "retry_after"}
  /\ Disposition("RATE_LIMITED") = "retry_after" /\ "RATE_LIMITED" \in Codes
  BY DEF Disposition, Codes

\* An entry gets older in the same way as the answer it goes back to.
LEMMA GetsOlder ==
  ASSUME NEW e \in IndexEntry \cup {None}
  PROVE  /\ Older(e) \in IndexEntry \cup {None} /\ (Older(e) = None <=> e = None)
         /\ e # None => /\ Older(e).code = e.code /\ Older(e).fingerprint = e.fingerprint
                        /\ Older(e).age = IF e.age = ReplayWindow THEN e.age ELSE e.age + 1
<1>1. CASE e = None
  BY <1>1 DEF Older
<1>2. CASE e # None /\ e.age = ReplayWindow
  BY <1>2 DEF Older
<1>3. CASE e # None /\ e.age # ReplayWindow
  <2>1. Older(e) = [e EXCEPT !.age = @ + 1]
    BY <1>3, Zenon DEF Older
  <2>2. /\ Older(e) \in IndexEntry /\ Older(e).code = e.code /\ Older(e).fingerprint = e.fingerprint
        /\ Older(e).age = e.age + 1
    BY <1>3, <2>1, WindowAssumption DEF IndexEntry
  <2> QED
    BY <1>3, <2>2, NoneAssumption
<1> QED
  BY <1>1, <1>2, <1>3

LEMMA HeardGetsOlder ==
  ASSUME NEW e \in Heard \cup {None}
  PROVE  /\ Older(e) \in Heard \cup {None} /\ (Older(e) = None <=> e = None)
         /\ e # None => /\ Older(e).told = e.told /\ Older(e).fp = e.fp
                        /\ Older(e).age = IF e.age = ReplayWindow THEN e.age ELSE e.age + 1
<1>1. CASE e = None
  BY <1>1 DEF Older
<1>2. CASE e # None /\ e.age = ReplayWindow
  BY <1>2 DEF Older
<1>3. CASE e # None /\ e.age # ReplayWindow
  <2>1. Older(e) = [e EXCEPT !.age = @ + 1]
    BY <1>3, Zenon DEF Older
  <2>2. /\ Older(e) \in Heard /\ Older(e).told = e.told /\ Older(e).fp = e.fp
        /\ Older(e).age = e.age + 1
    BY <1>3, <2>1, WindowAssumption DEF Heard
  <2> QED
    BY <1>3, <2>2, NoneAssumption
<1> QED
  BY <1>1, <1>2, <1>3

\* What check_at finds to refuse with is a present entry of this configuration.
LEMMA RefusedByEntry ==
  ASSUME NEW r \in Refs, Verdict(r) # "proceed"
  PROVE  /\ entries[r] # None /\ entries[r].fingerprint = config_fp
         /\ Verdict(r) = "replay" => Disposition(entries[r].code) # "retry_after"
         /\ Verdict(r) # "replay" => Disposition(entries[r].code) = "retry_after"
  BY DEF Verdict

\* What observe_at leaves of an entry: the new one, the old one with the code it
\* was told, nothing, or what it was.
LEMMA Observed ==
  ASSUME TypeOK, NEW r \in Refs, NEW code \in Codes, ObserveError(r, code)
  PROVE  /\ entries' \in [Refs -> IndexEntry \cup {None}] /\ swept' \in Nat \cup {Cardinality(Retained)}
         /\ \A q \in Refs \ {r} : entries'[q] = entries[q] \/ (entries'[q] = None /\ SweepDue /\ q \notin Retained)
         /\ entries'[r] # None /\ entries'[r].fingerprint = config_fp
         /\ ~Same(entries[r], code) => entries'[r].code = code /\ entries'[r].age = 0
         /\ Same(entries[r], code) =>
              /\ entries'[r].age = entries[r].age /\ Disposition(entries'[r].code) = Disposition(code)
              /\ Disposition(code) # "retry_after" => entries'[r].code = code
              /\ Disposition(code) = "retry_after" => entries'[r].code = entries[r].code
              /\ \A q \in Refs \ {r} : entries'[q] = entries[q]
              /\ swept' = swept
<1>0. entries \in [Refs -> IndexEntry \cup {None}] /\ config_fp \in Nat /\ swept \in Nat
  BY DEF TypeOK
<1>1. CASE Same(entries[r], code)
  <2> DEFINE e == entries[r]
             now == IF Disposition(code) = "retry_after" THEN e.code ELSE code
             x == [e EXCEPT !.code = now]
  <2>1. entries' = [entries EXCEPT ![r].code = IF Disposition(code) = "retry_after" THEN @ ELSE code] /\ swept' = swept
    BY <1>1, Zenon DEF ObserveError
  <2>2. e \in IndexEntry /\ e.fingerprint = config_fp /\ Disposition(e.code) = Disposition(code)
    BY <1>0, <1>1 DEF Same
  <2>3. entries' = [entries EXCEPT ![r] = x]
    BY <2>1, Zenon
  <2>4. now \in Codes
    BY <2>2 DEF IndexEntry
  <2>5. /\ x \in IndexEntry /\ x.code = now /\ x.age = e.age /\ x.fingerprint = e.fingerprint
    <3> HIDE DEF now
    <3> QED
      BY <2>2, <2>4 DEF IndexEntry
  <2>6. x # None
    BY <2>5, NoneAssumption
  <2> HIDE DEF x
  <2>7. entries'[r] = x /\ (\A q \in Refs \ {r} : entries'[q] = entries[q]) /\ entries' \in [Refs -> IndexEntry \cup {None}]
    BY <1>0, <2>3, <2>5
  <2> QED
    BY <1>0, <1>1, <2>1, <2>2, <2>5, <2>6, <2>7
<1>2. CASE ~Same(entries[r], code)
  <2> DEFINE x == [code |-> code, age |-> 0, fingerprint |-> config_fp]
  <2>1. /\ entries' = [q \in Refs |-> IF q = r THEN x ELSE IF SweepDue /\ q \notin Retained THEN None ELSE entries[q]]
        /\ swept' = IF SweepDue THEN Cardinality(Retained) ELSE swept
    BY <1>2, Zenon DEF ObserveError
  <2>2. x \in IndexEntry /\ x.code = code /\ x.age = 0 /\ x.fingerprint = config_fp
    BY <1>0, WindowAssumption DEF IndexEntry
  <2>3. x # None
    BY <2>2, NoneAssumption
  <2> HIDE DEF x
  <2>4. /\ entries'[r] = x
        /\ \A q \in Refs \ {r} : entries'[q] = IF SweepDue /\ q \notin Retained THEN None ELSE entries[q]
        /\ entries' \in [Refs -> IndexEntry \cup {None}]
    BY <1>0, <2>1, <2>2
  <2> QED
    BY <1>0, <1>2, <2>1, <2>2, <2>3, <2>4
<1> QED
  BY <1>1, <1>2

\* Whether a sweep is due or not, the index is within its bound afterwards.
LEMMA ObservedBounded ==
  ASSUME IndexTyped, NEW r \in Refs, NEW code \in Codes, ObserveError(r, code)
  PROVE  swept' \in Nat /\ IsFiniteSet(Present') /\ IndexBounded'
<1>0. /\ TypeOK /\ swept \in Nat /\ IsFiniteSet(Present) /\ Cardinality(Present) \in Nat
      /\ SweepFloor \in Nat \ {0}
  BY FS_CardinalityType, WindowAssumption DEF IndexTyped, TypeOK
<1>1. IsFiniteSet(Retained) /\ Cardinality(Retained) \in Nat
  <2>1. Retained \in SUBSET Present
    BY DEF Retained
  <2>2. IsFiniteSet(Retained)
    BY <1>0, <2>1, FS_Subset
  <2> QED
    BY <2>2, FS_CardinalityType
<1>2. swept' \in Nat
  BY <1>0, <1>1, Observed
<1>3. CASE Same(entries[r], code)
  <2>1. swept' = swept /\ entries'[r] # None /\ entries[r] # None /\ \A q \in Refs \ {r} : entries'[q] = entries[q]
    BY <1>0, <1>3, Observed DEF Same
  <2>2. Present' = Present
    BY <2>1 DEF Present
  <2> QED
    BY <1>0, <2>1, <2>2 DEF IndexTyped, IndexBounded
<1>4. CASE ~Same(entries[r], code) /\ ~SweepDue
  <2>1. /\ swept' = swept
        /\ entries' = [q \in Refs |-> IF q = r THEN [code |-> code, age |-> 0, fingerprint |-> config_fp] ELSE entries[q]]
    BY <1>4 DEF ObserveError
  <2>2. Present' \subseteq Present \cup {r}
    BY <2>1 DEF Present
  <2>3. IsFiniteSet(Present \cup {r}) /\ Cardinality(Present \cup {r}) <= Cardinality(Present) + 1
    <3>1. /\ IsFiniteSet(Present \cup {r})
          /\ Cardinality(Present \cup {r}) = IF r \in Present THEN Cardinality(Present) ELSE Cardinality(Present) + 1
      BY <1>0, FS_AddElement
    <3> QED
      BY <3>1, <1>0
  <2>4. IsFiniteSet(Present') /\ Cardinality(Present') <= Cardinality(Present \cup {r}) /\ Cardinality(Present') \in Nat
    <3>1. IsFiniteSet(Present') /\ Cardinality(Present') <= Cardinality(Present \cup {r})
      BY <2>2, <2>3, FS_Subset
    <3> QED
      BY <3>1, FS_CardinalityType
  <2>5. Cardinality(Present \cup {r}) \in Nat
    BY <2>3, FS_CardinalityType
  <2>6. Cardinality(Present) < IF SweepFloor > 2 * swept THEN SweepFloor ELSE 2 * swept
    BY <1>0, <1>4 DEF SweepDue
  <2>7. Cardinality(Present') <= IF SweepFloor > 2 * swept THEN SweepFloor ELSE 2 * swept
    BY <1>0, <2>3, <2>4, <2>5, <2>6
  <2> QED
    BY <1>2, <2>1, <2>4, <2>7 DEF IndexBounded
<1>5. CASE ~Same(entries[r], code) /\ SweepDue
  <2>1. /\ swept' = Cardinality(Retained)
        /\ entries' = [q \in Refs |-> IF q = r THEN [code |-> code, age |-> 0, fingerprint |-> config_fp]
                                      ELSE IF q \notin Retained THEN None ELSE entries[q]]
    BY <1>5 DEF ObserveError
  <2>2. Present' \subseteq Retained \cup {r}
    BY <2>1 DEF Present
  <2>3. IsFiniteSet(Retained \cup {r}) /\ Cardinality(Retained \cup {r}) <= Cardinality(Retained) + 1
    <3>1. /\ IsFiniteSet(Retained \cup {r})
          /\ Cardinality(Retained \cup {r}) = IF r \in Retained THEN Cardinality(Retained) ELSE Cardinality(Retained) + 1
      BY <1>1, FS_AddElement
    <3> QED
      BY <3>1, <1>1
  <2>4. IsFiniteSet(Present') /\ Cardinality(Present') <= Cardinality(Retained \cup {r}) /\ Cardinality(Present') \in Nat
    <3>1. IsFiniteSet(Present') /\ Cardinality(Present') <= Cardinality(Retained \cup {r})
      BY <2>2, <2>3, FS_Subset
    <3> QED
      BY <3>1, FS_CardinalityType
  <2>5. Cardinality(Retained \cup {r}) \in Nat
    BY <2>3, FS_CardinalityType
  <2>6. Cardinality(Present') <= IF SweepFloor > 2 * swept' THEN SweepFloor ELSE 2 * swept'
    BY <1>0, <1>1, <2>1, <2>3, <2>4, <2>5
  <2> QED
    BY <1>2, <2>4, <2>6 DEF IndexBounded
<1> QED
  BY <1>3, <1>4, <1>5

\* A bookend that has been filed.
LEMMA BookendTyped ==
  ASSUME IndexTyped, NEW c \in Fetchers, Observe(c)
  PROVE  IndexTyped'
<1> DEFINE r == fetch[c].ref
           told == fetch[c].told
<1>0. /\ TypeOK /\ Working /\ pc[c] = "told" /\ r \in Refs /\ told \in Codes \cup {"ok"} /\ fetch[c].fp \in Nat
  BY DEF IndexTyped, TypeOK, Working, Observe
<1>1. /\ (told = "ok" /\ entries' = [entries EXCEPT ![r] = None] /\ swept' = swept) \/ (told # "ok" /\ ObserveError(r, told))
      /\ last' = (IF went_out[c] THEN [last EXCEPT ![r] = [told |-> told, age |-> 0, fp |-> fetch[c].fp]] ELSE last)
      /\ Return(c) /\ config_fp' = config_fp
  BY DEF Observe
<1> HIDE DEF r, told
<1>2. last' \in [Refs -> Heard \cup {None}]
  <2>1. [told |-> told, age |-> 0, fp |-> fetch[c].fp] \in Heard
    BY <1>0, WindowAssumption DEF Heard
  <2>2. last \in [Refs -> Heard \cup {None}]
    BY <1>0 DEF TypeOK
  <2> QED
    BY <1>0, <1>1, <2>1, <2>2
<1>3. entries' \in [Refs -> IndexEntry \cup {None}] /\ swept' \in Nat /\ IsFiniteSet(Present') /\ IndexBounded'
  <2>1. CASE told = "ok"
    <3>1. entries' = [entries EXCEPT ![r] = None] /\ swept' = swept
      BY <1>1, <2>1
    <3>2. entries' \in [Refs -> IndexEntry \cup {None}] /\ swept' \in Nat
      BY <1>0, <3>1 DEF TypeOK
    <3>3. Present' \in SUBSET Present
      BY <1>0, <3>1 DEF Present, TypeOK
    <3>4. IsFiniteSet(Present) /\ Cardinality(Present) \in Nat
      BY FS_CardinalityType DEF IndexTyped
    <3>5. IsFiniteSet(Present') /\ Cardinality(Present') <= Cardinality(Present)
      BY <3>3, <3>4, FS_Subset
    <3>6. Cardinality(Present') \in Nat
      BY <3>5, FS_CardinalityType
    <3>7. IndexBounded'
      BY <1>0, <3>1, <3>4, <3>5, <3>6, WindowAssumption DEF IndexBounded, IndexTyped, TypeOK
    <3> QED
      BY <3>2, <3>5, <3>7
  <2>2. CASE told # "ok"
    <3>1. told \in Codes /\ ObserveError(r, told)
      BY <1>0, <1>1, <2>2
    <3> QED
      BY <1>0, <3>1, Observed, ObservedBounded
  <2> QED
    BY <2>1, <2>2
<1>4. TypeOK' /\ Working'
  <2>1. NoCall \in [ref : Refs \cup {None}, told : Codes \cup {"ok"}, fp : Nat] /\ NoCall.fp = 0
    BY DEF NoCall
  <2>2. TypeOK'
    BY <1>0, <1>1, <1>2, <1>3, <2>1 DEF TypeOK, Return
  <2>3. Working'
    BY <1>0, <1>1, <2>1 DEF TypeOK, Working, Return
  <2> QED
    BY <2>2, <2>3
<1> QED
  BY <1>3, <1>4 DEF IndexTyped

\* The index is left alone.
LEMMA IndexAlone ==
  ASSUME IndexTyped, UNCHANGED <<entries, swept>>
  PROVE  IsFiniteSet(Present') /\ IndexBounded'
<1>1. Present' = Present
  BY DEF Present
<1> QED
  BY <1>1 DEF IndexTyped, IndexBounded

LEMMA TicksTyped ==
  ASSUME IndexTyped, Tick
  PROVE  /\ IndexTyped'
         /\ \A r \in Refs : entries'[r] = Older(entries[r]) /\ last'[r] = Older(last[r])
<1>0. TypeOK /\ Working
  BY DEF IndexTyped
<1>1. \A r \in Refs : entries'[r] = Older(entries[r]) /\ last'[r] = Older(last[r])
  BY DEF Tick
<1>2. entries' \in [Refs -> IndexEntry \cup {None}] /\ last' \in [Refs -> Heard \cup {None}]
  <2>1. \A r \in Refs : Older(entries[r]) \in IndexEntry \cup {None} /\ Older(last[r]) \in Heard \cup {None}
    BY <1>0, GetsOlder, HeardGetsOlder DEF TypeOK
  <2> QED
    BY <2>1 DEF Tick
<1>3. Present' = Present
  <2>1. \A r \in Refs : entries'[r] = None <=> entries[r] = None
    BY <1>0, <1>1, GetsOlder DEF TypeOK
  <2> QED
    BY <2>1 DEF Present
<1>4. TypeOK' /\ Working'
  BY <1>0, <1>2 DEF TypeOK, Working, Tick
<1>5. IsFiniteSet(Present') /\ IndexBounded'
  BY <1>3 DEF IndexTyped, IndexBounded, Tick
<1> QED
  BY <1>1, <1>4, <1>5 DEF IndexTyped

LEMMA CallsTyped ==
  ASSUME IndexTyped, NEW c \in Fetchers,
         \/ \E r \in Refs : Replayed(c, r) \/ \E force \in {"no", "yes"} : AskNetwork(c, r, force)
         \/ \E told \in Answers : NetworkAnswers(c, told)
         \/ BookendLost(c)
  PROVE  IndexTyped' /\ UNCHANGED <<entries, swept, config_fp, last>>
<1>0. TypeOK /\ Working
  BY DEF IndexTyped
<1>1. UNCHANGED <<entries, swept, config_fp, last>>
  BY DEF Replayed, AskNetwork, NetworkAnswers, BookendLost
<1>2. ASSUME NEW r \in Refs, Replayed(c, r) PROVE TypeOK' /\ Working'
  <2> DEFINE told == IF Verdict(r) = "replay" THEN entries[r].code ELSE "RATE_LIMITED"
  <2>1. told \in Codes
    <3>1. entries[r] \in IndexEntry
      BY <1>0, <1>2, RefusedByEntry DEF Replayed, TypeOK
    <3> QED
      BY <3>1, Dispositions DEF IndexEntry
  <2>2. /\ fetch' = [fetch EXCEPT ![c] = [ref |-> r, fp |-> config_fp, told |-> told]]
        /\ pc' = [pc EXCEPT ![c] = "told"] /\ went_out' = went_out /\ pc[c] = "idle"
    BY <1>2, Zenon DEF Replayed
  <2> HIDE DEF told
  <2> QED
    BY <1>0, <1>1, <2>1, <2>2 DEF TypeOK, Working
<1>3. ASSUME NEW r \in Refs, NEW force, AskNetwork(c, r, force) PROVE TypeOK' /\ Working'
  BY <1>0, <1>1, <1>3 DEF TypeOK, Working, AskNetwork
<1>4. ASSUME NEW told \in Answers, NetworkAnswers(c, told) PROVE TypeOK' /\ Working'
  <2>1. told \in Codes \cup {"ok"}
    BY <1>4, AnswerAssumption
  <2>2. /\ fetch' = [fetch EXCEPT ![c] = [fetch[c] EXCEPT !.told = told]] /\ pc' = [pc EXCEPT ![c] = "told"]
        /\ went_out' = went_out /\ pc[c] = "asking"
    BY <1>4, Zenon DEF NetworkAnswers
  <2>3. /\ [fetch[c] EXCEPT !.told = told] \in [ref : Refs \cup {None}, told : Codes \cup {"ok"}, fp : Nat]
        /\ [fetch[c] EXCEPT !.told = told].ref = fetch[c].ref /\ [fetch[c] EXCEPT !.told = told].fp = fetch[c].fp
    BY <1>0, <2>1 DEF TypeOK
  <2> QED
    BY <1>0, <1>1, <2>2, <2>3 DEF TypeOK, Working
<1>5. ASSUME BookendLost(c) PROVE TypeOK' /\ Working'
  BY <1>0, <1>1, <1>5 DEF TypeOK, Working, BookendLost, Return, NoCall
<1>6. TypeOK' /\ Working'
  BY <1>2, <1>3, <1>4, <1>5
<1> QED
  BY <1>1, <1>6, IndexAlone DEF IndexTyped

LEMMA EditTyped ==
  ASSUME IndexTyped, EditConfigFile
  PROVE  IndexTyped'
<1>1. TypeOK' /\ Working'
  BY DEF IndexTyped, TypeOK, Working, EditConfigFile
<1> QED
  BY <1>1, IndexAlone DEF IndexTyped, EditConfigFile

LEMMA RestTyped ==
  ASSUME IndexTyped, UNCHANGED vars
  PROVE  IndexTyped'
<1>1. TypeOK' /\ Working'
  BY DEF IndexTyped, TypeOK, Working, vars
<1> QED
  BY <1>1, IndexAlone DEF IndexTyped, vars

LEMMA IndexKeepsType == Spec => []IndexTyped
<1>1. Init => IndexTyped
  <2> SUFFICES ASSUME Init PROVE IndexTyped
    OBVIOUS
  <2>1. Present = {}
    BY DEF Init, Present
  <2>2. IsFiniteSet(Present) /\ Cardinality(Present) = 0
    BY <2>1, FS_EmptySet
  <2>3. IndexBounded
    BY <2>2, WindowAssumption DEF IndexBounded, Init
  <2>4. TypeOK /\ Working
    BY DEF Init, NoCall, TypeOK, Working
  <2> QED
    BY <2>2, <2>3, <2>4 DEF IndexTyped
<1>2. IndexTyped /\ [Next]_vars => IndexTyped'
  BY BookendTyped, TicksTyped, CallsTyped, EditTyped, RestTyped, Zenon DEF Next
<1> QED
  BY <1>1, <1>2, PTL DEF Spec

\* The index of a session keeps within twice what its last sweep left, for any
\* number of callers and refs (observe_at, SWEEP_FLOOR).
THEOREM IndexStaysBounded == Spec => []IndexBounded
<1>1. IndexTyped => IndexBounded
  BY DEF IndexTyped
<1> QED
  BY <1>1, IndexKeepsType, PTL

\* A sweep drops no entry that check_at could still act on, and nothing else but a
\* success of the ref does, for any number of callers.
THEOREM LiveEntriesStay == Spec => SweepKeepsLive
<1> DEFINE LostForCause == \A r \in Refs : entries[r] # None /\ entries'[r] = None =>
                     \/ entries[r].age = ReplayWindow
                     \/ \E c \in Fetchers : pc[c] = "told" /\ fetch[c].ref = r /\ fetch[c].told = "ok"
<1>1. IndexTyped /\ [Next]_vars => [LostForCause]_vars
  <2> SUFFICES ASSUME IndexTyped, Next PROVE LostForCause
    OBVIOUS
  <2> SUFFICES ASSUME NEW r \in Refs, entries[r] # None, entries'[r] = None
               PROVE  \/ entries[r].age = ReplayWindow
                      \/ \E c \in Fetchers : pc[c] = "told" /\ fetch[c].ref = r /\ fetch[c].told = "ok"
    OBVIOUS
  <2>0. TypeOK
    BY DEF IndexTyped
  <2>1. ~UNCHANGED entries
    OBVIOUS
  <2>2. ASSUME NEW c \in Fetchers, Observe(c)
        PROVE  entries[r].age = ReplayWindow \/ (pc[c] = "told" /\ fetch[c].ref = r /\ fetch[c].told = "ok")
    <3>0. pc[c] = "told" /\ fetch[c].ref \in Refs /\ fetch[c].told \in Codes \cup {"ok"}
      BY <2>2 DEF Observe, IndexTyped, TypeOK, Working
    <3>1. CASE fetch[c].told = "ok"
      <4>1. entries' = [entries EXCEPT ![fetch[c].ref] = None]
        BY <2>2, <3>1 DEF Observe
      <4> QED
        BY <2>0, <3>0, <3>1, <4>1 DEF TypeOK
    <3>2. CASE fetch[c].told # "ok"
      <4>1. fetch[c].told \in Codes /\ ObserveError(fetch[c].ref, fetch[c].told)
        BY <2>2, <3>0, <3>2 DEF Observe
      <4>2. r # fetch[c].ref /\ r \notin Retained
        BY <2>0, <3>0, <4>1, Observed
      <4>3. entries[r] \in IndexEntry /\ ~(entries[r].age < ReplayWindow)
        BY <2>0, <4>2 DEF Retained, Present, TypeOK
      <4> QED
        BY <4>3, WindowAssumption DEF IndexEntry
    <3> QED
      BY <3>1, <3>2
  <2>3. ASSUME Tick PROVE FALSE
    BY <2>0, <2>3, TicksTyped, GetsOlder DEF TypeOK
  <2>4. EditConfigFile => UNCHANGED entries
    BY DEF EditConfigFile
  <2>5. ASSUME NEW c \in Fetchers,
               \/ \E q \in Refs : Replayed(c, q) \/ \E force \in {"no", "yes"} : AskNetwork(c, q, force)
               \/ \E told \in Answers : NetworkAnswers(c, told)
               \/ BookendLost(c)
        PROVE  UNCHANGED entries
    BY <2>5, CallsTyped
  <2> QED
    BY <2>1, <2>2, <2>3, <2>4, <2>5, Zenon DEF Next
<1> QED
  BY <1>1, IndexKeepsType, PTL DEF Spec, SweepKeepsLive

-----------------------------------------------------------------------------
(* One caller at a time.                                                   *)

OneFetcher == \A c, d \in Fetchers : c = d

IndexInv == IndexTyped /\ Backed /\ Relayed

\* A call asks, is told, or loses its bookend.
LEMMA CallsBacked ==
  ASSUME IndexInv, IndexTyped', NEW c \in Fetchers,
         \/ \E r \in Refs : Replayed(c, r) \/ \E force \in {"no", "yes"} : AskNetwork(c, r, force)
         \/ \E told \in Answers : NetworkAnswers(c, told)
         \/ BookendLost(c)
  PROVE  Backed' /\ Relayed'
<1>0. IndexTyped /\ TypeOK /\ Working /\ UNCHANGED <<entries, config_fp, last>>
  BY CallsTyped DEF IndexInv, IndexTyped
<1>1. Backed'
  BY <1>0 DEF IndexInv, Backed
<1>2. \A d \in Fetchers \ {c} : pc'[d] = pc[d] /\ fetch'[d] = fetch[d] /\ went_out'[d] = went_out[d]
  BY <1>0 DEF TypeOK, Replayed, AskNetwork, NetworkAnswers, BookendLost, Return
<1>3. pc'[c] = "told" /\ ~went_out'[c] => Relay(fetch'[c], entries[fetch'[c].ref], last[fetch'[c].ref])
  <2>1. ASSUME NEW r \in Refs, Replayed(c, r)
        PROVE  Relay(fetch'[c], entries[fetch'[c].ref], last[fetch'[c].ref])
    <3> DEFINE told == IF Verdict(r) = "replay" THEN entries[r].code ELSE "RATE_LIMITED"
    <3>1. /\ entries[r] # None /\ entries[r].fingerprint = config_fp /\ entries[r] \in IndexEntry
          /\ Verdict(r) = "replay" => Disposition(entries[r].code) # "retry_after"
          /\ Verdict(r) # "replay" => Disposition(entries[r].code) = "retry_after"
      BY <1>0, <2>1, RefusedByEntry DEF Replayed, TypeOK
    <3>2. last[r] # None /\ last[r].fp <= config_fp
      BY <3>1 DEF IndexInv, Backed, Backing
    <3>3. told # "ok" /\ Disposition(told) = Disposition(entries[r].code)
          /\ (Disposition(entries[r].code) # "retry_after" => told = entries[r].code)
      <4>1. entries[r].code # "ok"
        BY <3>1 DEF IndexEntry, Codes
      <4> QED
        BY <3>1, <4>1, Dispositions
    <3>4. fetch' = [fetch EXCEPT ![c] = [ref |-> r, fp |-> config_fp, told |-> told]]
      BY <2>1, Zenon DEF Replayed
    <3> HIDE DEF told
    <3>5. fetch'[c].ref = r /\ fetch'[c].fp = config_fp /\ fetch'[c].told = told
      BY <1>0, <3>4 DEF TypeOK
    <3> QED
      BY <3>1, <3>2, <3>3, <3>5 DEF Relay
  <2>2. ASSUME NEW r \in Refs, NEW force, AskNetwork(c, r, force) PROVE pc'[c] # "told"
    BY <1>0, <2>2 DEF TypeOK, AskNetwork
  <2>3. ASSUME NEW told, NetworkAnswers(c, told) PROVE went_out'[c]
    BY <1>0, <2>3 DEF TypeOK, Working, NetworkAnswers
  <2>4. ASSUME BookendLost(c) PROVE pc'[c] # "told"
    BY <1>0, <2>4 DEF TypeOK, BookendLost, Return
  <2> QED
    BY <2>1, <2>2, <2>3, <2>4, Zenon
<1>4. Relayed'
  BY <1>0, <1>2, <1>3 DEF IndexInv, Relayed
<1> QED
  BY <1>1, <1>4

\* The only call under way ends: nothing is left to be relayed, and its entry is
\* the answer it was told, or goes back to one of another configuration.
LEMMA BookendBacked ==
  ASSUME OneFetcher, IndexInv, IndexTyped', NEW c \in Fetchers, Observe(c)
  PROVE  Backed' /\ Relayed'
<1> DEFINE f == fetch[c]
           r == f.ref
<1>0. /\ TypeOK /\ Working /\ pc[c] = "told" /\ r \in Refs /\ f.told \in Codes \cup {"ok"} /\ f.fp \in Nat
      /\ f.fp <= config_fp /\ config_fp \in Nat
  BY DEF IndexInv, IndexTyped, TypeOK, Working, Observe
<1>1. /\ last' = (IF went_out[c] THEN [last EXCEPT ![r] = [told |-> f.told, age |-> 0, fp |-> f.fp]] ELSE last)
      /\ Return(c) /\ config_fp' = config_fp
  BY DEF Observe
<1>2. Relayed'
  <2>1. \A d \in Fetchers : pc'[d] = "idle"
    BY <1>0, <1>1 DEF OneFetcher, TypeOK, Return
  <2> QED
    BY <2>1 DEF Relayed
<1>3. TypeOK'
  BY DEF IndexTyped
<1> HIDE DEF r, f
<1>4. \A q \in Refs \ {r} : last'[q] = last[q]
  BY <1>0, <1>1 DEF TypeOK
<1>5. ASSUME NEW q \in Refs \ {r}, entries'[q] = entries[q] \/ entries'[q] = None
      PROVE  /\ Backing(entries'[q], last'[q])
             /\ last'[q] # None => last'[q].fp <= config_fp'
             /\ entries'[q] # None => entries'[q].fingerprint <= config_fp'
  <2>1. /\ Backing(entries[q], last[q])
        /\ last[q] # None => last[q].fp <= config_fp
        /\ entries[q] # None => entries[q].fingerprint <= config_fp
    BY DEF IndexInv, Backed
  <2> QED
    BY <1>1, <1>4, <1>5, <2>1 DEF Backing
<1>6. last'[r] # None => last'[r].fp <= config_fp'
  <2>1. last[r] # None => last[r].fp <= config_fp
    BY <1>0 DEF IndexInv, Backed
  <2> QED
    BY <1>0, <1>1, <2>1 DEF TypeOK
<1>7. CASE f.told = "ok"
  <2>1. entries' = [entries EXCEPT ![r] = None]
    BY <1>7 DEF Observe, f, r
  <2>2. entries'[r] = None /\ \A q \in Refs \ {r} : entries'[q] = entries[q]
    BY <1>0, <2>1 DEF TypeOK
  <2> QED
    BY <1>2, <1>5, <1>6, <2>2 DEF Backed, Backing
<1>8. CASE f.told # "ok"
  <2>1. f.told \in Codes /\ ObserveError(r, f.told)
    BY <1>0, <1>8 DEF Observe, f, r
  <2>2. /\ \A q \in Refs \ {r} : entries'[q] = entries[q] \/ entries'[q] = None
        /\ entries'[r] # None /\ entries'[r].fingerprint = config_fp
        /\ ~Same(entries[r], f.told) => entries'[r].code = f.told /\ entries'[r].age = 0
        /\ Same(entries[r], f.told) =>
             /\ entries'[r].age = entries[r].age /\ Disposition(entries'[r].code) = Disposition(f.told)
             /\ Disposition(f.told) # "retry_after" => entries'[r].code = f.told
             /\ Disposition(f.told) = "retry_after" => entries'[r].code = entries[r].code
    BY <1>0, <2>1, Observed
  <2>3. Backing(entries'[r], last'[r])
    <3>0. /\ Disposition(entries'[r].code) = Disposition(f.told)
          /\ Disposition(f.told) # "retry_after" => entries'[r].code = f.told
      BY <2>2
    <3>1. CASE went_out[c]
      <4> DEFINE l == [told |-> f.told, age |-> 0, fp |-> f.fp]
      <4>1. l \in Heard /\ l.told = f.told /\ l.age = 0
        BY <1>0, WindowAssumption DEF Heard
      <4>2. last'[r] = l /\ l # None
        BY <1>0, <1>1, <3>1, <4>1, NoneAssumption DEF TypeOK
      <4> HIDE DEF l
      <4>3. entries'[r].age >= 0
        BY <1>0, <1>3, <2>2 DEF TypeOK, IndexEntry
      <4> QED
        BY <1>8, <3>0, <4>1, <4>2, <4>3 DEF Backing, Told
    <3>2. CASE ~went_out[c]
      <4>1. Relay(f, entries[r], last[r]) /\ last' = last
        BY <1>0, <1>1, <3>2 DEF IndexInv, Relayed, f, r
      <4>2. CASE f.fp = config_fp
        <5>1. Same(entries[r], f.told)
          BY <4>1, <4>2 DEF Relay, Same
        <5>2. entries'[r].age = entries[r].age /\ entries'[r].code = entries[r].code
          BY <2>2, <4>1, <5>1 DEF Relay
        <5>3. Backing(entries[r], last[r])
          BY <1>0 DEF IndexInv, Backed
        <5> QED
          BY <2>2, <4>1, <4>2, <5>2, <5>3 DEF Backing, Told, Relay
      <4>3. CASE f.fp # config_fp
        <5>1. last[r].fp # config_fp /\ last[r] # None
          <6>1. last[r] # None /\ last[r].fp <= f.fp
            BY <4>1 DEF Relay
          <6>2. last[r].fp \in Nat
            BY <1>0, <6>1 DEF TypeOK, Heard
          <6> QED
            BY <1>0, <4>3, <6>1, <6>2
        <5> QED
          BY <2>2, <4>1, <5>1 DEF Backing
      <4> QED
        BY <4>2, <4>3
    <3> QED
      BY <3>1, <3>2
  <2>4. entries'[r].fingerprint <= config_fp'
    BY <1>0, <1>1, <2>2
  <2> QED
    BY <1>2, <1>5, <1>6, <2>2, <2>3, <2>4 DEF Backed
<1> QED
  BY <1>7, <1>8

\* An entry and the answer it goes back to get older together.
LEMMA TicksBacked ==
  ASSUME IndexInv, IndexTyped', Tick
  PROVE  Backed' /\ Relayed'
<1>0. /\ TypeOK /\ Working /\ UNCHANGED <<config_fp, pc, fetch, went_out>>
      /\ \A r \in Refs : entries'[r] = Older(entries[r]) /\ last'[r] = Older(last[r])
  BY TicksTyped DEF IndexInv, IndexTyped, Tick
<1>1. ASSUME NEW r \in Refs
      PROVE  /\ entries'[r] = None <=> entries[r] = None
             /\ last'[r] = None <=> last[r] = None
             /\ entries[r] # None => /\ entries'[r].code = entries[r].code
                                     /\ entries'[r].fingerprint = entries[r].fingerprint
             /\ last[r] # None => last'[r].told = last[r].told /\ last'[r].fp = last[r].fp
             /\ entries[r] # None /\ last[r] # None /\ last[r].age <= entries[r].age => last'[r].age <= entries'[r].age
  <2>1. entries[r] \in IndexEntry \cup {None} /\ last[r] \in Heard \cup {None}
    BY <1>0 DEF TypeOK
  <2>2. /\ Older(entries[r]) = None <=> entries[r] = None
        /\ entries[r] # None => /\ Older(entries[r]).code = entries[r].code
                                /\ Older(entries[r]).fingerprint = entries[r].fingerprint
                                /\ Older(entries[r]).age = IF entries[r].age = ReplayWindow THEN entries[r].age ELSE entries[r].age + 1
    BY <2>1, GetsOlder
  <2>3. /\ Older(last[r]) = None <=> last[r] = None
        /\ last[r] # None => /\ Older(last[r]).told = last[r].told /\ Older(last[r]).fp = last[r].fp
                             /\ Older(last[r]).age = IF last[r].age = ReplayWindow THEN last[r].age ELSE last[r].age + 1
    BY <2>1, HeardGetsOlder
  <2>4. (entries[r] # None => entries[r].age \in 0..ReplayWindow) /\ (last[r] # None => last[r].age \in 0..ReplayWindow)
    BY <2>1 DEF IndexEntry, Heard
  <2> QED
    BY <1>0, <2>2, <2>3, <2>4, WindowAssumption
<1>2. Backed'
  BY <1>0, <1>1 DEF IndexInv, Backed, Backing, Told
<1>3. Relayed'
  <2> SUFFICES ASSUME NEW c \in Fetchers, pc[c] = "told", ~went_out[c]
               PROVE  Relay(fetch[c], entries'[fetch[c].ref], last'[fetch[c].ref])
    BY <1>0 DEF Relayed
  <2>1. fetch[c].ref \in Refs /\ Relay(fetch[c], entries[fetch[c].ref], last[fetch[c].ref])
    BY <1>0 DEF Working, IndexInv, Relayed
  <2> QED
    BY <1>1, <2>1 DEF Relay
<1> QED
  BY <1>2, <1>3

\* With one caller at a time a refusal is the last answer of the network to that
\* ref, still in its window (check_at, observe_at), whatever is swept, forced, lost
\* or edited in between.
THEOREM RefusalsAreEarned ==
  ASSUME OneFetcher
  PROVE  Spec => []ReplayIsJustified
<1>1. Init => Backed /\ Relayed
  BY DEF Init, Backed, Backing, Relayed
<1>2. IndexInv /\ IndexTyped' /\ [Next]_vars => Backed' /\ Relayed'
  <2> SUFFICES ASSUME IndexInv, IndexTyped', [Next]_vars PROVE Backed' /\ Relayed'
    OBVIOUS
  <2>1. CASE UNCHANGED vars
    BY <2>1 DEF vars, IndexInv, Backed, Relayed
  <2>2. CASE EditConfigFile
    <3>1. /\ UNCHANGED <<entries, pc, fetch, went_out, last>> /\ config_fp' = config_fp + 1 /\ config_fp \in Nat
          /\ \A r \in Refs : entries[r] \in IndexEntry \cup {None} /\ last[r] \in Heard \cup {None}
      BY <2>2 DEF EditConfigFile, IndexInv, IndexTyped, TypeOK
    <3>2. Relayed'
      BY <3>1 DEF IndexInv, Relayed
    <3>3. Backed'
      BY <3>1 DEF IndexInv, Backed, IndexEntry, Heard
    <3> QED
      BY <3>2, <3>3
  <2> QED
    BY <2>1, <2>2, CallsBacked, BookendBacked, TicksBacked, Zenon DEF Next
<1>3. IndexInv => ReplayIsJustified
  <2> SUFFICES ASSUME IndexInv, NEW r \in Refs, Verdict(r) # "proceed", last[r] # None => last[r].fp = config_fp
               PROVE  /\ last[r] # None /\ last[r].told # "ok"
                      /\ Disposition(last[r].told) = Disposition(entries[r].code)
                      /\ last[r].age <= entries[r].age
                      /\ Verdict(r) = "replay" => entries[r].code = last[r].told
    BY DEF ReplayIsJustified
  <2>1. /\ entries[r] # None /\ entries[r].fingerprint = config_fp
        /\ Verdict(r) = "replay" => Disposition(entries[r].code) # "retry_after"
    BY RefusedByEntry
  <2>2. Backing(entries[r], last[r])
    BY DEF IndexInv, Backed
  <2> QED
    BY <2>1, <2>2 DEF Backing, Told
<1> QED
  BY <1>1, <1>2, <1>3, IndexKeepsType, PTL DEF Spec, IndexInv
-----------------------------------------------------------------------------
(***************************************************************************)
(* The full text.  The parser keeps, at every event of the page, what the  *)
(* page has shown: the texts of the sections it has closed, followed by    *)
(* the text it is collecting, are in the order of the page (InOrder), and  *)
(* of a page that is well-formed so far the parser holds the sections that *)
(* the page has shown, the one under way apart, and its title (Faithful).  *)
(* What Concat computes is proved first: a LET function is what its        *)
(* equation says once a solution is known to exist, and a statement about  *)
(* all its arguments follows by taking the least one it fails for.         *)
(***************************************************************************)

Fragments == Seq(Nat)
Section == [heading : Fragments, text : Fragments]
ParserType ==
  [sections : Seq(Section), cur_heading : Fragments, cur_text : Fragments,
   title : Fragments, title_buf : Fragments, in_title : BOOLEAN, skip : Nat, in_heading : BOOLEAN,
   heading_buf : Fragments]
PageType ==
  [events : Nat, title : Fragments, sections : Seq(Section), last : Section, head : Fragments, body : Fragments,
   open : {"none", "title", "heading"}, wellformed : BOOLEAN, cut : BOOLEAN]

TextsOf(ss) == [i \in DOMAIN ss |-> ss[i].text]
BodySoFar(p) == Concat(TextsOf(p.sections)) \o p.cur_text
UpTo(s, n) == \A i \in 1..Len(s) : s[i] <= n

InOrder(p, g) == Increasing(BodySoFar(p)) /\ UpTo(BodySoFar(p), g.events)
TitleKept(p, g) ==
  IF p.in_title THEN p.title = <<>> /\ p.title_buf = g.title ELSE p.title = g.title
SectionsKept(p, g) ==
  IF p.in_heading THEN p.sections = PageSections(g) /\ p.heading_buf = g.head
  ELSE p.sections = g.sections /\ p.cur_heading = g.last.heading /\ p.cur_text = g.last.text
OpenAgrees(p, g) == /\ g.open = "title" <=> p.in_title
                    /\ g.open = "heading" <=> p.in_heading
Faithful(p, g) == g.wellformed =>
  BodySoFar(p) = g.body /\ OpenAgrees(p, g) /\ SectionsKept(p, g) /\ TitleKept(p, g)

\* What holds between two events.
Parsing(p, g) ==
  /\ p \in ParserType /\ g \in PageType
  /\ InOrder(p, g) /\ (p.in_heading => p.cur_text = <<>>)
  /\ Faithful(p, g)

\* The inductive invariant.
TextInv ==
  /\ text = "idle" => parser = Parser0 /\ page = Page0
  /\ text = "parse" => Parsing(parser, page)
  /\ TextIsThePages

\* f solves the equation of Join up to n.
IsJoin(f, ss, n) == f = [i \in 0..n |-> IF i = 0 THEN <<>> ELSE f[i - 1] \o ss[i]]

\* Concat takes the last value of a solution.
LEMMA ConcatIsJoin ==
  ASSUME NEW ss
  PROVE  Concat(ss) = (CHOOSE f : IsJoin(f, ss, Len(ss)))[Len(ss)]
  BY Zenon DEF Concat, IsJoin

\* The equation that defines Join has a solution: the least number without one
\* would follow a number that has one, and that one can be extended.
LEMMA JoinExists ==
  ASSUME NEW ss, NEW n \in Nat
  PROVE  \E f : IsJoin(f, ss, n)
<1> DEFINE without == {m \in Nat : ~\E f : IsJoin(f, ss, m)}
<1>1. SUFFICES ASSUME without # {} PROVE FALSE
  OBVIOUS
<1>2. without \subseteq Nat
  OBVIOUS
<1>3. PICK m \in without : \A k \in without : m <= k
  <2> HIDE DEF without
  <2> QED BY <1>1, <1>2, LeastNumber
<1>4. m \in Nat /\ ~\E f : IsJoin(f, ss, m)
  OBVIOUS
<1>5. CASE m = 0
  <2> DEFINE g == [i \in 0..m |-> <<>>]
  <2>1. \A i \in 0..m : i = 0
    BY <1>5
  <2>2. IsJoin(g, ss, m)
    BY <2>1 DEF IsJoin
  <2> QED BY <2>2, <1>4
<1>6. CASE m # 0
  <2>1. m - 1 \in Nat /\ ~(m <= m - 1)
    BY <1>4, <1>6
  <2>2. m - 1 \notin without
    BY <2>1, <1>3
  <2>3. PICK f : IsJoin(f, ss, m - 1)
    BY <2>1, <2>2
  <2> DEFINE g == [i \in 0..m |-> IF i = m THEN f[m - 1] \o ss[m] ELSE f[i]]
  <2>4. ASSUME NEW i \in 0..m PROVE g[i] = IF i = 0 THEN <<>> ELSE g[i - 1] \o ss[i]
    <3>1. CASE i = m
      <4>1. i # 0 /\ i - 1 = m - 1 /\ i - 1 \in 0..m /\ i - 1 # m
        BY <3>1, <1>4, <1>6
      <4>2. g[i - 1] = f[m - 1]
        BY <4>1
      <4>3. g[i] = f[m - 1] \o ss[m]
        BY <3>1
      <4> QED BY <3>1, <4>1, <4>2, <4>3, Zenon
    <3>2. CASE i # m
      <4>1. i \in 0..(m - 1) /\ (i # 0 => i - 1 \in 0..m /\ i - 1 # m)
        BY <3>2, <1>4, <2>4
      <4>2. g[i] = f[i] /\ (i # 0 => g[i - 1] = f[i - 1])
        BY <4>1, <3>2
      <4>3. f[i] = IF i = 0 THEN <<>> ELSE f[i - 1] \o ss[i]
        <5> HIDE DEF g
        <5> QED BY <2>3, <4>1 DEF IsJoin
      <4> HIDE DEF g
      <4> QED BY <4>2, <4>3, Zenon
    <3> QED BY <3>1, <3>2
  <2>5. g = [i \in 0..m |-> g[i]]
    OBVIOUS
  <2>6. IsJoin(g, ss, m)
    <3> HIDE DEF g
    <3>1. [i \in 0..m |-> g[i]] = [i \in 0..m |-> IF i = 0 THEN <<>> ELSE g[i - 1] \o ss[i]]
      BY <2>4
    <3> QED BY <2>5, <3>1, Zenon DEF IsJoin
  <2> QED BY <2>6, <1>4
<1> QED BY <1>5, <1>6

\* What a solution is at one argument.
LEMMA JoinEquation ==
  ASSUME NEW ss, NEW n, NEW f, IsJoin(f, ss, n), NEW k \in 0..n
  PROVE  f[k] = IF k = 0 THEN <<>> ELSE f[k - 1] \o ss[k]
  BY DEF IsJoin

\* Two of them agree as far as their arguments do.
LEMMA JoinsAgree ==
  ASSUME NEW ss, NEW tt, NEW n \in Nat, NEW m \in Nat, NEW f, NEW g,
         IsJoin(f, ss, n), IsJoin(g, tt, m), n <= m, \A i \in 1..n : ss[i] = tt[i],
         NEW k \in 0..n
  PROVE  f[k] = g[k]
<1> DEFINE differ == {j \in 0..n : f[j] # g[j]}
<1>1. SUFFICES ASSUME differ # {} PROVE FALSE
  OBVIOUS
<1>2. differ \subseteq Nat
  OBVIOUS
<1>3. PICK j \in differ : \A i \in differ : j <= i
  <2> HIDE DEF differ
  <2> QED BY <1>1, <1>2, LeastNumber
<1>4. j \in 0..n /\ j \in 0..m /\ f[j] # g[j]
  OBVIOUS
<1>5. f[j] = IF j = 0 THEN <<>> ELSE f[j - 1] \o ss[j]
  BY <1>4, JoinEquation
<1>6. g[j] = IF j = 0 THEN <<>> ELSE g[j - 1] \o tt[j]
  BY <1>4, JoinEquation
<1>7. j # 0
  BY <1>4, <1>5, <1>6
<1>8. j - 1 \in 0..n /\ ~(j <= j - 1) /\ j \in 1..n
  BY <1>4, <1>7
<1>9. f[j - 1] = g[j - 1]
  BY <1>8, <1>3
<1>10. ss[j] = tt[j]
  BY <1>8
<1> QED BY <1>4, <1>5, <1>6, <1>7, <1>9, <1>10, Zenon

\* A solution over sequences has sequences as its values.
LEMMA JoinIsSeq ==
  ASSUME NEW S, NEW ss \in Seq(Seq(S)), NEW f, IsJoin(f, ss, Len(ss)), NEW k \in 0..Len(ss)
  PROVE  f[k] \in Seq(S)
<1> DEFINE bad == {j \in 0..Len(ss) : f[j] \notin Seq(S)}
<1>1. SUFFICES ASSUME bad # {} PROVE FALSE
  OBVIOUS
<1>2. bad \subseteq Nat
  OBVIOUS
<1>3. PICK j \in bad : \A i \in bad : j <= i
  <2> HIDE DEF bad
  <2> QED BY <1>1, <1>2, LeastNumber
<1>4. j \in 0..Len(ss) /\ f[j] \notin Seq(S) /\ Len(ss) \in Nat
  OBVIOUS
<1>5. f[j] = IF j = 0 THEN <<>> ELSE f[j - 1] \o ss[j]
  BY <1>4, JoinEquation
<1>6. <<>> \in Seq(S)
  OBVIOUS
<1>7. j # 0
  BY <1>4, <1>5, <1>6, Zenon
<1>8. j - 1 \in 0..Len(ss) /\ ~(j <= j - 1) /\ j \in 1..Len(ss)
  BY <1>4, <1>7
<1>9. f[j - 1] \in Seq(S)
  BY <1>8, <1>3
<1>10. ss[j] \in Seq(S)
  BY <1>8
<1>11. f[j - 1] \o ss[j] \in Seq(S)
  BY <1>9, <1>10
<1> QED BY <1>4, <1>5, <1>7, <1>11, Zenon

\* Nothing joined is nothing.
LEMMA ConcatEmpty == Concat(<<>>) = <<>>
<1>1. Len(<<>>) = 0
  OBVIOUS
<1>2. PICK f : f = CHOOSE h : IsJoin(h, <<>>, 0)
  OBVIOUS
<1>3. IsJoin(f, <<>>, 0)
  BY <1>2, JoinExists, Zenon
<1>4. f[0] = <<>>
  BY <1>3, JoinEquation
<1> QED BY <1>1, <1>2, <1>4, ConcatIsJoin, Zenon

\* Sequences joined are a sequence.
LEMMA ConcatType ==
  ASSUME NEW S, NEW ss \in Seq(Seq(S))
  PROVE  Concat(ss) \in Seq(S)
<1>1. Len(ss) \in Nat /\ Len(ss) \in 0..Len(ss)
  OBVIOUS
<1>2. PICK f : f = CHOOSE h : IsJoin(h, ss, Len(ss))
  OBVIOUS
<1>3. IsJoin(f, ss, Len(ss))
  BY <1>1, <1>2, JoinExists, Zenon
<1>4. f[Len(ss)] \in Seq(S)
  BY <1>1, <1>3, JoinIsSeq
<1> QED BY <1>2, <1>4, ConcatIsJoin, Zenon

\* One more sequence comes last.
LEMMA ConcatAppend ==
  ASSUME NEW S, NEW ss \in Seq(S), NEW x \in S
  PROVE  Concat(Append(ss, x)) = Concat(ss) \o x
<1> DEFINE n == Len(ss)
           tt == Append(ss, x)
<1>1. n \in Nat /\ Len(tt) = n + 1 /\ tt[n + 1] = x /\ \A i \in 1..n : ss[i] = tt[i]
  OBVIOUS
<1>2. n \in 0..n /\ n + 1 \in 0..(n + 1) /\ n + 1 \in Nat /\ n <= n + 1 /\ n + 1 # 0 /\ (n + 1) - 1 = n
  <2> HIDE DEF n
  <2> QED BY <1>1
<1> HIDE DEF n, tt
<1>3. PICK f : f = CHOOSE h : IsJoin(h, ss, n)
  OBVIOUS
<1>4. PICK g : g = CHOOSE h : IsJoin(h, tt, n + 1)
  OBVIOUS
<1>5. IsJoin(f, ss, n)
  BY <1>1, <1>3, JoinExists, Zenon
<1>6. IsJoin(g, tt, n + 1)
  BY <1>2, <1>4, JoinExists, Zenon
<1>7. f[n] = g[n]
  BY <1>1, <1>2, <1>5, <1>6, JoinsAgree
<1>8. g[n + 1] = g[(n + 1) - 1] \o tt[n + 1]
  <2>1. \A k \in 0..(n + 1) : g[k] = IF k = 0 THEN <<>> ELSE g[k - 1] \o tt[k]
    BY <1>6, JoinEquation
  <2> QED BY <1>2, <2>1, Zenon
<1>9. Concat(ss) = f[n]
  BY <1>3, ConcatIsJoin, Zenon DEF n
<1>10. Concat(tt) = g[n + 1]
  BY <1>1, <1>4, ConcatIsJoin, Zenon
<1> QED BY <1>1, <1>2, <1>7, <1>8, <1>9, <1>10, Zenon DEF tt

-----------------------------------------------------------------------------
\* The texts of sections.
LEMMA SectionsType ==
  ASSUME NEW ss \in Seq(Section)
  PROVE  TextsOf(ss) \in Seq(Fragments)
<1>1. DOMAIN ss = 1..Len(ss) /\ Len(ss) \in Nat
  OBVIOUS
<1>2. \A i \in DOMAIN ss : ss[i].text \in Fragments
  <2>1. \A i \in DOMAIN ss : ss[i] \in Section
    OBVIOUS
  <2>2. \A x \in Section : x.text \in Fragments
    BY DEF Section
  <2> QED BY <2>1, <2>2
<1>3. TextsOf(ss) = [i \in 1..Len(ss) |-> TextsOf(ss)[i]] /\ \A i \in 1..Len(ss) : TextsOf(ss)[i] \in Fragments
  BY <1>1, <1>2 DEF TextsOf
<1> QED BY <1>1, <1>3

\* One more section adds its text, at the end.
LEMMA SectionsAppend ==
  ASSUME NEW ss \in Seq(Section), NEW x \in Section
  PROVE  Concat(TextsOf(Append(ss, x))) = Concat(TextsOf(ss)) \o x.text
<1> DEFINE tt == Append(ss, x)
<1>1. DOMAIN tt = 1..(Len(ss) + 1) /\ DOMAIN ss = 1..Len(ss) /\ Len(ss) \in Nat /\ tt[Len(ss) + 1] = x
  OBVIOUS
<1>2. \A i \in 1..Len(ss) : tt[i] = ss[i]
  OBVIOUS
<1>3. TextsOf(ss) \in Seq(Fragments) /\ x.text \in Fragments
  BY SectionsType DEF Section
<1>4. DOMAIN TextsOf(ss) = 1..Len(ss)
  BY <1>1, Zenon DEF TextsOf
<1>5. Len(TextsOf(ss)) = Len(ss)
  BY <1>1, <1>3, <1>4, LenProperties
<1> HIDE DEF tt
<1>6. TextsOf(tt) = Append(TextsOf(ss), x.text)
  <2>1. \A i \in 1..(Len(ss) + 1) : TextsOf(tt)[i] = Append(TextsOf(ss), x.text)[i]
    <3> TAKE i \in 1..(Len(ss) + 1)
    <3>1. TextsOf(tt)[i] = tt[i].text
      BY <1>1 DEF TextsOf
    <3>2. CASE i = Len(ss) + 1
      BY <3>1, <3>2, <1>1, <1>3, <1>5, AppendProperties
    <3>3. CASE i # Len(ss) + 1
      <4>1. i \in 1..Len(ss)
        BY <3>3, <1>1
      <4>2. Append(TextsOf(ss), x.text)[i] = TextsOf(ss)[i]
        BY <4>1, <1>3, <1>5, AppendProperties
      <4>3. TextsOf(ss)[i] = ss[i].text
        BY <4>1, <1>1 DEF TextsOf
      <4> QED BY <3>1, <4>1, <4>2, <4>3, <1>2
    <3> QED BY <3>2, <3>3
  <2>2. Append(TextsOf(ss), x.text) = [i \in 1..(Len(ss) + 1) |-> Append(TextsOf(ss), x.text)[i]]
    BY <1>1, <1>3, <1>5
  <2>3. TextsOf(tt) = [i \in 1..(Len(ss) + 1) |-> TextsOf(tt)[i]]
    BY <1>1 DEF TextsOf
  <2> QED BY <2>1, <2>2, <2>3
<1>7. Concat(Append(TextsOf(ss), x.text)) = Concat(TextsOf(ss)) \o x.text
  BY <1>3, ConcatAppend
<1> QED BY <1>6, <1>7 DEF tt

\* What flush_section keeps: the section it closes.
LEMMA FlushKeeps ==
  ASSUME NEW p \in ParserType
  PROVE  /\ flush_section(p) \in ParserType
         /\ flush_section(p) = [p EXCEPT !.cur_text = <<>>, !.sections = flush_section(p).sections]
         /\ flush_section(p).sections =
              IF p.cur_heading # <<>> \/ p.cur_text # <<>>
              THEN Append(p.sections, [heading |-> p.cur_heading, text |-> p.cur_text]) ELSE p.sections
         /\ Concat(TextsOf(flush_section(p).sections)) = BodySoFar(p)
         /\ BodySoFar(p) \in Fragments
<1>1. p.sections \in Seq(Section) /\ p.cur_text \in Fragments /\ p.cur_heading \in Fragments
  BY DEF ParserType
<1>2. TextsOf(p.sections) \in Seq(Fragments)
  BY <1>1, SectionsType
<1>3. Concat(TextsOf(p.sections)) \in Fragments
  BY <1>2, ConcatType DEF Fragments
<1>4. BodySoFar(p) \in Fragments
  BY <1>1, <1>3 DEF BodySoFar, Fragments
<1> DEFINE x == [heading |-> p.cur_heading, text |-> p.cur_text]
<1>5. x \in Section /\ x.text = p.cur_text
  BY <1>1 DEF Section
<1>6. <<>> \in Fragments
  BY DEF Fragments
<1>7. CASE p.cur_text # <<>> \/ p.cur_heading # <<>>
  <2>1. flush_section(p) = [p EXCEPT !.cur_text = <<>>, !.sections = Append(@, x)]
    BY <1>7 DEF flush_section
  <2>2. Append(p.sections, x) \in Seq(Section)
    BY <1>1, <1>5
  <2> HIDE DEF x
  <2>3. flush_section(p) \in ParserType /\ flush_section(p).sections = Append(p.sections, x)
        /\ flush_section(p) = [p EXCEPT !.cur_text = <<>>, !.sections = flush_section(p).sections]
    BY <2>1, <2>2, <1>6 DEF ParserType
  <2>4. Concat(TextsOf(Append(p.sections, x))) = Concat(TextsOf(p.sections)) \o x.text
    BY <1>1, <1>5, SectionsAppend
  <2> QED BY <2>3, <2>4, <1>4, <1>5, <1>7, Zenon DEF BodySoFar, x
<1>8. CASE ~(p.cur_text # <<>> \/ p.cur_heading # <<>>)
  <2>1. flush_section(p) = [p EXCEPT !.cur_text = <<>>, !.sections = @]
    BY <1>8 DEF flush_section
  <2>2. flush_section(p) \in ParserType /\ flush_section(p).sections = p.sections
        /\ flush_section(p) = [p EXCEPT !.cur_text = <<>>, !.sections = flush_section(p).sections]
    BY <2>1, <1>6 DEF ParserType
  <2>3. BodySoFar(p) = Concat(TextsOf(p.sections))
    BY <1>8, <1>3, ConcatEmptySeq DEF BodySoFar, Fragments
  <2> QED BY <2>2, <2>3, <1>4, <1>8, Zenon
<1> QED BY <1>7, <1>8

\* The next fragment has a number no earlier one has.
LEMMA UpToNext ==
  ASSUME NEW s \in Fragments, NEW n \in Nat, Increasing(s), UpTo(s, n)
  PROVE  /\ UpTo(s, n + 1)
         /\ Append(s, n + 1) \in Fragments
         /\ Increasing(Append(s, n + 1)) /\ UpTo(Append(s, n + 1), n + 1)
<1>1. Len(s) \in Nat /\ \A i \in 1..Len(s) : s[i] \in Nat /\ s[i] <= n
  BY DEF Fragments, UpTo
<1> DEFINE t == Append(s, n + 1)
<1>2. /\ t \in Fragments /\ Len(t) = Len(s) + 1 /\ t[Len(s) + 1] = n + 1
      /\ \A i \in 1..Len(s) : t[i] = s[i]
  BY DEF Fragments
<1> HIDE DEF t
<1>3. UpTo(s, n + 1)
  BY <1>1 DEF UpTo
<1>4. UpTo(t, n + 1)
  BY <1>1, <1>2 DEF UpTo
<1>5. ASSUME NEW i \in 1..(Len(t) - 1) PROVE t[i] < t[i + 1]
  <2>1. i \in 1..Len(s)
    BY <1>1, <1>2
  <2>2. CASE i = Len(s)
    <3>1. t[i] = s[i] /\ s[i] \in Nat /\ s[i] <= n /\ t[i + 1] = n + 1
      BY <2>1, <2>2, <1>1, <1>2
    <3> QED BY <3>1
  <2>3. CASE i # Len(s)
    <3>1. i \in 1..(Len(s) - 1) /\ i + 1 \in 1..Len(s)
      BY <2>1, <2>3, <1>1
    <3>2. s[i] < s[i + 1]
      BY <3>1 DEF Increasing
    <3> QED BY <2>1, <3>1, <3>2, <1>2
  <2> QED BY <2>2, <2>3
<1>6. Increasing(t)
  BY <1>5 DEF Increasing
<1> QED BY <1>2, <1>3, <1>4, <1>6 DEF t

\* A fragment appended to the last text is appended to the whole.
LEMMA ConcatThenAppend ==
  ASSUME NEW s \in Fragments, NEW t \in Fragments, NEW x \in Nat
  PROVE  s \o Append(t, x) = Append(s \o t, x)
  BY DEF Fragments

\* An event that shows nothing.
LEMMA SilentEvent ==
  ASSUME NEW p, NEW g, Parsing(p, g), NEW b \in BOOLEAN
  PROVE  Parsing(p, [g EXCEPT !.events = @ + 1, !.wellformed = @ /\ b])
<1> DEFINE h == [g EXCEPT !.events = @ + 1, !.wellformed = @ /\ b]
<1>1. p \in ParserType /\ g \in PageType /\ InOrder(p, g) /\ (p.in_heading => p.cur_text = <<>>) /\ Faithful(p, g)
  BY Zenon DEF Parsing
<1>2. /\ h \in PageType /\ g.events \in Nat /\ h.events = g.events + 1 /\ h.title = g.title /\ h.sections = g.sections /\ h.last = g.last
      /\ h.head = g.head /\ h.body = g.body /\ h.open = g.open /\ (h.wellformed => g.wellformed)
  <2>1. g.events \in Nat /\ g.events + 1 \in Nat
    BY <1>1 DEF PageType
  <2>2. (g.wellformed /\ b) \in BOOLEAN
    OBVIOUS
  <2>3. PICK n \in Nat, w \in BOOLEAN : n = g.events + 1 /\ w = (g.wellformed /\ b)
    BY <2>1, <2>2, Zenon
  <2>4. h = [g EXCEPT !.events = n, !.wellformed = w]
    BY <2>3, Zenon
  <2> HIDE DEF h
  <2>5. /\ h \in PageType /\ h.events = n /\ h.wellformed = w /\ h.title = g.title
        /\ h.sections = g.sections /\ h.last = g.last /\ h.head = g.head /\ h.body = g.body /\ h.open = g.open
    BY <1>1, <2>4 DEF PageType
  <2> QED BY <2>1, <2>3, <2>5, Zenon
<1> HIDE DEF h
<1>3. BodySoFar(p) \in Fragments
  BY <1>1, FlushKeeps
<1>4. InOrder(p, h)
  BY <1>1, <1>2, <1>3, UpToNext DEF InOrder
<1>5. Faithful(p, h)
  BY <1>1, <1>2, Zenon DEF Faithful, OpenAgrees, SectionsKept, PageSections, TitleKept
<1> QED BY <1>1, <1>2, <1>4, <1>5, Zenon DEF Parsing, h

\* The depth of skipped elements is no part of what is kept.
LEMMA SkipIsFree ==
  ASSUME NEW p, NEW g, Parsing(p, g), NEW n \in Nat
  PROVE  Parsing([p EXCEPT !.skip = n], g)
<1> DEFINE q == [p EXCEPT !.skip = n]
<1>1. p \in ParserType /\ g \in PageType /\ InOrder(p, g) /\ (p.in_heading => p.cur_text = <<>>) /\ Faithful(p, g)
  BY Zenon DEF Parsing
<1>2. /\ q \in ParserType /\ q.sections = p.sections /\ q.cur_heading = p.cur_heading /\ q.cur_text = p.cur_text
      /\ q.title = p.title /\ q.title_buf = p.title_buf /\ q.in_title = p.in_title
      /\ q.in_heading = p.in_heading /\ q.heading_buf = p.heading_buf
  BY <1>1 DEF ParserType
<1> HIDE DEF q
<1>3. BodySoFar(q) = BodySoFar(p)
  BY <1>2, Zenon DEF BodySoFar
<1>4. InOrder(q, g)
  BY <1>1, <1>3, Zenon DEF InOrder
<1>5. Faithful(q, g)
  BY <1>1, <1>2, <1>3, Zenon DEF Faithful, OpenAgrees, SectionsKept, PageSections, TitleKept
<1> QED BY <1>1, <1>2, <1>4, <1>5, Zenon DEF Parsing, q

\* A fragment that is shown is kept where it is shown.
LEMMA ShownIsKept ==
  ASSUME Parsing(parser, page)
  PROVE  Parsing(push_target(parser, page.events + 1), Show(page.events + 1))
<1> DEFINE p == parser
           g == page
           frag == page.events + 1
           q == push_target(parser, frag)
           h == Show(frag)
<1>1. p \in ParserType /\ g \in PageType /\ InOrder(p, g) /\ (p.in_heading => p.cur_text = <<>>) /\ Faithful(p, g)
  BY Zenon DEF Parsing
<1>2. BodySoFar(p) \in Fragments /\ frag \in Nat /\ g.events \in Nat
  <2>1. g.events \in Nat
    BY <1>1 DEF PageType
  <2>2. frag \in Nat
    BY <2>1
  <2> QED BY <1>1, <2>1, <2>2, FlushKeeps
<1>3. /\ h \in PageType /\ h.events = frag /\ h.sections = g.sections /\ h.open = g.open /\ h.wellformed = g.wellformed
      /\ h.title = IF g.open = "title" THEN Append(g.title, frag) ELSE g.title
      /\ h.head = IF g.open = "heading" THEN Append(g.head, frag) ELSE g.head
      /\ h.body = IF g.open = "none" THEN Append(g.body, frag) ELSE g.body
      /\ h.last.heading = g.last.heading
      /\ h.last.text = IF g.open = "none" THEN Append(g.last.text, frag) ELSE g.last.text
      /\ g.open # "none" => h.last = g.last
  <2>1. h = CASE g.open = "title"   -> [g EXCEPT !.events = frag, !.title = Append(@, frag)]
              [] g.open = "heading" -> [g EXCEPT !.events = frag, !.head = Append(@, frag)]
              [] OTHER              -> [g EXCEPT !.events = frag, !.body = Append(@, frag), !.last.text = Append(@, frag)]
    BY Zenon DEF Show
  <2> HIDE DEF h, g, frag
  <2>2. g.open \in {"none", "title", "heading"}
    BY <1>1 DEF PageType
  <2>3. CASE g.open = "title"
    <3>1. PICK x : x = Append(g.title, frag)
      OBVIOUS
    <3>2. x \in Fragments
      BY <1>1, <1>2, <3>1 DEF PageType, Fragments
    <3>3. h = [g EXCEPT !.events = frag, !.title = x]
      BY <2>1, <2>3, <3>1
    <3>4. /\ h \in PageType /\ h.events = frag /\ h.sections = g.sections /\ h.open = g.open /\ h.wellformed = g.wellformed
          /\ h.title = x /\ h.head = g.head /\ h.body = g.body /\ h.last = g.last
      BY <1>1, <1>2, <3>2, <3>3 DEF PageType
    <3> QED BY <2>3, <3>1, <3>4
  <2>4. CASE g.open = "heading"
    <3>1. PICK x : x = Append(g.head, frag)
      OBVIOUS
    <3>2. x \in Fragments
      BY <1>1, <1>2, <3>1 DEF PageType, Fragments
    <3>3. h = [g EXCEPT !.events = frag, !.head = x]
      BY <2>1, <2>4, <3>1
    <3>4. /\ h \in PageType /\ h.events = frag /\ h.sections = g.sections /\ h.open = g.open /\ h.wellformed = g.wellformed
          /\ h.title = g.title /\ h.head = x /\ h.body = g.body /\ h.last = g.last
      BY <1>1, <1>2, <3>2, <3>3 DEF PageType
    <3> QED BY <2>4, <3>1, <3>4
  <2>5. CASE g.open = "none"
    <3>1. PICK x : x = Append(g.body, frag)
      OBVIOUS
    <3>2. PICK y : y = Append(g.last.text, frag)
      OBVIOUS
    <3>3. g.last \in Section /\ g.last.text \in Fragments
      BY <1>1 DEF PageType, Section
    <3>4. x \in Fragments /\ y \in Fragments
      BY <1>1, <1>2, <3>1, <3>2, <3>3 DEF PageType, Fragments
    <3>5. PICK z : z = [g.last EXCEPT !.text = y]
      OBVIOUS
    <3>6. z \in Section /\ z.heading = g.last.heading /\ z.text = y
      BY <3>3, <3>4, <3>5 DEF Section
    <3>7. h = [g EXCEPT !.events = frag, !.body = x, !.last = z]
      BY <2>1, <2>5, <3>1, <3>2, <3>5
    <3>8. /\ h \in PageType /\ h.events = frag /\ h.sections = g.sections /\ h.open = g.open /\ h.wellformed = g.wellformed
          /\ h.title = g.title /\ h.head = g.head /\ h.body = x /\ h.last = z
      BY <1>1, <1>2, <3>4, <3>6, <3>7 DEF PageType
    <3> QED BY <2>5, <3>1, <3>2, <3>6, <3>8
  <2> QED BY <2>2, <2>3, <2>4, <2>5
<1>4. /\ q \in ParserType /\ q.sections = p.sections /\ q.cur_heading = p.cur_heading
      /\ q.title = p.title /\ q.in_title = p.in_title /\ q.in_heading = p.in_heading
      /\ q.title_buf = IF p.in_title THEN Append(p.title_buf, frag) ELSE p.title_buf
      /\ q.heading_buf = IF ~p.in_title /\ p.in_heading THEN Append(p.heading_buf, frag) ELSE p.heading_buf
      /\ q.cur_text = IF ~p.in_title /\ ~p.in_heading THEN Append(p.cur_text, frag) ELSE p.cur_text
  <2> HIDE DEF h, g, frag
  <2>1. p.in_title \in BOOLEAN /\ p.in_heading \in BOOLEAN
    BY <1>1 DEF ParserType
  <2>2. CASE p.in_title
    <3>1. PICK x : x = Append(p.title_buf, frag)
      OBVIOUS
    <3>2. x \in Fragments
      BY <1>1, <1>2, <3>1 DEF ParserType, Fragments
    <3>3. q = [p EXCEPT !.title_buf = x]
      BY <2>2, <3>1, Zenon DEF push_target
    <3> HIDE DEF q, p
    <3>4. /\ q \in ParserType /\ q.sections = p.sections /\ q.cur_heading = p.cur_heading
          /\ q.title = p.title /\ q.in_title = p.in_title /\ q.in_heading = p.in_heading
          /\ q.title_buf = x /\ q.heading_buf = p.heading_buf /\ q.cur_text = p.cur_text
      BY <1>1, <3>2, <3>3 DEF ParserType
    <3> QED BY <2>2, <3>1, <3>4, Zenon
  <2>3. CASE ~p.in_title /\ p.in_heading
    <3>1. PICK x : x = Append(p.heading_buf, frag)
      OBVIOUS
    <3>2. x \in Fragments
      BY <1>1, <1>2, <3>1 DEF ParserType, Fragments
    <3>3. q = [p EXCEPT !.heading_buf = x]
      BY <2>3, <3>1, Zenon DEF push_target
    <3> HIDE DEF q, p
    <3>4. /\ q \in ParserType /\ q.sections = p.sections /\ q.cur_heading = p.cur_heading
          /\ q.title = p.title /\ q.in_title = p.in_title /\ q.in_heading = p.in_heading
          /\ q.title_buf = p.title_buf /\ q.heading_buf = x /\ q.cur_text = p.cur_text
      BY <1>1, <3>2, <3>3 DEF ParserType
    <3> QED BY <2>3, <3>1, <3>4, Zenon
  <2>4. CASE ~p.in_title /\ ~p.in_heading
    <3>1. PICK x : x = Append(p.cur_text, frag)
      OBVIOUS
    <3>2. x \in Fragments
      BY <1>1, <1>2, <3>1 DEF ParserType, Fragments
    <3>3. q = [p EXCEPT !.cur_text = x]
      BY <2>4, <3>1, Zenon DEF push_target
    <3> HIDE DEF q, p
    <3>4. /\ q \in ParserType /\ q.sections = p.sections /\ q.cur_heading = p.cur_heading
          /\ q.title = p.title /\ q.in_title = p.in_title /\ q.in_heading = p.in_heading
          /\ q.title_buf = p.title_buf /\ q.heading_buf = p.heading_buf /\ q.cur_text = x
      BY <1>1, <3>2, <3>3 DEF ParserType
    <3> QED BY <2>4, <3>1, <3>4, Zenon
  <2> QED BY <2>2, <2>3, <2>4, Zenon
<1>5. g.open \in {"none", "title", "heading"} /\ p.in_title \in BOOLEAN /\ p.in_heading \in BOOLEAN
      /\ p.cur_text \in Fragments /\ Concat(TextsOf(p.sections)) \in Fragments
  <2>1. Concat(TextsOf(p.sections)) \in Fragments
    BY <1>1, SectionsType, ConcatType DEF ParserType, Fragments
  <2> QED BY <1>1, <2>1 DEF PageType, ParserType
<1> HIDE DEF p, g, q, h, frag
<1>7. BodySoFar(q) = IF ~p.in_title /\ ~p.in_heading THEN Append(BodySoFar(p), frag) ELSE BodySoFar(p)
  BY <1>2, <1>4, <1>5, ConcatThenAppend DEF BodySoFar
<1>8. frag = g.events + 1
  BY DEF frag, g
<1>9. InOrder(q, h)
  <2>1. /\ UpTo(BodySoFar(p), frag) /\ Increasing(BodySoFar(p))
        /\ Increasing(Append(BodySoFar(p), frag)) /\ UpTo(Append(BodySoFar(p), frag), frag)
    BY <1>1, <1>2, <1>8, UpToNext DEF InOrder
  <2> QED BY <2>1, <1>3, <1>7, Zenon DEF InOrder
<1>10. q.in_heading => q.cur_text = <<>>
  BY <1>1, <1>4
<1>11. ASSUME h.wellformed PROVE BodySoFar(q) = h.body /\ OpenAgrees(q, h) /\ SectionsKept(q, h) /\ TitleKept(q, h)
  <2>1. BodySoFar(p) = g.body /\ OpenAgrees(p, g) /\ SectionsKept(p, g) /\ TitleKept(p, g)
    BY <1>1, <1>3, <1>11, Zenon DEF Faithful
  <2>2. OpenAgrees(q, h)
    BY <2>1, <1>3, <1>4, Zenon DEF OpenAgrees
  <2>3. (g.open = "none" <=> ~p.in_title /\ ~p.in_heading) /\ ~(p.in_title /\ p.in_heading)
    BY <2>1, <1>5 DEF OpenAgrees
  <2>4. BodySoFar(q) = h.body
    BY <2>1, <2>3, <1>3, <1>7, Zenon
  <2>5. SectionsKept(q, h)
    BY <2>1, <2>3, <1>3, <1>4 DEF SectionsKept, PageSections, OpenAgrees
  <2>6. TitleKept(q, h)
    BY <2>1, <2>3, <1>3, <1>4 DEF TitleKept, OpenAgrees
  <2> QED BY <2>2, <2>4, <2>5, <2>6
<1>12. Faithful(q, h)
  BY <1>11, Zenon DEF Faithful
<1>13. Parsing(q, h)
  BY <1>3, <1>4, <1>9, <1>10, <1>12, Zenon DEF Parsing
<1> QED BY <1>13 DEF q, h, p, frag

\* An event that leaves the page as well-formed as it was.
LEMMA EventOnly ==
  ASSUME NEW p, NEW g, Parsing(p, g)
  PROVE  Parsing(p, [g EXCEPT !.events = @ + 1])
<1>1. g \in PageType
  BY Zenon DEF Parsing
<1>2. g.wellformed \in BOOLEAN
  BY <1>1 DEF PageType
<1>3. (g.wellformed /\ TRUE) = g.wellformed
  BY <1>2
<1>4. [g EXCEPT !.events = @ + 1] = [g EXCEPT !.events = g.events + 1, !.wellformed = g.wellformed]
  BY <1>1 DEF PageType
<1>5. [g EXCEPT !.events = @ + 1] = [g EXCEPT !.events = @ + 1, !.wellformed = @ /\ TRUE]
  BY <1>3, <1>4, Zenon
<1>6. Parsing(p, [g EXCEPT !.events = @ + 1, !.wellformed = @ /\ TRUE])
  BY SilentEvent, Zenon
<1> QED BY <1>5, <1>6, Zenon

\* Text goes where push_target puts it.
LEMMA TextStep ==
  ASSUME Parsing(parser, page), Text
  PROVE  Parsing(parser, page)'
<1>1. CASE parser.skip = 0
  <2>1. parser' = push_target(parser, page.events + 1) /\ page' = Show(page.events + 1)
    BY <1>1, Zenon DEF Text
  <2> QED BY <2>1, ShownIsKept, Zenon
<1>2. CASE parser.skip # 0
  <2>1. parser' = parser /\ page' = [page EXCEPT !.events = @ + 1]
    BY <1>2, Zenon DEF Text
  <2> QED BY <2>1, EventOnly, Zenon
<1> QED BY <1>1, <1>2

\* math, script and style.
LEMMA StartSkipStep ==
  ASSUME Parsing(parser, page), NEW alt \in BOOLEAN, StartSkip(alt)
  PROVE  Parsing(parser, page)'
<1>1. parser \in ParserType /\ page \in PageType
  BY Zenon DEF Parsing
<1> DEFINE p == push_target(parser, page.events + 1)
<1>2. CASE alt /\ parser.skip = 0
  <2>1. parser' = [p EXCEPT !.skip = @ + 1] /\ page' = Show(page.events + 1)
    BY <1>2, Zenon DEF StartSkip
  <2>2. Parsing(p, page')
    BY <2>1, ShownIsKept, Zenon
  <2>3. p \in ParserType
    BY <2>2, Zenon DEF Parsing
  <2> HIDE DEF p
  <2>4. p.skip + 1 \in Nat /\ parser' = [p EXCEPT !.skip = p.skip + 1]
    BY <2>1, <2>3 DEF ParserType
  <2> QED BY <2>2, <2>4, SkipIsFree, Zenon
<1>3. CASE ~(alt /\ parser.skip = 0)
  <2>1. parser' = [parser EXCEPT !.skip = @ + 1] /\ page' = [page EXCEPT !.events = @ + 1]
    BY <1>3, Zenon DEF StartSkip
  <2>3. Parsing(parser, page')
    BY <2>1, EventOnly, Zenon
  <2>4. parser.skip + 1 \in Nat /\ parser' = [parser EXCEPT !.skip = parser.skip + 1]
    BY <2>1, <1>1 DEF ParserType
  <2> QED BY <2>3, <2>4, SkipIsFree, Zenon
<1> QED BY <1>2, <1>3

\* The end of a skipped element, also a stray one.
LEMMA EndSkipStep ==
  ASSUME Parsing(parser, page), EndSkip
  PROVE  Parsing(parser, page)'
<1>1. parser \in ParserType /\ page \in PageType
  BY Zenon DEF Parsing
<1> DEFINE n == IF parser.skip = 0 THEN 0 ELSE parser.skip - 1
<1>2. n \in Nat /\ parser' = [parser EXCEPT !.skip = n]
  BY <1>1 DEF EndSkip, ParserType
<1>3. page' = [page EXCEPT !.events = @ + 1, !.wellformed = @ /\ parser.skip > 0]
  BY Zenon DEF EndSkip
<1>4. (parser.skip > 0) \in BOOLEAN
  OBVIOUS
<1>5. Parsing(parser, page')
  BY <1>3, <1>4, SilentEvent, Zenon
<1> HIDE DEF n
<1> QED BY <1>2, <1>5, SkipIsFree, Zenon

\* A heading closes the section before it: its text and heading move into sections.
LEMMA StartHeadingStep ==
  ASSUME Parsing(parser, page), StartHeading
  PROVE  Parsing(parser, page)'
<1> DEFINE p == parser
           g == page
           f == flush_section(parser)
           q == parser'
           h == page'
<1>1. p \in ParserType /\ g \in PageType /\ InOrder(p, g) /\ (p.in_heading => p.cur_text = <<>>) /\ Faithful(p, g)
  BY Zenon DEF Parsing
<1>2. /\ f \in ParserType /\ f = [p EXCEPT !.cur_text = <<>>, !.sections = f.sections]
      /\ Concat(TextsOf(f.sections)) = BodySoFar(p)
      /\ f.sections = IF p.cur_heading # <<>> \/ p.cur_text # <<>>
                      THEN Append(p.sections, [heading |-> p.cur_heading, text |-> p.cur_text]) ELSE p.sections
      /\ BodySoFar(p) \in Fragments
  BY <1>1, FlushKeeps
<1>3. q = [f EXCEPT !.in_heading = TRUE, !.heading_buf = <<>>]
  BY Zenon DEF StartHeading
<1>4. PICK n \in {g.events + 1}, w \in BOOLEAN :
        n = g.events + 1 /\ w = (g.wellformed /\ g.open = "none" /\ p.skip = 0)
  BY Zenon
<1>5. h = [g EXCEPT !.events = n, !.open = "heading", !.head = <<>>, !.wellformed = w]
  BY <1>4, Zenon DEF StartHeading
<1> HIDE DEF p, g, f, q, h
<1>6. g.events \in Nat /\ n \in Nat /\ <<>> \in Fragments
  BY <1>1, <1>4 DEF PageType, Fragments
<1>7. /\ h \in PageType /\ h.events = n /\ h.wellformed = w /\ h.title = g.title /\ h.sections = g.sections /\ h.last = g.last
      /\ h.head = <<>> /\ h.body = g.body /\ h.open = "heading"
  BY <1>1, <1>5, <1>6 DEF PageType
<1>8. /\ q \in ParserType /\ q.sections = f.sections /\ q.cur_heading = p.cur_heading
      /\ q.title = p.title /\ q.in_title = p.in_title /\ q.in_heading
      /\ q.title_buf = p.title_buf /\ q.heading_buf = <<>> /\ q.cur_text = <<>>
  BY <1>1, <1>2, <1>3, <1>6 DEF ParserType
<1>9. g.last = [heading |-> g.last.heading, text |-> g.last.text]
  BY <1>1 DEF PageType, Section
<1>10. BodySoFar(q) = BodySoFar(p)
  BY <1>2, <1>8, ConcatEmptySeq DEF BodySoFar, Fragments
<1>11. InOrder(q, h)
  <2>1. UpTo(BodySoFar(p), n) /\ Increasing(BodySoFar(p))
    BY <1>1, <1>2, <1>4, <1>6, UpToNext DEF InOrder
  <2> QED BY <2>1, <1>7, <1>10, Zenon DEF InOrder
<1>12. ASSUME h.wellformed PROVE BodySoFar(q) = h.body /\ OpenAgrees(q, h) /\ SectionsKept(q, h) /\ TitleKept(q, h)
  <2>1. g.wellformed /\ g.open = "none"
    BY <1>4, <1>7, <1>12, Zenon
  <2>2. BodySoFar(p) = g.body /\ OpenAgrees(p, g) /\ SectionsKept(p, g) /\ TitleKept(p, g)
    BY <1>1, <2>1, Zenon DEF Faithful
  <2>3. ~p.in_title /\ ~p.in_heading
    BY <2>1, <2>2 DEF OpenAgrees
  <2>4. OpenAgrees(q, h)
    BY <2>3, <1>7, <1>8 DEF OpenAgrees
  <2>5. SectionsKept(q, h)
    <3>1. p.sections = g.sections /\ p.cur_heading = g.last.heading /\ p.cur_text = g.last.text
      BY <2>2, <2>3, Zenon DEF SectionsKept
    <3>2. q.sections = PageSections(g)
      BY <3>1, <1>2, <1>8, <1>9, Zenon DEF PageSections
    <3>3. PageSections(h) = PageSections(g)
      BY <1>7, Zenon DEF PageSections
    <3> QED BY <3>2, <3>3, <1>7, <1>8, Zenon DEF SectionsKept
  <2>6. TitleKept(q, h)
    BY <2>2, <2>3, <1>7, <1>8, Zenon DEF TitleKept
  <2> QED BY <2>2, <2>4, <2>5, <2>6, <1>7, <1>10, Zenon
<1>13. Faithful(q, h)
  BY <1>12, Zenon DEF Faithful
<1>14. Parsing(q, h)
  BY <1>7, <1>8, <1>11, <1>13, Zenon DEF Parsing
<1> QED BY <1>14 DEF q, h

\* The sections of a page are sections.
LEMMA PageSectionsType ==
  ASSUME NEW g \in PageType
  PROVE  PageSections(g) \in Seq(Section)
<1>1. g.sections \in Seq(Section) /\ g.last \in Section
  BY DEF PageType
<1> QED BY <1>1 DEF PageSections

\* The end of a heading makes it the heading of the section that follows.
LEMMA EndHeadingStep ==
  ASSUME Parsing(parser, page), EndHeading
  PROVE  Parsing(parser, page)'
<1> DEFINE p == parser
           g == page
           q == parser'
           h == page'
<1>1. p \in ParserType /\ g \in PageType /\ InOrder(p, g) /\ (p.in_heading => p.cur_text = <<>>) /\ Faithful(p, g)
  BY Zenon DEF Parsing
<1>2. PICK n \in {g.events + 1}, w \in BOOLEAN, ss \in {PageSections(g)}, x \in {[heading |-> g.head, text |-> <<>>]} :
        n = g.events + 1 /\ w = (g.wellformed /\ g.open = "heading" /\ p.skip = 0)
  BY Zenon
<1>3. h = [g EXCEPT !.events = n, !.open = "none", !.head = <<>>, !.sections = ss, !.last = x, !.wellformed = w]
  BY <1>2, Zenon DEF EndHeading
<1>4. q = IF p.in_heading
          THEN [p EXCEPT !.cur_heading = p.heading_buf, !.in_heading = FALSE, !.cur_text = <<>>] ELSE p
  BY Zenon DEF EndHeading
<1> HIDE DEF p, g, q, h
<1>5. g.events \in Nat /\ n \in Nat /\ <<>> \in Fragments /\ g.head \in Fragments
  BY <1>1, <1>2 DEF PageType, Fragments
<1>6. ss \in Seq(Section) /\ x \in Section /\ x.heading = g.head /\ x.text = <<>>
  <2>1. ss \in Seq(Section)
    BY <1>1, <1>2, PageSectionsType
  <2>2. x = [heading |-> g.head, text |-> <<>>]
    BY <1>2
  <2> QED
    BY <1>5, <2>1, <2>2 DEF Section
<1>7. /\ h \in PageType /\ h.events = n /\ h.wellformed = w /\ h.title = g.title /\ h.sections = ss /\ h.last = x
      /\ h.head = <<>> /\ h.body = g.body /\ h.open = "none"
  BY <1>1, <1>3, <1>5, <1>6 DEF PageType
<1>8. BodySoFar(p) \in Fragments
  BY <1>1, FlushKeeps
<1>9. p.in_heading \in BOOLEAN /\ p.heading_buf \in Fragments
  BY <1>1 DEF ParserType
<1>10. CASE p.in_heading
  <2>1. /\ q \in ParserType /\ q.sections = p.sections /\ q.cur_heading = p.heading_buf
        /\ q.title = p.title /\ q.in_title = p.in_title /\ ~q.in_heading
        /\ q.title_buf = p.title_buf /\ q.cur_text = p.cur_text
    BY <1>1, <1>4, <1>5, <1>9, <1>10 DEF ParserType
  <2>2. BodySoFar(q) = BodySoFar(p)
    BY <2>1, Zenon DEF BodySoFar
  <2>3. InOrder(q, h)
    <3>1. UpTo(BodySoFar(p), n) /\ Increasing(BodySoFar(p))
      BY <1>1, <1>2, <1>5, <1>8, UpToNext DEF InOrder
    <3> QED BY <3>1, <1>7, <2>2, Zenon DEF InOrder
  <2>9. p.cur_text = <<>>
    BY <1>1, <1>10
  <2>4. ASSUME h.wellformed PROVE BodySoFar(q) = h.body /\ OpenAgrees(q, h) /\ SectionsKept(q, h) /\ TitleKept(q, h)
    <3>1. g.wellformed /\ g.open = "heading"
      BY <1>2, <1>7, <2>4, Zenon
    <3>2. BodySoFar(p) = g.body /\ OpenAgrees(p, g) /\ SectionsKept(p, g) /\ TitleKept(p, g)
      BY <1>1, <3>1, Zenon DEF Faithful
    <3>3. ~p.in_title
      BY <3>1, <3>2 DEF OpenAgrees
    <3>4. OpenAgrees(q, h)
      BY <3>3, <1>7, <2>1 DEF OpenAgrees
    <3>5. SectionsKept(q, h)
      BY <3>2, <1>10, <1>2, <1>6, <1>7, <2>1, <2>9, Zenon DEF SectionsKept
    <3>6. TitleKept(q, h)
      BY <3>2, <3>3, <1>7, <2>1, Zenon DEF TitleKept
    <3> QED BY <3>2, <3>4, <3>5, <3>6, <1>7, <2>2, Zenon
  <2>5. Faithful(q, h)
    BY <2>4, Zenon DEF Faithful
  <2> QED BY <1>7, <2>1, <2>3, <2>5, Zenon DEF Parsing, q, h
<1>11. CASE ~p.in_heading
  <2>1. q = p
    BY <1>4, <1>11, Zenon
  <2>2. InOrder(q, h)
    BY <1>1, <1>2, <1>5, <1>7, <1>8, <2>1, UpToNext DEF InOrder
  <2>3. ~h.wellformed
    <3>1. SUFFICES ASSUME h.wellformed PROVE FALSE
      OBVIOUS
    <3>2. g.wellformed /\ g.open = "heading"
      BY <1>2, <1>7, <3>1, Zenon
    <3> QED BY <3>2, <1>1, <1>11, Zenon DEF Faithful, OpenAgrees
  <2>4. Faithful(q, h)
    BY <2>3, Zenon DEF Faithful
  <2> QED BY <1>1, <1>7, <2>1, <2>2, <2>4, Zenon DEF Parsing, q, h
<1> QED BY <1>9, <1>10, <1>11

\* A title is collected until there is one.
LEMMA StartTitleStep ==
  ASSUME Parsing(parser, page), StartTitle
  PROVE  Parsing(parser, page)'
<1> DEFINE p == parser
           g == page
           q == parser'
           h == page'
<1>1. p \in ParserType /\ g \in PageType /\ InOrder(p, g) /\ (p.in_heading => p.cur_text = <<>>) /\ Faithful(p, g)
  BY Zenon DEF Parsing
<1>2. PICK n \in {g.events + 1}, w \in BOOLEAN, o \in {"none", "title", g.open} :
        /\ n = g.events + 1 /\ w = (g.wellformed /\ g.open = "none" /\ p.skip = 0)
        /\ o = IF p.title = <<>> THEN "title" ELSE g.open
  BY Zenon
<1>3. h = [g EXCEPT !.events = n, !.open = o, !.wellformed = w]
  BY <1>2, Zenon DEF StartTitle
<1>4. q = IF p.title = <<>> THEN [p EXCEPT !.in_title = TRUE, !.title_buf = <<>>] ELSE p
  BY Zenon DEF StartTitle
<1> HIDE DEF p, g, q, h
<1>5. g.events \in Nat /\ n \in Nat /\ <<>> \in Fragments /\ o \in {"none", "title", "heading"}
  BY <1>1, <1>2 DEF PageType, Fragments
<1>6. /\ h \in PageType /\ h.events = n /\ h.wellformed = w /\ h.title = g.title /\ h.sections = g.sections /\ h.last = g.last
      /\ h.head = g.head /\ h.body = g.body /\ h.open = o
  BY <1>1, <1>3, <1>5 DEF PageType
<1>7. BodySoFar(p) \in Fragments
  BY <1>1, FlushKeeps
<1>8. UpTo(BodySoFar(p), n) /\ Increasing(BodySoFar(p))
  BY <1>1, <1>2, <1>5, <1>7, UpToNext DEF InOrder
<1>9. CASE p.title = <<>>
  <2>1. /\ q \in ParserType /\ q.sections = p.sections /\ q.cur_heading = p.cur_heading
        /\ q.title = p.title /\ q.in_title /\ q.in_heading = p.in_heading
        /\ q.title_buf = <<>> /\ q.heading_buf = p.heading_buf /\ q.cur_text = p.cur_text
    BY <1>1, <1>4, <1>5, <1>9 DEF ParserType
  <2>2. BodySoFar(q) = BodySoFar(p)
    BY <2>1, Zenon DEF BodySoFar
  <2>3. InOrder(q, h)
    BY <1>8, <1>6, <2>2, Zenon DEF InOrder
  <2>4. ASSUME h.wellformed PROVE BodySoFar(q) = h.body /\ OpenAgrees(q, h) /\ SectionsKept(q, h) /\ TitleKept(q, h)
    <3>1. g.wellformed /\ g.open = "none" /\ h.open = "title"
      BY <1>2, <1>6, <1>9, <2>4, Zenon
    <3>2. BodySoFar(p) = g.body /\ OpenAgrees(p, g) /\ SectionsKept(p, g) /\ TitleKept(p, g)
      BY <1>1, <3>1, Zenon DEF Faithful
    <3>3. ~p.in_title /\ ~p.in_heading
      BY <3>1, <3>2 DEF OpenAgrees
    <3>4. OpenAgrees(q, h)
      BY <3>1, <3>3, <2>1 DEF OpenAgrees
    <3>5. SectionsKept(q, h)
      BY <3>2, <3>3, <1>6, <2>1, <2>2, Zenon DEF SectionsKept, PageSections
    <3>6. TitleKept(q, h)
      BY <3>2, <3>3, <1>6, <1>9, <2>1, Zenon DEF TitleKept
    <3> QED BY <3>2, <3>4, <3>5, <3>6, <1>6, <2>2, Zenon
  <2>5. Faithful(q, h)
    BY <2>4, Zenon DEF Faithful
  <2> QED BY <1>1, <1>6, <2>1, <2>3, <2>5, Zenon DEF Parsing, q, h
<1>10. CASE p.title # <<>>
  <2>1. q = p /\ o = g.open
    BY <1>2, <1>4, <1>10, Zenon
  <2>2. InOrder(q, h)
    BY <1>8, <1>6, <2>1, Zenon DEF InOrder
  <2>3. h.wellformed => g.wellformed
    BY <1>2, <1>6, Zenon
  <2>4. Faithful(q, h)
    BY <1>1, <1>6, <2>1, <2>3, Zenon DEF Faithful, OpenAgrees, SectionsKept, PageSections, TitleKept
  <2> QED BY <1>1, <1>6, <2>1, <2>2, <2>4, Zenon DEF Parsing, q, h
<1> QED BY <1>9, <1>10

\* The end of a title.
LEMMA EndTitleStep ==
  ASSUME Parsing(parser, page), EndTitle
  PROVE  Parsing(parser, page)'
<1> DEFINE p == parser
           g == page
           q == parser'
           h == page'
<1>1. p \in ParserType /\ g \in PageType /\ InOrder(p, g) /\ (p.in_heading => p.cur_text = <<>>) /\ Faithful(p, g)
  BY Zenon DEF Parsing
<1>2. PICK n \in {g.events + 1}, w \in BOOLEAN, o \in {"none", "title", g.open} :
        /\ n = g.events + 1 /\ w = (g.wellformed /\ (p.in_title => g.open = "title") /\ p.skip = 0)
        /\ o = IF p.in_title THEN "none" ELSE g.open
  BY Zenon
<1>3. h = [g EXCEPT !.events = n, !.open = o, !.wellformed = w]
  BY <1>2, Zenon DEF EndTitle
<1>4. q = IF p.in_title THEN [p EXCEPT !.in_title = FALSE, !.title = p.title_buf] ELSE p
  BY Zenon DEF EndTitle
<1> HIDE DEF p, g, q, h
<1>5. g.events \in Nat /\ n \in Nat /\ o \in {"none", "title", "heading"}
  BY <1>1, <1>2 DEF PageType
<1>6. /\ h \in PageType /\ h.events = n /\ h.wellformed = w /\ h.title = g.title /\ h.sections = g.sections /\ h.last = g.last
      /\ h.head = g.head /\ h.body = g.body /\ h.open = o
  BY <1>1, <1>3, <1>5 DEF PageType
<1>7. BodySoFar(p) \in Fragments
  BY <1>1, FlushKeeps
<1>8. UpTo(BodySoFar(p), n) /\ Increasing(BodySoFar(p))
  BY <1>1, <1>2, <1>5, <1>7, UpToNext DEF InOrder
<1>9. p.in_title \in BOOLEAN /\ p.title_buf \in Fragments
  BY <1>1 DEF ParserType
<1>10. CASE p.in_title
  <2>1. /\ q \in ParserType /\ q.sections = p.sections /\ q.cur_heading = p.cur_heading
        /\ q.title = p.title_buf /\ ~q.in_title /\ q.in_heading = p.in_heading
        /\ q.heading_buf = p.heading_buf /\ q.cur_text = p.cur_text
    BY <1>1, <1>4, <1>9, <1>10 DEF ParserType
  <2>2. BodySoFar(q) = BodySoFar(p)
    BY <2>1, Zenon DEF BodySoFar
  <2>3. InOrder(q, h)
    BY <1>8, <1>6, <2>2, Zenon DEF InOrder
  <2>4. ASSUME h.wellformed PROVE BodySoFar(q) = h.body /\ OpenAgrees(q, h) /\ SectionsKept(q, h) /\ TitleKept(q, h)
    <3>1. g.wellformed /\ g.open = "title" /\ h.open = "none"
      BY <1>2, <1>6, <1>10, <2>4, Zenon
    <3>2. BodySoFar(p) = g.body /\ OpenAgrees(p, g) /\ SectionsKept(p, g) /\ TitleKept(p, g)
      BY <1>1, <3>1, Zenon DEF Faithful
    <3>3. ~p.in_heading
      BY <3>1, <3>2 DEF OpenAgrees
    <3>4. OpenAgrees(q, h)
      BY <3>1, <3>3, <2>1 DEF OpenAgrees
    <3>5. SectionsKept(q, h)
      BY <3>2, <3>3, <1>6, <2>1, <2>2, Zenon DEF SectionsKept, PageSections
    <3>6. TitleKept(q, h)
      BY <3>2, <1>6, <1>10, <2>1, Zenon DEF TitleKept
    <3> QED BY <3>2, <3>4, <3>5, <3>6, <1>6, <2>2, Zenon
  <2>5. Faithful(q, h)
    BY <2>4, Zenon DEF Faithful
  <2> QED BY <1>1, <1>6, <2>1, <2>3, <2>5, Zenon DEF Parsing, q, h
<1>11. CASE ~p.in_title
  <2>1. q = p /\ o = g.open
    BY <1>2, <1>4, <1>11, Zenon
  <2>2. InOrder(q, h)
    BY <1>8, <1>6, <2>1, Zenon DEF InOrder
  <2>3. h.wellformed => g.wellformed
    BY <1>2, <1>6, Zenon
  <2>4. Faithful(q, h)
    BY <1>1, <1>6, <2>1, <2>3, Zenon DEF Faithful, OpenAgrees, SectionsKept, PageSections, TitleKept
  <2> QED BY <1>1, <1>6, <2>1, <2>2, <2>4, Zenon DEF Parsing, q, h
<1> QED BY <1>9, <1>10, <1>11

\* The last section is closed with the page.
LEMMA EndOfPageStep ==
  ASSUME Parsing(parser, page), EndOfPage
  PROVE  TextIsThePages'
<1> DEFINE p == parser
           g == page
           f == flush_section(parser)
           q == parser'
           h == page'
<1>1. p \in ParserType /\ g \in PageType /\ InOrder(p, g) /\ Faithful(p, g)
  BY Zenon DEF Parsing
<1>2. /\ f \in ParserType /\ f = [p EXCEPT !.cur_text = <<>>, !.sections = f.sections]
      /\ Concat(TextsOf(f.sections)) = BodySoFar(p)
      /\ f.sections = IF p.cur_heading # <<>> \/ p.cur_text # <<>>
                      THEN Append(p.sections, [heading |-> p.cur_heading, text |-> p.cur_text]) ELSE p.sections
  BY <1>1, FlushKeeps
<1>3. PICK c \in BOOLEAN : c = (p.in_heading \/ p.in_title \/ p.skip > 0)
  BY Zenon
<1>4. q = f /\ h = [g EXCEPT !.cut = c]
  BY <1>3, Zenon DEF EndOfPage
<1> HIDE DEF p, g, f, q, h
<1>5. /\ h.cut = c /\ h.wellformed = g.wellformed /\ h.body = g.body /\ h.sections = g.sections /\ h.last = g.last
      /\ h.title = g.title
  BY <1>1, <1>4 DEF PageType
<1>6. q.title = p.title /\ q.sections = f.sections
  BY <1>1, <1>2, <1>4 DEF ParserType
<1>7. Increasing(Concat(TextsOf(q.sections)))
  BY <1>1, <1>2, <1>6, Zenon DEF InOrder
<1>8. h.wellformed => Concat(TextsOf(q.sections)) = h.body
  BY <1>1, <1>2, <1>5, <1>6, Zenon DEF Faithful
<1>9. h.wellformed /\ ~h.cut => q.sections = PageSections(h) /\ q.title = h.title
  <2>1. SUFFICES ASSUME h.wellformed, ~h.cut
                 PROVE  q.sections = PageSections(h) /\ q.title = h.title
    OBVIOUS
  <2>2. ~p.in_heading /\ ~p.in_title
    BY <2>1, <1>3, <1>5, Zenon
  <2>3. SectionsKept(p, g) /\ TitleKept(p, g)
    BY <2>1, <1>1, <1>5, Zenon DEF Faithful
  <2>4. g.last = [heading |-> g.last.heading, text |-> g.last.text]
    BY <1>1 DEF PageType, Section
  <2>5. q.sections = PageSections(g)
    BY <2>2, <2>3, <2>4, <1>2, <1>6, Zenon DEF SectionsKept, PageSections
  <2>6. PageSections(h) = PageSections(g)
    BY <1>5, Zenon DEF PageSections
  <2> QED BY <2>2, <2>3, <2>5, <2>6, <1>5, <1>6, Zenon DEF TitleKept
<1> QED BY <1>7, <1>8, <1>9, Zenon DEF TextIsThePages, TextsOf, q, h

\* parse_ar5iv gives a page's text as the page has it, for pages of any length and
\* nesting: every visible fragment of a well-formed page once and in order; the same
\* sections under the same headings, and the title, if nothing is open at its end;
\* and of any other page what comes out is in order.
THEOREM TextSafe == TextSpec => []TextIsThePages
<1>1. TextInit => TextInv
  <2>1. SUFFICES ASSUME TextInit PROVE TextInv
    OBVIOUS
  <2>2. text = "idle" /\ parser = Parser0 /\ page = Page0
    BY <2>1 DEF TextInit
  <2> QED BY <2>2 DEF TextInv, TextIsThePages
<1>2. TextInv /\ [TextNext]_textVars => TextInv'
  <2>1. SUFFICES ASSUME TextInv, [TextNext]_textVars PROVE TextInv'
    OBVIOUS
  <2>2. ASSUME text' \notin {"idle", "parse", "parsed"} PROVE TextInv'
    BY <2>2 DEF TextInv, TextIsThePages
  <2>3. CASE GetText
    <3>1. text = "idle" /\ text' = "parse" /\ parser' = Parser0 /\ page' = Page0
      BY <2>1, <2>3 DEF GetText, TextInv
    <3>2. Parsing(Parser0, Page0)
      <4>1. <<>> \in Fragments /\ <<>> \in Seq(Section) /\ [heading |-> <<>>, text |-> <<>>] \in Section
        BY DEF Fragments, Section
      <4>2. Parser0 \in ParserType
        BY <4>1 DEF Parser0, ParserType
      <4>3. Page0 \in PageType
        BY <4>1 DEF Page0, PageType
      <4>4. /\ Parser0.sections = <<>> /\ Parser0.cur_heading = <<>> /\ Parser0.cur_text = <<>>
            /\ Parser0.title = <<>> /\ ~Parser0.in_title /\ ~Parser0.in_heading
        BY DEF Parser0
      <4>5. /\ Page0.title = <<>> /\ Page0.sections = <<>> /\ Page0.body = <<>> /\ Page0.open = "none"
            /\ Page0.last.heading = <<>> /\ Page0.last.text = <<>>
        BY DEF Page0
      <4>6. TextsOf(<<>>) = <<>>
        BY DEF TextsOf
      <4>7. BodySoFar(Parser0) = <<>>
        BY <4>4, <4>6, ConcatEmpty DEF BodySoFar
      <4>8. InOrder(Parser0, Page0)
        BY <4>7 DEF InOrder, Increasing, UpTo
      <4>9. Faithful(Parser0, Page0)
        BY <4>4, <4>5, <4>7 DEF Faithful, OpenAgrees, SectionsKept, TitleKept
      <4> QED BY <4>2, <4>3, <4>4, <4>8, <4>9 DEF Parsing
    <3>3. Parsing(parser, page)'
      BY <3>1, <3>2, Zenon
    <3> QED BY <3>1, <3>3 DEF TextInv, TextIsThePages
  <2>4. CASE ParseStep
    <3>1. Parsing(parser, page)
      BY <2>1, <2>4 DEF ParseStep, TextInv, Text, StartSkip, EndSkip, StartHeading, EndHeading,
                        StartTitle, EndTitle, EndOfPage, Event
    <3>2. ASSUME text' = "parse", Parsing(parser, page)' PROVE TextInv'
      BY <3>2 DEF TextInv, TextIsThePages
    <3>3. CASE EndOfPage
      <4>1. text' = "parsed"
        BY <3>3 DEF EndOfPage
      <4> QED BY <4>1, <3>1, <3>3, EndOfPageStep DEF TextInv
    <3>4. CASE Text
      BY <3>1, <3>2, <3>4, TextStep DEF Text, Event, Kept
    <3>5. ASSUME NEW alt \in BOOLEAN, StartSkip(alt) PROVE TextInv'
      BY <3>1, <3>2, <3>5, StartSkipStep DEF StartSkip, Event, Kept
    <3>6. CASE EndSkip
      BY <3>1, <3>2, <3>6, EndSkipStep DEF EndSkip, Event, Kept
    <3>7. CASE StartHeading
      BY <3>1, <3>2, <3>7, StartHeadingStep DEF StartHeading, Event, Kept
    <3>8. CASE EndHeading
      BY <3>1, <3>2, <3>8, EndHeadingStep DEF EndHeading, Event, Kept
    <3>9. CASE StartTitle
      BY <3>1, <3>2, <3>9, StartTitleStep DEF StartTitle, Event, Kept
    <3>10. CASE EndTitle
      BY <3>1, <3>2, <3>10, EndTitleStep DEF EndTitle, Event, Kept
    <3> QED BY <2>4, <3>3, <3>4, <3>5, <3>6, <3>7, <3>8, <3>9, <3>10, Zenon DEF ParseStep
  <2>5. CASE GiveText
    BY <2>2, <2>5 DEF GiveText
  <2>6. ASSUME NEW b \in Payloads, NEW kind \in {"tex", "bundle"}, GetSource(b, kind) PROVE TextInv'
    BY <2>2, <2>6 DEF GetSource
  <2>7. CASE ExtractTex
    BY <2>2, <2>7 DEF ExtractTex
  <2>8. ASSUME NEW figures \in BOOLEAN, ExtractBundle(figures) PROVE TextInv'
    BY <2>2, <2>8 DEF ExtractBundle
  <2>9. CASE UNCHANGED textVars
    BY <2>1, <2>9 DEF textVars, TextInv, TextIsThePages, Parsing
  <2> QED BY <2>1, <2>3, <2>4, <2>5, <2>6, <2>7, <2>8, <2>9, Zenon DEF TextNext
<1>3. TextInv => TextIsThePages
  BY DEF TextInv
<1> QED BY <1>1, <1>2, <1>3, PTL DEF TextSpec
=============================================================================
