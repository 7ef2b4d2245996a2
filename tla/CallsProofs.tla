---------------------------- MODULE CallsProofs ----------------------------
(***************************************************************************)
(* Proofs about Calls for any number of tool calls and commands, whose     *)
(* steps interleave in any way, and any handlers that are Careful and      *)
(* Bracketed, as those of McpTools and CliCommands are.  A step of a call  *)
(* is summed up by its Effect: what is the other calls' own is untouched,  *)
(* and at most one row is appended, by a step that Sends.  The invariant   *)
(* has one part about the log handles (Chain) and two about one call       *)
(* (Silent, Session).                                                      *)
(***************************************************************************)
EXTENDS Calls, FiniteSetTheorems, SequenceTheorems, WellFoundedInduction, TLAPS

-----------------------------------------------------------------------------
(* Sequences, and the least element of a set of numbers.                   *)

LEMMA ElementOf == \A T : \A q \in Seq(T) : Len(q) \in Nat /\ \A i \in 1..Len(q) : q[i] \in T
  OBVIOUS

LEMMA Appended ==
  ASSUME NEW T, NEW q \in Seq(T), NEW x \in T
  PROVE  /\ Append(q, x) \in Seq(T) /\ Len(Append(q, x)) = Len(q) + 1
         /\ Append(q, x)[Len(q) + 1] = x
         /\ \A i \in 1..Len(q) : Append(q, x)[i] = q[i]
  OBVIOUS

Lower == {xy \in Nat \X Nat : xy[1] < xy[2]}
LEMMA FirstIn ==
  ASSUME NEW S, S \subseteq Nat, S # {}
  PROVE  First(S) \in S
<1>1. Lower = OpToRel(<, Nat)
  BY Zenon DEF Lower, OpToRel
<1>2. IsWellFoundedOn(Lower, Nat)
  BY <1>1, NatLessThanWellFounded, Zenon
<1>3. PICK m \in S : \A y \in S : ~(<<y, m>> \in Lower)
  BY <1>2, WFMin, Zenon
<1>4. \A y \in S : ~(y < m)
  BY <1>3 DEF Lower
<1>5. \A y \in S : m <= y
  BY <1>4
<1> QED
  BY <1>5 DEF First

-----------------------------------------------------------------------------
(* The invariant.                                                          *)

Events == {"start", "ncbi_start", "lookup", "ncbi_end", "work", "end"}
OutcomeCodes ==
  Errors \cup {"none", "NETWORK_ERROR", "CAPABILITY_DENIED", "USAGE", "LOG_ERROR", "STORE_ERROR", "ANYHOW"}
ItemCodes ==
  Errors \cup {"none", "INVALID_REF", "NOT_IMPLEMENTED", "NOT_FOUND", "INTERNAL_ERROR", "LOG_ERROR"}
DoneOutcomes == [kind : {"clean", "blocked", "err", "absent"}, code : OutcomeCodes, denied : BOOLEAN]
Items == [ref : Kinds, code : ItemCodes]
Rows == [seq : Nat, by : Callers, event : Events, ok : BOOLEAN, code : OutcomeCodes \cup ItemCodes]

Size(c) == Len(req[c].steps)
\* The call is past such a step.
Past(c, do) == \E j \in 1..Size(c) : j < pc[c] /\ req[c].steps[j].do = do

Typed ==
  /\ req \in Scenarios
  /\ pc \in [Callers -> Nat]
  /\ items \in [Callers -> Seq(Items)]
  /\ done \in [Callers -> Seq(DoneOutcomes)]
  /\ answer = [c \in Callers |-> answer[c]]
  /\ shared \in ServerCalls \cup {NoOne} /\ via \in [Callers -> Callers \cup {NoOne}]
  /\ mem \in [Callers -> Nat] /\ log \in Seq(Rows) /\ asked \in [Callers -> Nat]

\* All tool calls append through the server's handle, and every command through
\* its own.  A handle knows the next number as long as only its process writes.
WrittenBy(P) == \A k \in 1..Len(log) : log[k].by \in P
Chain ==
  /\ \A c \in ServerCalls : Past(c, "share") => shared # NoOne /\ via[c] = shared
  /\ \A c \in ServerCalls : At(c, "share") /\ log = <<>> => mem[c] = 1
  /\ \A c \in Callers \ ServerCalls :
       /\ via[c] \in {c, NoOne} /\ (Past(c, "open") => via[c] = c)
       /\ via[c] = c /\ WrittenBy({c}) => mem[c] = Len(log) + 1
  /\ shared # NoOne /\ WrittenBy(ServerCalls) => mem[shared] = Len(log) + 1
  /\ \A k \in 1..Len(log) : log[k].by \in ServerCalls => shared # NoOne

\* A call that has not opened the log has been silent, and a call that goes on
\* has met no step that stops it.
Quiet(c) == asked[c] = 0 /\ RowsOf(c) = {} /\ via[c] = NoOne
Excused(c) ==
  \/ "dry" \in req[c].flags
  \/ answer[c].code \in InputCodes /\ (\A k \in DOMAIN req[c].refs : req[c].refs[k] # "pmid")
Silent(c) ==
  /\ pc[c] # 0 => answer[c] = Unanswered /\ \A j \in 1..Size(c) : j < pc[c] => ~Blocks(req[c].steps[j])
  /\ pc[c] # 0 /\ ~Past(c, "open") => Quiet(c)
  /\ pc[c] = 0 /\ Excused(c) => Quiet(c)

\* Where in its session a call is, and what its end row says.
HasSession(c) == Size(c) > 3 /\ OpensSession(req[c].steps[Size(c) - 3])
Clean(c) == Failed(c) = {} /\ Unusable(c) = {}
Session(c) ==
  /\ pc[c] # 0 => (Has(c, "start") <=> HasSession(c) /\ pc[c] > Size(c) - 3)
  /\ pc[c] # 0 /\ HasSession(c) => pc[c] <= Size(c)
  /\ pc[c] # 0 /\ Has(c, "end") => HasSession(c) /\ pc[c] = Size(c)
  /\ \A k \in RowsOf(c) : log[k].event = "end" /\ pc[c] # 0 => (log[k].ok <=> Clean(c))
  /\ \A k \in RowsOf(c) : log[k].event = "end" /\ pc[c] = 0 =>
       (log[k].ok <=> Said(c)) /\ (c \notin ServerCalls => (log[k].ok <=> answer[c].exit = 0))

\* A caller that asks nothing is never running.
Idle(c) == req[c].tool = "none" => pc[c] = 0

IInv ==
  /\ Typed /\ Chain /\ ChainIntact
  /\ \A c \in Callers : Silent(c) /\ Session(c) /\ Idle(c)

-----------------------------------------------------------------------------
(* Facts about one call.                                                   *)

LEMMA RunningStep ==
  ASSUME Typed, NEW c \in Callers, Running(c)
  PROVE  /\ pc[c] \in 1..Size(c) /\ Size(c) \in Nat /\ pc[c] # 0 /\ Step(c) = req[c].steps[pc[c]]
         /\ Careful(c, req[c], pc[c]) /\ Bracketed(req[c], pc[c])
<1>1. Size(c) \in Nat /\ \A i \in 1..Size(c) : Careful(c, req[c], i) /\ Bracketed(req[c], i)
  BY ScenarioAssumption DEF Typed, Size
<1>2. pc[c] \in 1..Size(c) /\ pc[c] # 0
  BY <1>1 DEF Running, Typed, Size
<1> QED
  BY <1>1, <1>2 DEF Step

\* What is sent is sent after the log was opened, by a call that has a handle.
LEMMA HasHandle ==
  ASSUME Typed, Chain, NEW c \in Callers, Running(c), Sends(req[c], Step(c))
  PROVE  /\ Past(c, "open") /\ via[c] \in Callers
         /\ c \in ServerCalls => shared # NoOne /\ via[c] = shared
         /\ c \notin ServerCalls => via[c] = c
<1>1. /\ pc[c] \in 1..Size(c) /\ Size(c) \in Nat /\ Step(c) = req[c].steps[pc[c]]
      /\ Careful(c, req[c], pc[c])
  BY RunningStep
<1>2. Before(req[c], pc[c], IF c \in ServerCalls THEN "share" ELSE "open")
  BY <1>1 DEF Careful
<1>3. CASE c \in ServerCalls
  <2>1. PICK j \in 1..(pc[c] - 1) : req[c].steps[j].do = "share"
    BY <1>2, <1>3 DEF Before
  <2>2. j \in 1..Size(c) /\ j < pc[c]
    BY <1>1
  <2>3. Careful(c, req[c], j)
    BY <2>2, ScenarioAssumption DEF Typed, Size
  <2>4. j > 1 /\ req[c].steps[j - 1].do = "open"
    BY <2>1, <2>3 DEF Careful
  <2>5. j - 1 \in 1..Size(c) /\ j - 1 < pc[c]
    BY <2>2, <2>4, <1>1
  <2>6. Past(c, "share") /\ Past(c, "open")
    BY <2>1, <2>2, <2>4, <2>5 DEF Past
  <2> QED
    BY <1>3, <2>6 DEF Chain, Typed
<1>4. CASE c \notin ServerCalls
  <2>1. PICK j \in 1..(pc[c] - 1) : req[c].steps[j].do = "open"
    BY <1>2, <1>4 DEF Before
  <2>2. j \in 1..Size(c) /\ j < pc[c]
    BY <1>1
  <2>3. Past(c, "open")
    BY <2>1, <2>2 DEF Past
  <2> QED
    BY <1>4, <2>3 DEF Chain
<1> QED
  BY <1>3, <1>4

LEMMA FailedIsFinite ==
  ASSUME Typed, NEW c \in Callers
  PROVE  /\ Failed(c) \subseteq 1..Len(done[c]) /\ Unusable(c) \subseteq 1..Len(items[c])
         /\ Len(done[c]) \in Nat /\ Len(items[c]) \in Nat
         /\ IsFiniteSet(Failed(c)) /\ IsFiniteSet(Unusable(c))
         /\ \A k \in Failed(c) : done[c][k] \in DoneOutcomes
<1>1. Len(done[c]) \in Nat /\ Len(items[c]) \in Nat
  BY ElementOf DEF Typed
<1>2. Failed(c) \subseteq 1..Len(done[c]) /\ Unusable(c) \subseteq 1..Len(items[c])
  BY DEF Failed, Unusable
<1>3. IsFiniteSet(1..Len(done[c])) /\ IsFiniteSet(1..Len(items[c]))
  <2>1. \A n \in Nat : IsFiniteSet(1..n)
    BY FS_Interval
  <2> QED
    BY <1>1, <2>1
<1>4. \A k \in Failed(c) : done[c][k] \in DoneOutcomes
  BY <1>2, ElementOf DEF Typed
<1> QED
  BY <1>1, <1>2, <1>3, <1>4, FS_Subset

LEMMA FirstCodeKnown ==
  ASSUME Typed, NEW c \in Callers
  PROVE  /\ FirstCode(c) \in OutcomeCodes
         /\ Failed(c) # {} => done[c][First(Failed(c))] \in DoneOutcomes
<1>1. CASE Failed(c) = {}
  BY <1>1 DEF FirstCode, OutcomeCodes
<1>2. CASE Failed(c) # {}
  <2>1. Failed(c) \subseteq Nat
    BY FailedIsFinite
  <2>2. First(Failed(c)) \in Failed(c)
    BY <1>2, <2>1, FirstIn
  <2>3. done[c][First(Failed(c))] \in DoneOutcomes
    BY <2>2, FailedIsFinite
  <2>4. reported_error_code(done[c][First(Failed(c))]) \in OutcomeCodes
    BY <2>3 DEF reported_error_code, DoneOutcomes, OutcomeCodes
  <2> QED
    BY <1>2, <2>3, <2>4 DEF FirstCode
<1> QED
  BY <1>1, <1>2

\* An input code is none that work comes to.
LEMMA WorkIsNoRefusal == OutcomeCodes \cap InputCodes = {}
  BY CallAssumption DEF OutcomeCodes, InputCodes

-----------------------------------------------------------------------------
(* What a step of call c may do.                                           *)

Apart(c) ==
  \A d \in Callers \ {c} :
    /\ pc'[d] = pc[d] /\ items'[d] = items[d] /\ done'[d] = done[d] /\ answer'[d] = answer[d]
    /\ via'[d] = via[d] /\ asked'[d] = asked[d]

\* Where it goes.
Stays(c) == pc'[c] = pc[c] /\ answer' = answer /\ Step(c).do \in {"look", "work", "read"}
GoesOn(c) == pc'[c] = pc[c] + 1 /\ answer' = answer /\ ~Blocks(Step(c))
Skips(c) ==
  /\ pc'[c] = pc[c] + 2 /\ answer' = answer /\ Step(c).do = "open"
  /\ c \in ServerCalls /\ shared # NoOne
Ends(c) == pc'[c] = 0 /\ (answer'[c].code \in InputCodes => Refuses(Step(c)))

\* What it does about the log.
Opens(c) ==
  /\ GoesOn(c) /\ Step(c).do = "open" /\ (c \in ServerCalls => shared = NoOne)
  /\ via' = [via EXCEPT ![c] = c] /\ mem' = [mem EXCEPT ![c] = Len(log) + 1] /\ UNCHANGED <<log, shared>>
Borrows(c) ==
  /\ Skips(c) /\ via' = [via EXCEPT ![c] = shared] /\ UNCHANGED <<mem, log, shared>>
Publishes(c) ==
  /\ GoesOn(c) /\ Step(c).do = "share" /\ shared' = (IF shared = NoOne THEN c ELSE shared)
  /\ via' = [via EXCEPT ![c] = shared'] /\ UNCHANGED <<mem, log>>
Writes(c) ==
  /\ Sends(req[c], Step(c)) /\ UNCHANGED <<via, shared>>
  /\ \E r \in Rows :
       /\ r.by = c /\ r.seq = mem[via[c]]
       /\ r.event = "start" <=> OpensSession(Step(c))
       /\ r.event = "end" <=> Step(c).do = "end"
       /\ r.event = "end" => (r.ok <=> Clean(c))
       /\ log' = Append(log, r) /\ mem' = [mem EXCEPT ![via[c]] = mem[via[c]] + 1]
WritesNothing(c) == UNCHANGED logVars /\ Step(c).do \notin {"open", "share"}
Gives(c) == UNCHANGED logVars /\ pc'[c] = 0

Effect(c) ==
  /\ Running(c) /\ Apart(c) /\ Typed' /\ req' = req
  /\ Stays(c) \/ GoesOn(c) \/ Skips(c) \/ Ends(c)
  /\ Opens(c) \/ Borrows(c) \/ Publishes(c) \/ Writes(c) \/ WritesNothing(c) \/ Gives(c)
  /\ asked'[c] # asked[c] => Sends(req[c], Step(c))

\* What it does in a session.
InOrder(c) ==
  /\ OpensSession(Step(c)) => (GoesOn(c) /\ Writes(c)) \/ Gives(c)
  /\ Step(c).do = "work" /\ Step(c).fatal = {} => pc'[c] # 0
  /\ Step(c).do = "end" => GoesOn(c) /\ UNCHANGED <<done, items>>
  /\ Step(c).do = "reply" =>
       Gives(c) /\ UNCHANGED <<done, items>> /\ answer'[c] = Result(c, Step(c).form, Step(c).counts)

\* The parts of an effect, as a step settles them one by one.
Moved(c) ==
  /\ pc' \in [Callers -> Nat] /\ answer' = [d \in Callers |-> answer'[d]]
  /\ \A d \in Callers \ {c} : pc'[d] = pc[d] /\ answer'[d] = answer[d]
  /\ Stays(c) \/ GoesOn(c) \/ Skips(c) \/ Ends(c)
Worked(c) ==
  /\ items' \in [Callers -> Seq(Items)] /\ done' \in [Callers -> Seq(DoneOutcomes)]
  /\ asked' \in [Callers -> Nat]
  /\ \A d \in Callers \ {c} : items'[d] = items[d] /\ done'[d] = done[d] /\ asked'[d] = asked[d]
  /\ asked'[c] # asked[c] => Sends(req[c], Step(c))
Logged(c) ==
  /\ log' \in Seq(Rows) /\ mem' \in [Callers -> Nat]
  /\ shared' \in ServerCalls \cup {NoOne} /\ via' \in [Callers -> Callers \cup {NoOne}]
  /\ \A d \in Callers \ {c} : via'[d] = via[d]
  /\ Opens(c) \/ Borrows(c) \/ Publishes(c) \/ Writes(c) \/ WritesNothing(c) \/ Gives(c)

LEMMA InParts ==
  ASSUME Typed, NEW c \in Callers, Running(c), req' = req, Moved(c), Worked(c), Logged(c)
  PROVE  Effect(c)
<1>1. Typed'
  BY DEF Typed, Moved, Worked, Logged
<1>2. Apart(c)
  BY DEF Apart, Moved, Worked, Logged
<1>3. Stays(c) \/ GoesOn(c) \/ Skips(c) \/ Ends(c)
  BY DEF Moved
<1>4. Opens(c) \/ Borrows(c) \/ Publishes(c) \/ Writes(c) \/ WritesNothing(c) \/ Gives(c)
  BY DEF Logged
<1>5. asked'[c] # asked[c] => Sends(req[c], Step(c))
  BY DEF Worked
<1> QED
  BY <1>1, <1>2, <1>3, <1>4, <1>5 DEF Effect

LEMMA Advanced ==
  ASSUME Typed, NEW c \in Callers, Advance(c), ~Blocks(Step(c))
  PROVE  Moved(c) /\ GoesOn(c)
<1>1. GoesOn(c)
  BY DEF Typed, Advance, GoesOn
<1> QED
  BY <1>1 DEF Typed, Advance, Moved

LEMMA ToldOff ==
  ASSUME Typed, NEW c \in Callers, NEW a, Tell(c, a), a.code \in InputCodes => Refuses(Step(c))
  PROVE  Moved(c) /\ Ends(c) /\ answer'[c] = a /\ pc'[c] = 0
<1>1. pc' = [pc EXCEPT ![c] = 0] /\ answer' = [answer EXCEPT ![c] = a]
  BY DEF Tell
<1>2. DOMAIN answer = Callers /\ pc \in [Callers -> Nat]
  BY DEF Typed
<1>3. answer'[c] = a /\ \A d \in Callers \ {c} : answer'[d] = answer[d]
  BY <1>1, <1>2
<1>4. answer' = [d \in Callers |-> answer'[d]]
  BY <1>1, <1>2
<1>5. pc' \in [Callers -> Nat] /\ pc'[c] = 0 /\ \A d \in Callers \ {c} : pc'[d] = pc[d]
  BY <1>1, <1>2
<1>6. Ends(c)
  BY <1>3, <1>5 DEF Ends
<1> QED
  BY <1>3, <1>4, <1>5, <1>6 DEF Moved

LEMMA Stayed ==
  ASSUME Typed, NEW c \in Callers, UNCHANGED <<pc, answer>>, Step(c).do \in {"look", "work", "read"}
  PROVE  Moved(c) /\ Stays(c)
<1>1. Stays(c)
  BY DEF Stays
<1> QED
  BY <1>1 DEF Typed, Moved

\* A refusal tells an input code only at a step that Refuses.
LEMMA RefusedAt ==
  ASSUME NEW c \in Callers,
         Step(c).do \in {"require", "needs", "open", "start", "lookend"}
  PROVE  Refusal(c, Step(c).code).code \in InputCodes => Refuses(Step(c))
  BY DEF Refusal, Refuses

LEMMA OtherRefusal ==
  ASSUME NEW c \in Callers, NEW x \in OutcomeCodes
  PROVE  Refusal(c, x).code \in InputCodes => Refuses(Step(c))
  BY WorkIsNoRefusal DEF Refusal

LEMMA RowWritten ==
  ASSUME Typed, Chain, NEW c \in Callers, Running(c), Sends(req[c], Step(c)), UNCHANGED <<via, shared>>,
         NEW e \in Events, NEW b \in BOOLEAN, NEW x \in OutcomeCodes \cup ItemCodes, Append1(c, e, b, x),
         e = "start" <=> OpensSession(Step(c)), e = "end" <=> Step(c).do = "end", e = "end" => (b <=> Clean(c))
  PROVE  Writes(c) /\ Logged(c)
<1> DEFINE r == [seq |-> mem[via[c]], by |-> c, event |-> e, ok |-> b, code |-> x]
<1>1. via[c] \in Callers /\ mem[via[c]] \in Nat
  BY HasHandle DEF Typed
<1>2. r \in Rows /\ r.by = c /\ r.seq = mem[via[c]] /\ r.event = e /\ r.ok = b
  BY <1>1 DEF Rows
<1>3. log' = Append(log, r) /\ mem' = [mem EXCEPT ![via[c]] = mem[via[c]] + 1]
  BY DEF Append1, Row
<1> HIDE DEF r
<1>4. Writes(c)
  BY <1>2, <1>3 DEF Writes
<1>5. log' \in Seq(Rows)
  BY <1>2, <1>3, Appended DEF Typed
<1>6. mem' \in [Callers -> Nat]
  BY <1>1, <1>3 DEF Typed
<1> QED
  BY <1>4, <1>5, <1>6 DEF Logged, Typed

LEMMA NotWritten ==
  ASSUME Typed, NEW c \in Callers, UNCHANGED <<shared, via, mem, log>>,
         Step(c).do \notin {"open", "share"} \/ pc'[c] = 0
  PROVE  Logged(c) /\ (WritesNothing(c) \/ Gives(c))
<1>1. WritesNothing(c) \/ Gives(c)
  BY DEF WritesNothing, Gives, logVars
<1> QED
  BY <1>1 DEF Logged, Typed

LEMMA Untouched ==
  ASSUME Typed, NEW c \in Callers, UNCHANGED <<items, done, asked>>
  PROVE  Worked(c)
  BY DEF Typed, Worked

LEMMA Noted ==
  ASSUME Typed, NEW c \in Callers, NEW o \in DoneOutcomes, Note(c, o)
  PROVE  done' \in [Callers -> Seq(DoneOutcomes)] /\ \A d \in Callers \ {c} : done'[d] = done[d]
<1>1. done \in [Callers -> Seq(DoneOutcomes)] /\ Append(done[c], o) \in Seq(DoneOutcomes)
  BY Appended DEF Typed
<1>2. done' = [done EXCEPT ![c] = Append(done[c], o)]
  BY DEF Note
<1> QED
  BY <1>1, <1>2

LEMMA AskedMore ==
  ASSUME Typed, NEW c \in Callers, asked' = [asked EXCEPT ![c] = @ + 1]
  PROVE  asked' \in [Callers -> Nat] /\ \A d \in Callers \ {c} : asked'[d] = asked[d]
  BY DEF Typed

\* Steps that only move.
LEMMA OnlyMoves ==
  ASSUME Typed, NEW c \in Callers, Running(c), UNCHANGED <<req, items, done, shared, via, mem, log, asked>>,
         Moved(c), Step(c).do \notin {"open", "share"} \/ pc'[c] = 0
  PROVE  Effect(c) /\ (pc'[c] = 0 => Gives(c))
<1>1. Worked(c)
  BY Untouched
<1>2. Logged(c)
  BY NotWritten
<1>3. req' = req
  OBVIOUS
<1>4. pc'[c] = 0 => Gives(c)
  BY DEF Gives, logVars
<1> QED
  BY <1>1, <1>2, <1>3, <1>4, InParts

LEMMA OutOfSession ==
  ASSUME NEW c \in Callers,
         Step(c).do \in {"require", "return", "needs", "open", "share", "look", "lookend", "settle",
                         "fallback", "aside", "read", "stop", "edit"}
  PROVE  InOrder(c)
  BY DEF InOrder, OpensSession

-----------------------------------------------------------------------------
(* The effect of each step.                                                *)

LEMMA CheckEffect ==
  ASSUME IInv, NEW c \in Callers, Check(c)
  PROVE  Effect(c) /\ InOrder(c)
<1>1. /\ Typed /\ Running(c) /\ Step(c).do = "require"
      /\ UNCHANGED <<req, items, done, shared, via, mem, log, asked>>
  BY DEF IInv, Check, At, logVars
<1>2. CASE Step(c).ok
  <2>1. Advance(c) /\ ~Blocks(Step(c))
    BY <1>1, <1>2 DEF Check, Blocks
  <2>2. Moved(c)
    BY <1>1, <2>1, Advanced
  <2> QED
    BY <1>1, <2>2, OnlyMoves, OutOfSession
<1>3. CASE ~Step(c).ok
  <2>1. Tell(c, Refusal(c, Step(c).code))
    BY <1>3 DEF Check, Fail
  <2>2. Moved(c)
    BY <1>1, <2>1, RefusedAt, ToldOff
  <2> QED
    BY <1>1, <2>2, OnlyMoves, OutOfSession
<1> QED
  BY <1>2, <1>3

LEMMA PreviewEffect ==
  ASSUME IInv, NEW c \in Callers, Preview(c)
  PROVE  Effect(c) /\ InOrder(c)
<1>1. /\ Typed /\ Running(c) /\ Step(c).do = "return"
      /\ UNCHANGED <<req, items, done, shared, via, mem, log, asked>>
  BY DEF IInv, Preview, At, logVars
<1>2. CASE ~Step(c).now
  <2>1. Advance(c) /\ ~Blocks(Step(c))
    BY <1>1, <1>2 DEF Preview, Blocks
  <2>2. Moved(c)
    BY <1>1, <2>1, Advanced
  <2> QED
    BY <1>1, <2>2, OnlyMoves, OutOfSession
<1>3. CASE Step(c).now
  <2>1. Tell(c, Counted(Step(c).failing))
    BY <1>3 DEF Preview
  <2>2. Counted(Step(c).failing).code \notin InputCodes
    BY DEF Counted, Success, InputCodes
  <2>3. Moved(c)
    BY <1>1, <2>1, <2>2, ToldOff
  <2> QED
    BY <1>1, <2>3, OnlyMoves, OutOfSession
<1> QED
  BY <1>2, <1>3

LEMMA PrepareEffect ==
  ASSUME IInv, NEW c \in Callers, Prepare(c)
  PROVE  Effect(c) /\ InOrder(c)
<1>1. /\ Typed /\ Running(c) /\ Step(c).do = "needs" /\ (Advance(c) \/ Fail(c, Step(c).code))
      /\ UNCHANGED <<req, items, done, shared, via, mem, log, asked>>
  BY DEF IInv, Prepare, At, logVars
<1>2. CASE Advance(c)
  <2>1. ~Blocks(Step(c))
    BY <1>1 DEF Blocks
  <2>2. Moved(c)
    BY <1>1, <1>2, <2>1, Advanced
  <2> QED
    BY <1>1, <2>2, OnlyMoves, OutOfSession
<1>3. CASE Fail(c, Step(c).code)
  <2>1. Tell(c, Refusal(c, Step(c).code))
    BY <1>3 DEF Fail
  <2>2. Moved(c)
    BY <1>1, <2>1, RefusedAt, ToldOff
  <2> QED
    BY <1>1, <2>2, OnlyMoves, OutOfSession
<1> QED
  BY <1>1, <1>2, <1>3

LEMMA OpenEffect ==
  ASSUME IInv, NEW c \in Callers, Open(c)
  PROVE  Effect(c) /\ InOrder(c)
<1>1. /\ Typed /\ Running(c) /\ Step(c).do = "open"
      /\ UNCHANGED <<req, items, done, shared, log, asked>>
  BY DEF IInv, Open, At
<1>2. Worked(c) /\ InOrder(c) /\ ~Blocks(Step(c))
  BY <1>1, Untouched, OutOfSession DEF Blocks
<1>3. CASE /\ c \in ServerCalls /\ shared # NoOne
           /\ via' = [via EXCEPT ![c] = shared]
           /\ pc' = [pc EXCEPT ![c] = @ + 2] /\ UNCHANGED <<mem, answer>>
  <2>1. Skips(c)
    BY <1>1, <1>3 DEF Skips, Typed
  <2>2. Moved(c)
    BY <1>3, <1>1, <2>1 DEF Moved, Typed
  <2>3. Borrows(c)
    BY <1>1, <1>3, <2>1 DEF Borrows
  <2>4. Logged(c)
    BY <1>1, <1>3, <2>3, CallAssumption DEF Logged, Typed
  <2> QED
    BY <1>1, <1>2, <2>2, <2>4, InParts
<1>4. CASE /\ c \in ServerCalls => shared = NoOne
           /\ via' = [via EXCEPT ![c] = c]
           /\ mem' = [mem EXCEPT ![c] = Len(log) + 1] /\ Advance(c)
  <2>1. Moved(c) /\ GoesOn(c)
    BY <1>1, <1>2, <1>4, Advanced
  <2>2. Opens(c)
    BY <1>1, <1>4, <2>1 DEF Opens
  <2>3. Len(log) \in Nat
    BY <1>1, ElementOf DEF Typed
  <2>4. Logged(c)
    BY <1>1, <1>4, <2>2, <2>3 DEF Logged, Typed
  <2> QED
    BY <1>1, <1>2, <2>1, <2>4, InParts
<1>5. CASE Fail(c, Step(c).code) /\ UNCHANGED <<via, mem>>
  <2>1. Tell(c, Refusal(c, Step(c).code))
    BY <1>5 DEF Fail
  <2>2. Moved(c) /\ pc'[c] = 0
    BY <1>1, <2>1, RefusedAt, ToldOff
  <2> QED
    BY <1>1, <1>2, <1>5, <2>2, OnlyMoves
<1> QED
  BY <1>3, <1>4, <1>5 DEF Open

LEMMA PublishEffect ==
  ASSUME IInv, NEW c \in Callers, Publish(c)
  PROVE  Effect(c) /\ InOrder(c)
<1>1. /\ Typed /\ Running(c) /\ Step(c).do = "share" /\ Advance(c)
      /\ UNCHANGED <<req, items, done, mem, log, asked>>
      /\ shared' = (IF shared = NoOne THEN c ELSE shared) /\ via' = [via EXCEPT ![c] = shared']
  BY DEF IInv, Publish, At
<1>2. Worked(c) /\ InOrder(c) /\ ~Blocks(Step(c))
  BY <1>1, Untouched, OutOfSession DEF Blocks
<1>3. Moved(c) /\ GoesOn(c)
  BY <1>1, <1>2, Advanced
<1>4. Publishes(c)
  BY <1>1, <1>3 DEF Publishes
<1>5. c \in ServerCalls
  BY <1>1, RunningStep DEF Careful
<1>6. Logged(c)
  BY <1>1, <1>4, <1>5, CallAssumption DEF Logged, Typed
<1> QED
  BY <1>1, <1>2, <1>3, <1>6, InParts

LEMMA SessionStartEffect ==
  ASSUME IInv, NEW c \in Callers, SessionStart(c)
  PROVE  Effect(c) /\ InOrder(c)
<1>1. /\ Typed /\ Chain /\ Running(c) /\ Step(c).do = "start"
      /\ UNCHANGED <<req, items, done, shared, via, asked>>
  BY DEF IInv, SessionStart, At
<1>2. Worked(c) /\ ~Blocks(Step(c)) /\ Sends(req[c], Step(c))
  BY <1>1, Untouched DEF Blocks, Sends
<1>3. CASE Append1(c, Step(c).event, TRUE, "none") /\ Advance(c)
  <2>1. Moved(c) /\ GoesOn(c)
    BY <1>1, <1>2, <1>3, Advanced
  <2>2. Step(c).event \in {"start", "ncbi_start"}
    BY <1>1, RunningStep DEF Bracketed
  <2>3. Step(c).event \in Events /\ Step(c).event # "end" /\ "none" \in OutcomeCodes \cup ItemCodes
    BY <2>2 DEF Events, OutcomeCodes
  <2>4. Step(c).event = "start" <=> OpensSession(Step(c))
    BY <1>1 DEF OpensSession
  <2>5. Writes(c) /\ Logged(c)
    BY <1>1, <1>2, <1>3, <2>3, <2>4, RowWritten
  <2>6. InOrder(c)
    BY <1>1, <2>1, <2>5 DEF InOrder
  <2> QED
    BY <1>1, <1>2, <2>1, <2>5, <2>6, InParts
<1>4. CASE NoRow /\ Fail(c, Step(c).code)
  <2>1. Tell(c, Refusal(c, Step(c).code))
    BY <1>4 DEF Fail
  <2>2. Moved(c) /\ pc'[c] = 0
    BY <1>1, <2>1, RefusedAt, ToldOff
  <2>3. Effect(c) /\ Gives(c)
    BY <1>1, <1>4, <2>2, OnlyMoves DEF NoRow
  <2> QED
    BY <1>1, <2>3 DEF InOrder
<1> QED
  BY <1>3, <1>4 DEF SessionStart

LEMMA FoundTyped ==
  ASSUME Typed, NEW c \in Callers, NEW k \in 1..Len(items[c]), NEW ref \in Kinds, NEW code \in ItemCodes,
         Found(c, k, ref, code)
  PROVE  items' \in [Callers -> Seq(Items)] /\ \A d \in Callers \ {c} : items'[d] = items[d]
<1>1. [ref |-> ref, code |-> code] \in Items
  BY DEF Items
<1>2. items \in [Callers -> Seq(Items)]
  BY DEF Typed
<1>3. [items[c] EXCEPT ![k] = [ref |-> ref, code |-> code]] \in Seq(Items)
  BY <1>1, <1>2, ExceptSeq
<1>4. items' = [items EXCEPT ![c] = [items[c] EXCEPT ![k] = [ref |-> ref, code |-> code]]]
  BY <1>2 DEF Found
<1> QED
  BY <1>2, <1>3, <1>4

LEMMA LookUpEffect ==
  ASSUME IInv, NEW c \in Callers, LookUp(c)
  PROVE  Effect(c) /\ InOrder(c)
<1>1. /\ Typed /\ Chain /\ Running(c) /\ Step(c).do = "look"
      /\ UNCHANGED <<req, done, shared, via>>
  BY DEF IInv, LookUp, At
<1>2. InOrder(c) /\ ~Blocks(Step(c)) /\ Sends(req[c], Step(c)) /\ ~OpensSession(Step(c))
  BY <1>1, OutOfSession DEF Blocks, Sends, OpensSession
<1>3. CASE Pending(c) = {} \/ LogLost(c)
  <2>1. Advance(c) /\ NoRow /\ UNCHANGED <<items, asked>>
    BY <1>3 DEF LookUp
  <2>2. Moved(c)
    BY <1>1, <1>2, <2>1, Advanced
  <2> QED
    BY <1>1, <1>2, <2>1, <2>2, OnlyMoves DEF NoRow
<1>4. CASE ~(Pending(c) = {} \/ LogLost(c))
  <2> DEFINE k == First(Pending(c))
  <2>1. /\ asked' = [asked EXCEPT ![c] = @ + 1] /\ UNCHANGED <<pc, answer>>
        /\ \/ Found(c, k, "doi", "none") /\ Append1(c, "lookup", TRUE, "none")
           \/ Found(c, k, "pmid", "NOT_FOUND") /\ Append1(c, "lookup", TRUE, "NOT_FOUND")
           \/ Found(c, k, "pmid", "NOT_IMPLEMENTED") /\ Append1(c, "lookup", TRUE, "none")
           \/ \E e \in Errors : Found(c, k, "pmid", e) /\ Append1(c, "lookup", FALSE, e)
           \/ Found(c, k, "pmid", "INTERNAL_ERROR") /\ NoRow
           \/ Found(c, k, "pmid", "LOG_ERROR") /\ NoRow
    BY <1>4 DEF LookUp
  <2>2. k \in 1..Len(items[c])
    <3>1. items[c] \in Seq(Items)
      BY <1>1 DEF Typed
    <3>2. Pending(c) \subseteq 1..Len(items[c]) /\ Len(items[c]) \in Nat
      BY <3>1 DEF Pending
    <3>3. Pending(c) \subseteq Nat /\ Pending(c) # {}
      BY <3>2, <1>4
    <3> QED
      BY <3>2, <3>3, FirstIn
  <2> HIDE DEF k
  <2>3. Moved(c)
    BY <1>1, <2>1, Stayed
  <2>4. \E ref \in Kinds, code \in ItemCodes : Found(c, k, ref, code)
    <3>1. "doi" \in Kinds /\ "pmid" \in Kinds /\ Errors \subseteq ItemCodes
          /\ {"none", "NOT_FOUND", "NOT_IMPLEMENTED", "INTERNAL_ERROR", "LOG_ERROR"} \subseteq ItemCodes
      BY DEF Kinds, ItemCodes
    <3> QED
      BY <2>1, <3>1, Zenon
  <2>5. items' \in [Callers -> Seq(Items)] /\ \A d \in Callers \ {c} : items'[d] = items[d]
    BY <1>1, <2>2, <2>4, FoundTyped
  <2>6. Worked(c)
    BY <1>1, <1>2, <2>1, <2>5, AskedMore DEF Worked, Typed
  <2>7. (\E b \in BOOLEAN, x \in OutcomeCodes \cup ItemCodes : Append1(c, "lookup", b, x)) \/ NoRow
    <3>1. Errors \subseteq ItemCodes /\ "none" \in ItemCodes /\ "NOT_FOUND" \in ItemCodes
      BY DEF ItemCodes
    <3> QED
      BY <2>1, <3>1, Zenon
  <2>8. Logged(c)
    <3>1. CASE NoRow
      BY <1>1, <3>1, NotWritten DEF NoRow
    <3>2. CASE \E b \in BOOLEAN, x \in OutcomeCodes \cup ItemCodes : Append1(c, "lookup", b, x)
      <4>1. PICK b \in BOOLEAN, x \in OutcomeCodes \cup ItemCodes : Append1(c, "lookup", b, x)
        BY <3>2
      <4>2. "lookup" \in Events
        BY DEF Events
      <4> QED
        BY <1>1, <1>2, <4>1, <4>2, RowWritten
    <3> QED
      BY <2>7, <3>1, <3>2
  <2> QED
    BY <1>1, <1>2, <2>3, <2>6, <2>8, InParts
<1> QED
  BY <1>3, <1>4

LEMMA LookupsEndEffect ==
  ASSUME IInv, NEW c \in Callers, LookupsEnd(c)
  PROVE  Effect(c) /\ InOrder(c)
<1>1. /\ Typed /\ Chain /\ Running(c) /\ Step(c).do = "lookend"
      /\ UNCHANGED <<req, items, done, shared, via, asked>>
  BY DEF IInv, LookupsEnd, At
<1>2. /\ InOrder(c) /\ ~Blocks(Step(c)) /\ Sends(req[c], Step(c)) /\ ~OpensSession(Step(c))
      /\ Worked(c)
  BY <1>1, OutOfSession, Untouched DEF Blocks, Sends, OpensSession
<1>3. \/ (\E b \in BOOLEAN : Append1(c, "ncbi_end", b, "none")) /\ (Fail(c, Step(c).code) \/ Advance(c))
      \/ NoRow /\ Fail(c, Step(c).code)
  BY Zenon DEF LookupsEnd
<1>4. Moved(c)
  <2>1. CASE Advance(c)
    BY <1>1, <1>2, <2>1, Advanced
  <2>2. CASE Fail(c, Step(c).code)
    BY <1>1, <2>2, RefusedAt, ToldOff DEF Fail
  <2> QED
    BY <1>3, <2>1, <2>2
<1>5. Logged(c)
  <2>1. CASE NoRow
    BY <1>1, <2>1, NotWritten DEF NoRow
  <2>2. CASE \E b \in BOOLEAN : Append1(c, "ncbi_end", b, "none")
    <3>1. PICK b \in BOOLEAN : Append1(c, "ncbi_end", b, "none")
      BY <2>2
    <3>2. "ncbi_end" \in Events /\ "none" \in OutcomeCodes \cup ItemCodes
      BY DEF Events, OutcomeCodes
    <3> QED
      BY <1>1, <1>2, <3>1, <3>2, RowWritten
  <2> QED
    BY <1>3, <2>1, <2>2
<1> QED
  BY <1>1, <1>2, <1>4, <1>5, InParts

LEMMA SettledEffect ==
  ASSUME IInv, NEW c \in Callers, Settled(c)
  PROVE  Effect(c) /\ InOrder(c)
<1>1. /\ Typed /\ Running(c) /\ Step(c).do = "settle"
      /\ UNCHANGED <<req, items, done, shared, via, mem, log, asked>>
  BY DEF IInv, Settled, At, logVars
<1>2. (\E x : Fail(c, x)) \/ Advance(c)
  BY DEF Settled
<1>3. InOrder(c) /\ ~Blocks(Step(c)) /\ Refuses(Step(c))
  BY <1>1, OutOfSession DEF Blocks, Refuses
<1>4. Moved(c)
  <2>1. CASE Advance(c)
    BY <1>1, <1>3, <2>1, Advanced
  <2>2. CASE \E x : Fail(c, x)
    BY <1>1, <1>3, <2>2, ToldOff DEF Fail
  <2> QED
    BY <1>2, <2>1, <2>2
<1> QED
  BY <1>1, <1>3, <1>4, OnlyMoves

LEMMA FallBackEffect ==
  ASSUME IInv, NEW c \in Callers, FallBack(c)
  PROVE  Effect(c) /\ InOrder(c)
<1>1. /\ Typed /\ Running(c) /\ Step(c).do = "fallback"
      /\ UNCHANGED <<req, items, done, shared, via, mem, log, asked>>
  BY DEF IInv, FallBack, At, logVars
<1>2. Advance(c) \/ Tell(c, Success) \/ Tell(c, Refusal(c, "ANYHOW"))
  BY Zenon DEF FallBack, Fail
<1>3. InOrder(c) /\ ~Blocks(Step(c))
  BY <1>1, OutOfSession DEF Blocks
<1>4. Moved(c)
  <2>1. CASE Advance(c)
    BY <1>1, <1>3, <2>1, Advanced
  <2>2. CASE Tell(c, Success)
    <3>1. Success.code \notin InputCodes
      BY DEF Success, InputCodes
    <3> QED
      BY <1>1, <2>2, <3>1, ToldOff
  <2>3. CASE Tell(c, Refusal(c, "ANYHOW"))
    <3>1. "ANYHOW" \in OutcomeCodes
      BY DEF OutcomeCodes
    <3> QED
      BY <1>1, <2>3, <3>1, OtherRefusal, ToldOff
  <2> QED
    BY <1>2, <2>1, <2>2, <2>3
<1> QED
  BY <1>1, <1>3, <1>4, OnlyMoves

LEMMA AskAsideEffect ==
  ASSUME IInv, NEW c \in Callers, AskAside(c)
  PROVE  Effect(c) /\ InOrder(c)
<1>1. /\ Typed /\ Chain /\ Running(c) /\ Step(c).do = "aside" /\ Advance(c)
      /\ UNCHANGED <<req, items, done, shared, via>>
  BY DEF IInv, AskAside, At
<1>2. InOrder(c) /\ ~Blocks(Step(c)) /\ Sends(req[c], Step(c)) /\ ~OpensSession(Step(c))
  BY <1>1, OutOfSession DEF Blocks, Sends, OpensSession
<1>3. Moved(c)
  BY <1>1, <1>2, Advanced
<1>4. UNCHANGED asked \/ asked' = [asked EXCEPT ![c] = @ + 1]
  BY Zenon DEF AskAside
<1>5. Worked(c)
  BY <1>1, <1>2, <1>4, Untouched, AskedMore DEF Worked, Typed
<1>6. NoRow \/ \E b \in BOOLEAN : Append1(c, "work", b, "none")
  BY Zenon DEF AskAside
<1>7. Logged(c)
  <2>1. CASE NoRow
    BY <1>1, <2>1, NotWritten DEF NoRow
  <2>2. CASE \E b \in BOOLEAN : Append1(c, "work", b, "none")
    <3>1. PICK b \in BOOLEAN : Append1(c, "work", b, "none")
      BY <2>2
    <3>2. "work" \in Events /\ "none" \in OutcomeCodes \cup ItemCodes
      BY DEF Events, OutcomeCodes
    <3> QED
      BY <1>1, <1>2, <3>1, <3>2, RowWritten
  <2> QED
    BY <1>6, <2>1, <2>2
<1> QED
  BY <1>1, <1>2, <1>3, <1>5, <1>7, InParts

LEMMA WorkTyped ==
  ASSUME NEW kind, NEW o \in WorkOutcomes(kind)
  PROVE  o \in DoneOutcomes /\ [o EXCEPT !.kind = "err"] \in DoneOutcomes
<1> DEFINE codes == {"none", "NETWORK_ERROR", "CAPABILITY_DENIED", "USAGE"} \cup Errors
<1>1. codes \subseteq OutcomeCodes
  BY DEF OutcomeCodes
<1>2. \E k \in {"clean", "blocked", "err"}, x \in codes, b \in BOOLEAN : o = Outcome(k, x, b)
  <2>1. \/ o = Outcome("clean", "none", FALSE) \/ (\E e \in Errors : o = Outcome("err", e, FALSE))
        \/ o = Outcome("blocked", "NETWORK_ERROR", FALSE) \/ o = Outcome("blocked", "CAPABILITY_DENIED", TRUE)
        \/ o = Outcome("err", "USAGE", FALSE)
    <3>1. CASE kind = "fetch"
      BY <3>1 DEF WorkOutcomes
    <3>2. CASE kind = "add"
      BY <3>2 DEF WorkOutcomes
    <3>3. CASE kind # "fetch" /\ kind # "add"
      BY <3>3 DEF WorkOutcomes
    <3> QED
      BY <3>1, <3>2, <3>3
  <2> QED
    BY <2>1
<1>3. PICK k \in {"clean", "blocked", "err"}, x \in codes, b \in BOOLEAN : o = Outcome(k, x, b)
  BY <1>2
<1> QED
  BY <1>1, <1>3 DEF Outcome, DoneOutcomes

\* What an Ask comes to: one more question, one outcome, at most one row.
LEMMA AskEffect ==
  ASSUME Typed, NEW c \in Callers, NEW kind, NEW entry, Ask(c, kind, entry)
  PROVE  /\ asked' = [asked EXCEPT ![c] = @ + 1]
         /\ \E o \in DoneOutcomes : Note(c, o)
         /\ (\E b \in BOOLEAN, x \in OutcomeCodes : Append1(c, "work", b, x)) \/ NoRow
<1>1. asked' = [asked EXCEPT ![c] = @ + 1]
  BY DEF Ask
<1>2. CASE \E o \in WorkOutcomes(kind) :
             /\ Note(c, IF kind = "missing" THEN [o EXCEPT !.kind = "err"] ELSE o)
             /\ Append1(c, "work", o.kind # "err", o.code) \/ NoRow
  <2>1. PICK o \in WorkOutcomes(kind) :
             /\ Note(c, IF kind = "missing" THEN [o EXCEPT !.kind = "err"] ELSE o)
             /\ Append1(c, "work", o.kind # "err", o.code) \/ NoRow
    BY <1>2
  <2>2. o \in DoneOutcomes /\ [o EXCEPT !.kind = "err"] \in DoneOutcomes
    BY WorkTyped
  <2>3. o.code \in OutcomeCodes /\ (o.kind # "err") \in BOOLEAN
    BY <2>2 DEF DoneOutcomes
  <2>4. \E x \in DoneOutcomes : Note(c, x)
    BY <2>1, <2>2
  <2>5. (\E b \in BOOLEAN, x \in OutcomeCodes : Append1(c, "work", b, x)) \/ NoRow
    BY <2>1, <2>3, Zenon
  <2> QED
    BY <1>1, <2>4, <2>5
<1>3. CASE Note(c, Outcome("err", "LOG_ERROR", FALSE)) /\ NoRow
  <2>1. Outcome("err", "LOG_ERROR", FALSE) \in DoneOutcomes
    BY DEF Outcome, DoneOutcomes, OutcomeCodes
  <2> QED
    BY <1>1, <1>3, <2>1, Zenon
<1> QED
  BY <1>2, <1>3, Zenon DEF Ask

LEMMA DoWorkEffect ==
  ASSUME IInv, NEW c \in Callers, DoWork(c)
  PROVE  Effect(c) /\ InOrder(c)
<1>1. /\ Typed /\ Chain /\ Running(c) /\ Step(c).do = "work"
      /\ UNCHANGED <<req, items, shared, via>>
  BY DEF IInv, DoWork, At
<1>2. ~Blocks(Step(c)) /\ ~OpensSession(Step(c))
  BY <1>1 DEF Blocks, OpensSession
<1>3. CASE Broken(c)
  <2>1. Tell(c, Refusal(c, "ANYHOW")) /\ NoRow /\ UNCHANGED <<done, asked>>
    BY <1>3 DEF DoWork, Fail
  <2>2. "ANYHOW" \in OutcomeCodes
    BY DEF OutcomeCodes
  <2>3. Moved(c)
    BY <1>1, <2>1, <2>2, OtherRefusal, ToldOff
  <2>4. Effect(c)
    BY <1>1, <2>1, <2>3, OnlyMoves DEF NoRow
  <2>5. Step(c).fatal # {}
    BY <1>3 DEF Broken
  <2>6. InOrder(c)
    BY <1>1, <1>2, <2>5 DEF InOrder
  <2> QED
    BY <2>4, <2>6
<1>4. CASE ~Broken(c) /\ Len(done[c]) = Len(Todo(c))
  <2>1. Advance(c) /\ NoRow /\ UNCHANGED <<done, asked>>
    BY <1>4 DEF DoWork
  <2>2. Moved(c) /\ GoesOn(c)
    BY <1>1, <1>2, <2>1, Advanced
  <2>3. Effect(c)
    BY <1>1, <2>1, <2>2, OnlyMoves DEF NoRow
  <2>4. pc'[c] # 0
    BY <1>1, <2>2, RunningStep DEF GoesOn
  <2>5. InOrder(c)
    BY <1>1, <1>2, <2>4 DEF InOrder
  <2> QED
    BY <2>3, <2>5
<1>5. CASE ~Broken(c) /\ Len(done[c]) # Len(Todo(c))
  <2> DEFINE kind == Step(c).kind
             ref == Todo(c)[Len(done[c]) + 1].ref
             entry == IF kind \in {"fetch", "metadata", "add"} THEN {ref} ELSE {}
  <2>1. /\ UNCHANGED <<pc, answer>>
        /\ \/ (kind = "missing" => "offline" \notin req[c].flags) /\ Ask(c, kind, entry)
           \/ /\ Note(c, Outcome("clean", "none", FALSE)) \/ Note(c, Outcome("err", "none", FALSE))
              /\ NoRow /\ UNCHANGED asked
    BY <1>5, Zenon DEF DoWork
  <2> HIDE DEF ref, entry
  <2>2. Moved(c) /\ pc'[c] # 0
    BY <1>1, <2>1, Stayed, RunningStep
  <2>3. InOrder(c)
    BY <1>1, <1>2, <2>2 DEF InOrder
  <2>4. CASE (kind = "missing" => "offline" \notin req[c].flags) /\ Ask(c, kind, entry)
    <3>1. Sends(req[c], Step(c))
      BY <1>1, <2>4 DEF Sends
    <3>2. /\ asked' = [asked EXCEPT ![c] = @ + 1] /\ \E o \in DoneOutcomes : Note(c, o)
          /\ (\E b \in BOOLEAN, x \in OutcomeCodes : Append1(c, "work", b, x)) \/ NoRow
      <4> HIDE DEF kind
      <4> QED
        BY <1>1, <2>4, AskEffect
    <3>3. done' \in [Callers -> Seq(DoneOutcomes)] /\ \A d \in Callers \ {c} : done'[d] = done[d]
      BY <1>1, <3>2, Noted
    <3>4. Worked(c)
      BY <1>1, <3>1, <3>2, <3>3, AskedMore DEF Worked, Typed
    <3>5. Logged(c)
      <4>1. CASE NoRow
        BY <1>1, <4>1, NotWritten DEF NoRow
      <4>2. CASE \E b \in BOOLEAN, x \in OutcomeCodes : Append1(c, "work", b, x)
        <5>1. PICK b \in BOOLEAN, x \in OutcomeCodes : Append1(c, "work", b, x)
          BY <4>2
        <5>2. "work" \in Events /\ x \in OutcomeCodes \cup ItemCodes
          BY DEF Events
        <5> QED
          BY <1>1, <1>2, <3>1, <5>1, <5>2, RowWritten
      <4> QED
        BY <3>2, <4>1, <4>2
    <3> QED
      BY <1>1, <2>2, <2>3, <3>4, <3>5, InParts
  <2>5. CASE /\ Note(c, Outcome("clean", "none", FALSE)) \/ Note(c, Outcome("err", "none", FALSE))
             /\ NoRow /\ UNCHANGED asked
    <3>1. Outcome("clean", "none", FALSE) \in DoneOutcomes /\ Outcome("err", "none", FALSE) \in DoneOutcomes
      BY DEF Outcome, DoneOutcomes, OutcomeCodes
    <3>2. done' \in [Callers -> Seq(DoneOutcomes)] /\ \A d \in Callers \ {c} : done'[d] = done[d]
      BY <1>1, <2>5, <3>1, Noted
    <3>3. Worked(c)
      BY <1>1, <2>5, <3>2 DEF Worked, Typed
    <3>4. Logged(c)
      BY <1>1, <2>5, NotWritten DEF NoRow
    <3> QED
      BY <1>1, <2>2, <2>3, <3>3, <3>4, InParts
  <2> QED
    BY <2>1, <2>4, <2>5
<1> QED
  BY <1>3, <1>4, <1>5

LEMMA DoReadEffect ==
  ASSUME IInv, NEW c \in Callers, DoRead(c)
  PROVE  Effect(c) /\ InOrder(c)
<1>1. /\ Typed /\ Running(c) /\ Step(c).do = "read"
      /\ UNCHANGED <<req, items, shared, via, mem, log, asked>>
  BY DEF IInv, DoRead, At, logVars
<1>2. InOrder(c) /\ ~Blocks(Step(c))
  BY <1>1, OutOfSession DEF Blocks
<1>3. CASE Len(done[c]) = Len(Todo(c))
  <2>1. Advance(c) /\ UNCHANGED done
    BY <1>3 DEF DoRead
  <2>2. Moved(c)
    BY <1>1, <1>2, <2>1, Advanced
  <2> QED
    BY <1>1, <1>2, <2>1, <2>2, OnlyMoves
<1>4. CASE Len(done[c]) # Len(Todo(c))
  <2>1. /\ UNCHANGED <<pc, answer>>
        /\ \/ Note(c, Outcome("clean", "none", FALSE)) \/ Note(c, Outcome("absent", "none", FALSE))
           \/ Note(c, Outcome("err", Step(c).absent, FALSE)) \/ Note(c, Outcome("err", "STORE_ERROR", FALSE))
           \/ Note(c, Outcome("err", "ANYHOW", FALSE))
    BY <1>4 DEF DoRead
  <2>2. Step(c).absent \in {"none", "STORE_ERROR", "ANYHOW"}
    BY <1>1, RunningStep DEF Careful
  <2>3. \E o \in DoneOutcomes : Note(c, o)
    <3>1. \A k \in {"clean", "absent", "err"}, x \in {"none", "STORE_ERROR", "ANYHOW"} :
             Outcome(k, x, FALSE) \in DoneOutcomes
      BY DEF Outcome, DoneOutcomes, OutcomeCodes
    <3> QED
      BY <2>1, <2>2, <3>1
  <2>4. done' \in [Callers -> Seq(DoneOutcomes)] /\ \A d \in Callers \ {c} : done'[d] = done[d]
    BY <1>1, <2>3, Noted
  <2>5. Worked(c)
    BY <1>1, <2>4 DEF Worked, Typed
  <2>6. Moved(c)
    BY <1>1, <2>1, Stayed
  <2>7. Logged(c)
    BY <1>1, NotWritten
  <2> QED
    BY <1>1, <1>2, <2>5, <2>6, <2>7, InParts
<1> QED
  BY <1>3, <1>4

LEMMA GiveUpEffect ==
  ASSUME IInv, NEW c \in Callers, GiveUp(c)
  PROVE  Effect(c) /\ InOrder(c)
<1>1. /\ Typed /\ Running(c) /\ Step(c).do = "stop"
      /\ UNCHANGED <<req, items, done, shared, via, mem, log, asked>>
  BY DEF IInv, GiveUp, At, logVars
<1>2. Tell(c, Refusal(c, FirstCode(c))) \/ Advance(c)
  BY DEF GiveUp, Fail
<1>3. InOrder(c) /\ ~Blocks(Step(c))
  BY <1>1, OutOfSession DEF Blocks
<1>4. Moved(c)
  <2>1. CASE Advance(c)
    BY <1>1, <1>3, <2>1, Advanced
  <2>2. CASE Tell(c, Refusal(c, FirstCode(c)))
    <3>1. FirstCode(c) \in OutcomeCodes
      BY <1>1, FirstCodeKnown
    <3> QED
      BY <1>1, <2>2, <3>1, OtherRefusal, ToldOff
  <2> QED
    BY <1>2, <2>1, <2>2
<1> QED
  BY <1>1, <1>3, <1>4, OnlyMoves

LEMMA DoEditEffect ==
  ASSUME IInv, NEW c \in Callers, DoEdit(c)
  PROVE  Effect(c) /\ InOrder(c)
<1>1. /\ Typed /\ Running(c) /\ Step(c).do = "edit" /\ Advance(c)
      /\ UNCHANGED <<req, items, shared, via, mem, log, asked>>
      /\ Note(c, Outcome("clean", "none", FALSE)) \/ Note(c, Outcome("err", "STORE_ERROR", FALSE))
  BY DEF IInv, DoEdit, At, logVars
<1>2. InOrder(c) /\ ~Blocks(Step(c))
  BY <1>1, OutOfSession DEF Blocks
<1>3. Outcome("clean", "none", FALSE) \in DoneOutcomes /\ Outcome("err", "STORE_ERROR", FALSE) \in DoneOutcomes
  BY DEF Outcome, DoneOutcomes, OutcomeCodes
<1>4. done' \in [Callers -> Seq(DoneOutcomes)] /\ \A d \in Callers \ {c} : done'[d] = done[d]
  BY <1>1, <1>3, Noted
<1>5. Worked(c)
  BY <1>1, <1>4 DEF Worked, Typed
<1>6. Moved(c)
  BY <1>1, <1>2, Advanced
<1>7. Logged(c)
  BY <1>1, NotWritten
<1> QED
  BY <1>1, <1>2, <1>5, <1>6, <1>7, InParts

LEMMA SessionEndEffect ==
  ASSUME IInv, NEW c \in Callers, SessionEnd(c)
  PROVE  Effect(c) /\ InOrder(c)
<1>1. /\ Typed /\ Chain /\ Running(c) /\ Step(c).do = "end" /\ Advance(c)
      /\ UNCHANGED <<req, items, done, shared, via, asked>>
  BY DEF IInv, SessionEnd, At
<1>2. ~Blocks(Step(c)) /\ Sends(req[c], Step(c)) /\ ~OpensSession(Step(c)) /\ Worked(c)
  BY <1>1, Untouched DEF Blocks, Sends, OpensSession
<1>3. Moved(c) /\ GoesOn(c)
  BY <1>1, <1>2, Advanced
<1>4. InOrder(c)
  BY <1>1, <1>2, <1>3 DEF InOrder
<1> DEFINE code == IF Step(c).coded THEN FirstCode(c) ELSE "none"
<1>5. Append1(c, "end", Clean(c), code) \/ NoRow
  BY DEF SessionEnd, Clean
<1>6. Logged(c)
  <2>1. CASE NoRow
    BY <1>1, <2>1, NotWritten DEF NoRow
  <2>2. CASE Append1(c, "end", Clean(c), code)
    <3>1. "end" \in Events /\ code \in OutcomeCodes \cup ItemCodes /\ Clean(c) \in BOOLEAN
      BY <1>1, FirstCodeKnown DEF Events, OutcomeCodes, Clean
    <3> HIDE DEF code
    <3> QED
      BY <1>1, <1>2, <2>2, <3>1, RowWritten
  <2> QED
    BY <1>5, <2>1, <2>2
<1> QED
  BY <1>1, <1>2, <1>3, <1>4, <1>6, InParts

-----------------------------------------------------------------------------
(* The answer.  It is told from the outcomes and the unusable refs.        *)

LEMMA ExitIsNotZero ==
  ASSUME NEW c \in Callers, NEW form, NEW n \in Nat, n > 0
  PROVE  /\ ExitStatus(c, form, n).exit # 0 /\ ~ExitStatus(c, form, n).ok
         /\ ExitStatus(c, form, n).code \in {"none", FirstCode(c)}
<1>1. CASE form = "many"
  BY <1>1 DEF ExitStatus, Counted, MaxExit
<1>2. CASE form # "many"
  <2>1. \A x : cli_exit_code(x) # 0
    BY DEF cli_exit_code
  <2> QED
    BY <1>2, <2>1 DEF ExitStatus
<1> QED
  BY <1>1, <1>2

LEMMA CountOf ==
  ASSUME NEW S, IsFiniteSet(S)
  PROVE  Cardinality(S) \in Nat /\ (Cardinality(S) = 0 <=> S = {})
  BY FS_CardinalityType, FS_EmptySet

LEMMA ResultTells ==
  ASSUME Typed, NEW c \in Callers, NEW form, NEW counts
  PROVE  LET r == Result(c, form, counts) IN
         /\ r.code \in OutcomeCodes
         /\ counts = Statuses => /\ Clean(c) => r = Success
                                 /\ ~Clean(c) => /\ ~(r.ok /\ r.code = "none" /\ r.failed = 0)
                                                 /\ c \notin ServerCalls => r.exit # 0
<1> DEFINE F == {k \in Failed(c) : answer_status(done[c][k]) \in counts}
           U == {k \in Unusable(c) : entry_status(items[c][k]) \in counts}
           f == Cardinality(F)
           u == Cardinality(U)
           o == done[c][First(Failed(c))]
           r == Result(c, form, counts)
<1>1. IsFiniteSet(F) /\ IsFiniteSet(U)
  <2>1. F \subseteq Failed(c) /\ U \subseteq Unusable(c)
    OBVIOUS
  <2>2. IsFiniteSet(Failed(c)) /\ IsFiniteSet(Unusable(c))
    BY FailedIsFinite
  <2> HIDE DEF F, U
  <2> QED
    BY <2>1, <2>2, FS_Subset
<1>2. counts = Statuses => F = Failed(c) /\ U = Unusable(c)
  <2>1. \A x : answer_status(x) \in Statuses
    BY DEF answer_status, Statuses
  <2>2. \A x : entry_status(x) \in Statuses
    BY DEF entry_status, Statuses
  <2> QED
    BY <2>1, <2>2
<1>3. f \in Nat /\ u \in Nat /\ (f = 0 <=> F = {}) /\ (u = 0 <=> U = {})
  <2> HIDE DEF F, U
  <2> QED
    BY <1>1, CountOf
<1>4. f > 0 => Failed(c) # {}
  <2>1. Failed(c) = {} => F = {}
    OBVIOUS
  <2> HIDE DEF F, U
  <2> QED
    BY <1>3, <2>1
<1>5. r = CASE f + u = 0 -> Success
            [] f + u > 0 /\ c \notin ServerCalls -> ExitStatus(c, form, f + u)
            [] OTHER -> CASE form = "entries" -> build_bibliography_envelope(f, u)
                          [] form = "many"    -> batch_fetch_success_envelope(f + u)
                          [] form \notin {"entries", "many"} /\ f > 0 /\ o.kind = "blocked"
                                              -> fetch_paper_success_envelope(o)
                          [] OTHER            -> error_envelope(FirstCode(c))
  BY DEF Result
<1>6. FirstCode(c) \in OutcomeCodes /\ "none" \in OutcomeCodes
  BY FirstCodeKnown DEF OutcomeCodes
<1>7. f > 0 => o.code \in OutcomeCodes
  BY <1>4, FirstCodeKnown DEF DoneOutcomes
<1> HIDE DEF F, U, f, u, o, r
<1>8. CASE f + u = 0
  <2>1. r = Success
    BY <1>5, <1>8
  <2>2. r.code \in OutcomeCodes
    BY <2>1, <1>6 DEF Success
  <2>3. counts = Statuses => Clean(c)
    BY <1>2, <1>3, <1>8 DEF Clean
  <2> QED
    BY <2>1, <2>2, <2>3 DEF r
<1>9. CASE f + u > 0
  <2>1. counts = Statuses => ~Clean(c)
    BY <1>2, <1>3, <1>9 DEF Clean
  <2>2. CASE c \notin ServerCalls
    <3>1. r = ExitStatus(c, form, f + u)
      BY <1>5, <1>9, <2>2
    <3>2. r.exit # 0 /\ ~r.ok /\ r.code \in OutcomeCodes
      <4>1. f + u \in Nat
        BY <1>3
      <4> QED
        BY <1>6, <1>9, <3>1, <4>1, ExitIsNotZero
    <3> QED
      BY <2>1, <3>2 DEF r
  <2>3. CASE c \in ServerCalls
    <3>1. r = CASE form = "entries" -> build_bibliography_envelope(f, u)
                [] form = "many"    -> batch_fetch_success_envelope(f + u)
                [] form \notin {"entries", "many"} /\ f > 0 /\ o.kind = "blocked"
                                    -> fetch_paper_success_envelope(o)
                [] OTHER            -> error_envelope(FirstCode(c))
      BY <1>5, <1>9, <2>3
    <3>2. \/ r = build_bibliography_envelope(f, u)
          \/ r = batch_fetch_success_envelope(f + u)
          \/ f > 0 /\ r = fetch_paper_success_envelope(o)
          \/ r = error_envelope(FirstCode(c))
      BY <3>1
    <3>3. r.code \in OutcomeCodes /\ r.failed # 0
      BY <1>3, <1>6, <1>7, <1>9, <3>2
         DEF build_bibliography_envelope, batch_fetch_success_envelope,
             fetch_paper_success_envelope, error_envelope
    <3> QED
      BY <2>1, <2>3, <3>3 DEF r
  <2> QED
    BY <2>2, <2>3
<1> QED
  BY <1>3, <1>8, <1>9

LEMMA AnswerEffect ==
  ASSUME IInv, NEW c \in Callers, Answer(c)
  PROVE  Effect(c) /\ InOrder(c)
<1>1. /\ Typed /\ Running(c) /\ Step(c).do = "reply"
      /\ UNCHANGED <<req, items, done, shared, via, mem, log, asked>>
      /\ Tell(c, Result(c, Step(c).form, Step(c).counts))
  BY DEF IInv, Answer, At, logVars
<1> DEFINE a == Result(c, Step(c).form, Step(c).counts)
<1>2. a.code \in OutcomeCodes
  BY <1>1, ResultTells
<1>3. a.code \notin InputCodes
  BY <1>2, WorkIsNoRefusal
<1>4. Tell(c, a)
  BY <1>1
<1>5. answer'[c] = a => answer'[c] = Result(c, Step(c).form, Step(c).counts)
  OBVIOUS
<1> HIDE DEF a
<1>6. Moved(c) /\ pc'[c] = 0 /\ answer'[c] = a
  BY <1>1, <1>3, <1>4, ToldOff
<1>7. Effect(c) /\ Gives(c)
  BY <1>1, <1>6, OnlyMoves
<1>8. ~OpensSession(Step(c))
  BY <1>1 DEF OpensSession
<1>9. InOrder(c)
  BY <1>1, <1>5, <1>6, <1>7, <1>8 DEF InOrder
<1> QED
  BY <1>7, <1>9

LEMMA CallEffect ==
  ASSUME IInv, NEW c \in Callers, Call(c)
  PROVE  Effect(c) /\ InOrder(c)
  BY CheckEffect, PreviewEffect, PrepareEffect, OpenEffect, PublishEffect, SessionStartEffect,
     LookUpEffect, LookupsEndEffect, SettledEffect, DoWorkEffect, FallBackEffect, AskAsideEffect,
     DoReadEffect, GiveUpEffect, DoEditEffect, SessionEndEffect, AnswerEffect DEF Call

-----------------------------------------------------------------------------
(* What an effect leaves true.                                             *)

LEMMA PastAfter ==
  ASSUME Typed, NEW c \in Callers, Effect(c), NEW x
  PROVE  /\ \A d \in Callers \ {c} : Past(d, x)' <=> Past(d, x)
         /\ Past(c, x)' => Past(c, x) \/ Step(c).do = x \/ (Skips(c) /\ x = "share")
         /\ pc'[c] # 0 /\ Past(c, x) => Past(c, x)'
         /\ (GoesOn(c) \/ Skips(c)) /\ Step(c).do = x => Past(c, x)'
<1>1. /\ pc[c] \in 1..Size(c) /\ Size(c) \in Nat /\ Step(c) = req[c].steps[pc[c]]
      /\ Careful(c, req[c], pc[c]) /\ req' = req /\ pc' \in [Callers -> Nat] /\ pc \in [Callers -> Nat]
  BY RunningStep DEF Effect, Typed
<1>2. \A d : Size(d)' = Size(d)
  BY <1>1 DEF Size
<1>3. \A d \in Callers \ {c} : pc'[d] = pc[d]
  BY DEF Effect, Apart
<1>4. \A d \in Callers \ {c} : Past(d, x)' <=> Past(d, x)
  BY <1>1, <1>2, <1>3 DEF Past
<1>5. Stays(c) \/ GoesOn(c) \/ Skips(c) \/ Ends(c)
  BY DEF Effect
<1>6. Skips(c) => req[c].steps[pc[c] + 1].do = "share"
  BY <1>1 DEF Skips, Careful
<1>7. ASSUME Past(c, x)'
      PROVE  Past(c, x) \/ Step(c).do = x \/ (Skips(c) /\ x = "share")
  <2>1. PICK j \in 1..Size(c) : j < pc'[c] /\ req[c].steps[j].do = x
    BY <1>1, <1>2, <1>7 DEF Past
  <2>2. j < pc[c] \/ j = pc[c] \/ (Skips(c) /\ j = pc[c] + 1)
    BY <1>1, <1>5, <2>1 DEF Stays, GoesOn, Skips, Ends
  <2> QED
    BY <1>1, <1>6, <2>1, <2>2 DEF Past
<1>8. ASSUME pc'[c] # 0, Past(c, x)
      PROVE  Past(c, x)'
  <2>1. PICK j \in 1..Size(c) : j < pc[c] /\ req[c].steps[j].do = x
    BY <1>8 DEF Past
  <2>2. j < pc'[c]
    BY <1>1, <1>5, <1>8, <2>1 DEF Stays, GoesOn, Skips, Ends
  <2> QED
    BY <1>1, <1>2, <2>1, <2>2 DEF Past
<1>9. ASSUME GoesOn(c) \/ Skips(c), Step(c).do = x
      PROVE  Past(c, x)'
  <2>1. pc[c] < pc'[c]
    BY <1>1, <1>9 DEF GoesOn, Skips
  <2> QED
    BY <1>1, <1>2, <1>9, <2>1 DEF Past
<1> QED
  BY <1>4, <1>7, <1>8, <1>9

\* The log is as it was or one row longer.
LEMMA LogAfter ==
  ASSUME Typed, NEW c \in Callers, Effect(c)
  PROVE  /\ Len(log) \in Nat /\ \A k \in 1..Len(log) : k \in 1..Len(log') /\ log'[k] = log[k]
         /\ ~Writes(c) => log' = log
         /\ Writes(c) => /\ Len(log') = Len(log) + 1 /\ log'[Len(log) + 1] \in Rows
                         /\ log'[Len(log) + 1].by = c /\ log'[Len(log) + 1].seq = mem[via[c]]
                         /\ log'[Len(log) + 1].event = "start" <=> OpensSession(Step(c))
                         /\ log'[Len(log) + 1].event = "end" <=> Step(c).do = "end"
                         /\ log'[Len(log) + 1].event = "end" => (log'[Len(log) + 1].ok <=> Clean(c))
<1>1. log \in Seq(Rows) /\ Len(log) \in Nat
  BY ElementOf DEF Typed
<1>2. ~Writes(c) => log' = log
  BY DEF Effect, Opens, Borrows, Publishes, WritesNothing, Gives, logVars
<1>3. ASSUME Writes(c)
      PROVE  /\ \A k \in 1..Len(log) : k \in 1..Len(log') /\ log'[k] = log[k]
             /\ Len(log') = Len(log) + 1 /\ log'[Len(log) + 1] \in Rows
             /\ log'[Len(log) + 1].by = c /\ log'[Len(log) + 1].seq = mem[via[c]]
             /\ log'[Len(log) + 1].event = "start" <=> OpensSession(Step(c))
             /\ log'[Len(log) + 1].event = "end" <=> Step(c).do = "end"
             /\ log'[Len(log) + 1].event = "end" => (log'[Len(log) + 1].ok <=> Clean(c))
  <2>1. PICK r \in Rows :
       /\ r.by = c /\ r.seq = mem[via[c]]
       /\ r.event = "start" <=> OpensSession(Step(c))
       /\ r.event = "end" <=> Step(c).do = "end"
       /\ r.event = "end" => (r.ok <=> Clean(c))
       /\ log' = Append(log, r)
    BY <1>3 DEF Writes
  <2>2. /\ Len(log') = Len(log) + 1 /\ log'[Len(log) + 1] = r
        /\ \A k \in 1..Len(log) : log'[k] = log[k]
    BY <1>1, <2>1, Appended
  <2> QED
    BY <1>1, <2>1, <2>2
<1> QED
  BY <1>1, <1>2, <1>3

LEMMA OthersRows ==
  ASSUME Typed, NEW c \in Callers, Effect(c), NEW d \in Callers \ {c}
  PROVE  RowsOf(d)' = RowsOf(d) /\ \A k \in RowsOf(d) : log'[k] = log[k]
<1>1. CASE ~Writes(c)
  BY <1>1, LogAfter DEF RowsOf
<1>2. CASE Writes(c)
  <2>1. /\ Len(log) \in Nat /\ Len(log') = Len(log) + 1 /\ log'[Len(log) + 1].by = c
        /\ \A k \in 1..Len(log) : log'[k] = log[k]
    BY <1>2, LogAfter
  <2>2. \A k \in 1..Len(log') : k \in 1..Len(log) \/ k = Len(log) + 1
    BY <2>1
  <2>3. \A k \in 1..Len(log) : k \in 1..Len(log')
    BY <2>1
  <2> QED
    BY <2>1, <2>2, <2>3 DEF RowsOf
<1> QED
  BY <1>1, <1>2

LEMMA OwnRows ==
  ASSUME Typed, NEW c \in Callers, Effect(c)
  PROVE  /\ \A k \in RowsOf(c) : k \in RowsOf(c)' /\ log'[k] = log[k]
         /\ \A k \in RowsOf(c)' : k \in RowsOf(c) \/
              /\ Writes(c)
              /\ log'[k].event = "start" <=> OpensSession(Step(c))
              /\ log'[k].event = "end" <=> Step(c).do = "end"
              /\ log'[k].event = "end" => (log'[k].ok <=> Clean(c))
         /\ ~Writes(c) => RowsOf(c)' = RowsOf(c)
         /\ OpensSession(Step(c)) /\ Writes(c) => Has(c, "start")'
<1>1. Len(log) \in Nat /\ \A k \in 1..Len(log) : k \in 1..Len(log') /\ log'[k] = log[k]
  BY LogAfter
<1>2. \A k \in RowsOf(c) : k \in RowsOf(c)' /\ log'[k] = log[k]
  BY <1>1 DEF RowsOf
<1>3. CASE ~Writes(c)
  <2>1. log' = log
    BY <1>3, LogAfter
  <2>2. RowsOf(c)' = RowsOf(c)
    BY <2>1 DEF RowsOf
  <2> QED
    BY <1>2, <1>3, <2>2
<1>4. CASE Writes(c)
  <2> DEFINE n == Len(log) + 1
  <2>1. /\ Len(log') = n /\ log'[n].by = c
        /\ log'[n].event = "start" <=> OpensSession(Step(c))
        /\ log'[n].event = "end" <=> Step(c).do = "end"
        /\ log'[n].event = "end" => (log'[n].ok <=> Clean(c))
    BY <1>4, LogAfter
  <2>2. \A k \in 1..Len(log') : k \in 1..Len(log) \/ k = n
    BY <1>1, <2>1
  <2>3. n \in RowsOf(c)'
    BY <1>1, <2>1 DEF RowsOf
  <2>4. \A k \in RowsOf(c)' : k \in RowsOf(c) \/ k = n
    BY <1>1, <2>2 DEF RowsOf
  <2> HIDE DEF n
  <2>5. OpensSession(Step(c)) => Has(c, "start")'
    BY <2>1, <2>3 DEF Has
  <2> QED
    BY <1>2, <1>4, <2>1, <2>4, <2>5
<1> QED
  BY <1>3, <1>4

\* Which steps touch the log handles.
LEMMA HandleStep ==
  ASSUME Typed, NEW c \in Callers, Effect(c)
  PROVE  /\ Publishes(c) => c \in ServerCalls /\ Past(c, "open")
         /\ Writes(c) \/ WritesNothing(c) => Step(c).do \notin {"open", "share"} /\ UNCHANGED <<via, shared>>
         /\ Gives(c) => UNCHANGED <<via, shared, mem>>
<1>1. /\ pc[c] \in 1..Size(c) /\ Size(c) \in Nat /\ Step(c) = req[c].steps[pc[c]]
      /\ Careful(c, req[c], pc[c])
  BY RunningStep DEF Effect
<1>2. ASSUME Publishes(c)
      PROVE  c \in ServerCalls /\ Past(c, "open")
  <2>1. c \in ServerCalls /\ pc[c] > 1 /\ req[c].steps[pc[c] - 1].do = "open"
    BY <1>1, <1>2 DEF Publishes, Careful
  <2> QED
    BY <1>1, <2>1 DEF Past
<1>3. Writes(c) => Step(c).do \notin {"open", "share"} /\ UNCHANGED <<via, shared>>
  BY DEF Writes, Sends
<1>4. WritesNothing(c) => Step(c).do \notin {"open", "share"} /\ UNCHANGED <<via, shared>>
  BY DEF WritesNothing, logVars
<1>5. Gives(c) => UNCHANGED <<via, shared, mem>>
  BY DEF Gives, logVars
<1> QED
  BY <1>2, <1>3, <1>4, <1>5

LEMMA SharedAfter ==
  ASSUME Typed, Chain, NEW c \in Callers, Effect(c)
  PROVE  /\ shared # NoOne => shared' = shared
         /\ \A d \in ServerCalls : Past(d, "share")' => shared' # NoOne /\ via'[d] = shared'
         /\ shared' \in ServerCalls \cup {NoOne}
<1>1. /\ c # NoOne /\ ServerCalls \subseteq Callers /\ via \in [Callers -> Callers \cup {NoOne}]
      /\ shared' \in ServerCalls \cup {NoOne}
  BY CallAssumption DEF Typed, Effect
<1>2. shared # NoOne => shared' = shared
  BY HandleStep DEF Effect, Opens, Borrows, Publishes
<1>3. ASSUME NEW d \in ServerCalls, Past(d, "share")'
      PROVE  shared' # NoOne /\ via'[d] = shared'
  <2>1. CASE d # c
    <3>1. Past(d, "share") /\ d \in Callers \ {c}
      BY <1>1, <1>3, <2>1, PastAfter
    <3>2. shared # NoOne /\ via[d] = shared
      BY <3>1 DEF Chain
    <3>3. via'[d] = via[d]
      BY <3>1 DEF Effect, Apart
    <3> QED
      BY <1>2, <3>2, <3>3
  <2>2. CASE d = c
    <3>1. Past(c, "share") \/ Step(c).do = "share" \/ Skips(c)
      BY <1>3, <2>2, PastAfter
    <3>2. Past(c, "share") => shared # NoOne /\ via[c] = shared
      BY <2>2 DEF Chain
    <3>3. pc'[c] # 0
      BY <1>3, <2>2 DEF Past, Effect, Typed
    <3>4. CASE Opens(c)
      <4>1. shared = NoOne /\ ~Skips(c) /\ Step(c).do # "share"
        BY <2>2, <3>4, RunningStep DEF Opens, GoesOn, Skips, Effect
      <4> QED
        BY <3>1, <3>2, <4>1
    <3>5. CASE Borrows(c)
      BY <1>1, <2>2, <3>5 DEF Borrows, Skips
    <3>6. CASE Publishes(c)
      BY <1>1, <2>2, <3>6 DEF Publishes
    <3>7. CASE Writes(c) \/ WritesNothing(c)
      <4>1. Step(c).do \notin {"open", "share"} /\ UNCHANGED <<via, shared>>
        BY <3>7, HandleStep
      <4> QED
        BY <2>2, <3>1, <3>2, <4>1 DEF Skips
    <3>8. CASE Gives(c)
      BY <3>3, <3>8 DEF Gives
    <3> QED
      BY <3>4, <3>5, <3>6, <3>7, <3>8 DEF Effect
  <2> QED
    BY <2>1, <2>2
<1> QED
  BY <1>1, <1>2, <1>3

LEMMA NotYetPublished ==
  ASSUME Typed, Chain, NEW c \in Callers, Effect(c), NEW d \in ServerCalls, At(d, "share")', log' = <<>>
  PROVE  mem'[d] = 1
<1>1. log = <<>> /\ ~Writes(c)
  <2>1. Len(log') = 0
    OBVIOUS
  <2>2. ~Writes(c)
    BY <2>1, LogAfter
  <2> QED
    BY <2>2, LogAfter
<1>2. /\ req' = req /\ mem \in [Callers -> Nat] /\ Len(log) = 0 /\ d \in Callers
  BY <1>1, CallAssumption DEF Effect, Typed
<1>3. CASE d # c
  <2>1. pc'[d] = pc[d]
    BY <1>2, <1>3 DEF Effect, Apart
  <2>2. At(d, "share")
    BY <1>2, <2>1 DEF At, Running, Step
  <2>3. mem[d] = 1
    BY <1>1, <2>2 DEF Chain
  <2>4. mem'[d] = mem[d]
    BY <1>1, <1>2, <1>3 DEF Effect, Opens, Borrows, Publishes, WritesNothing, Gives, logVars
  <2> QED
    BY <2>3, <2>4
<1>4. CASE d = c
  <2> DEFINE p == pc[c]
             q == pc'[c]
  <2>1. /\ p \in 1..Size(c) /\ Size(c) \in Nat /\ Step(c) = req[c].steps[p] /\ Careful(c, req[c], p)
    BY RunningStep DEF Effect
  <2>2. q \in 1..Size(c) /\ req[c].steps[q].do = "share"
    BY <1>2, <1>4, <2>1 DEF At, Running, Step, Size, Effect, Typed
  <2>3. Careful(c, req[c], q)
    BY <2>2, ScenarioAssumption DEF Typed, Size
  <2>4. q > 1 /\ req[c].steps[q - 1].do = "open"
    BY <2>2, <2>3 DEF Careful
  <2>5. ~Stays(c) /\ ~Ends(c)
    <3>1. Stays(c) => Step(c).do = "share"
      BY <2>1, <2>2 DEF Stays
    <3>2. Stays(c) => Step(c).do \in {"look", "work", "read"}
      BY DEF Stays
    <3> QED
      BY <2>2, <3>1, <3>2 DEF Ends
  <2>6. ~Skips(c)
    <3>1. ASSUME Skips(c) PROVE FALSE
      <4>1. q - 1 = p + 1 /\ req[c].steps[p + 1].do = "share"
        BY <2>1, <3>1 DEF Skips, Careful
      <4> QED
        BY <2>4, <4>1
    <3> QED
      BY <3>1
  <2>7. GoesOn(c)
    BY <2>5, <2>6 DEF Effect
  <2>8. q - 1 = p
    BY <2>1, <2>7 DEF GoesOn
  <2>9. Step(c).do = "open"
    BY <2>1, <2>4, <2>8
  <2>10. Opens(c)
    BY <1>1, <2>6, <2>9, <2>2, HandleStep DEF Effect, Borrows, Publishes, WritesNothing, Gives
  <2> QED
    BY <1>2, <1>4, <2>10 DEF Opens
<1> QED
  BY <1>3, <1>4

LEMMA OwnHandleAfter ==
  ASSUME Typed, Chain, NEW c \in Callers, Effect(c), NEW d \in Callers \ ServerCalls
  PROVE  /\ via'[d] \in {d, NoOne} /\ (Past(d, "open")' => via'[d] = d)
         /\ via'[d] = d /\ WrittenBy({d})' => mem'[d] = Len(log') + 1
<1>1. /\ via[d] \in {d, NoOne} /\ (Past(d, "open") => via[d] = d)
      /\ via[d] = d /\ WrittenBy({d}) => mem[d] = Len(log) + 1
  BY DEF Chain
<1>2. /\ via \in [Callers -> Callers \cup {NoOne}] /\ mem \in [Callers -> Nat] /\ Len(log) \in Nat
      /\ d # NoOne
  BY LogAfter, CallAssumption DEF Typed
<1>3. CASE Opens(c)
  <2>1. CASE d = c
    BY <1>2, <1>3, <2>1 DEF Opens
  <2>2. CASE d # c
    <3>1. Past(d, "open")' <=> Past(d, "open")
      BY <2>2, PastAfter
    <3>2. via'[d] = via[d] /\ mem'[d] = mem[d] /\ log' = log
      BY <1>2, <1>3, <2>2 DEF Opens
    <3> QED
      BY <1>1, <3>1, <3>2 DEF WrittenBy
  <2> QED
    BY <2>1, <2>2
<1>4. CASE Borrows(c) \/ Publishes(c)
  <2>1. d # c
    BY <1>4, HandleStep DEF Borrows, Skips
  <2>2. Past(d, "open")' <=> Past(d, "open")
    BY <2>1, PastAfter
  <2>3. via'[d] = via[d] /\ mem' = mem /\ log' = log
    BY <1>2, <1>4, <2>1 DEF Borrows, Publishes
  <2> QED
    BY <1>1, <2>2, <2>3 DEF WrittenBy
<1>5. CASE Writes(c)
  <2>1. /\ UNCHANGED <<via, shared>> /\ Step(c).do # "open" /\ Sends(req[c], Step(c))
        /\ mem' = [mem EXCEPT ![via[c]] = mem[via[c]] + 1]
    BY <1>5, HandleStep DEF Writes
  <2>2. Past(d, "open")' => Past(d, "open")
    <3>1. \A e \in Callers \ {c} : Past(e, "open")' <=> Past(e, "open")
      BY PastAfter
    <3>2. Past(c, "open")' => Past(c, "open") \/ Step(c).do = "open" \/ (Skips(c) /\ "open" = "share")
      BY PastAfter
    <3> QED
      BY <2>1, <3>1, <3>2
  <2>3. ASSUME via'[d] = d, WrittenBy({d})'
        PROVE  mem'[d] = Len(log') + 1
    <3>1. /\ Len(log') = Len(log) + 1 /\ log'[Len(log) + 1].by = c
          /\ \A k \in 1..Len(log) : k \in 1..Len(log') /\ log'[k] = log[k]
      BY <1>5, LogAfter
    <3>2. Len(log) + 1 \in 1..Len(log')
      BY <1>2, <3>1
    <3>3. c = d
      BY <2>3, <3>1, <3>2 DEF WrittenBy
    <3>4. WrittenBy({d})
      BY <2>3, <3>1 DEF WrittenBy
    <3>5. mem[d] = Len(log) + 1
      BY <1>1, <2>1, <2>3, <3>4
    <3>6. mem'[d] = mem[d] + 1
      BY <1>2, <2>1, <2>3, <3>3
    <3> QED
      BY <1>2, <3>1, <3>5, <3>6
  <2> QED
    BY <1>1, <2>1, <2>2, <2>3
<1>6. CASE WritesNothing(c) \/ Gives(c)
  <2>1. UNCHANGED <<via, shared, mem, log>> /\ (Step(c).do # "open" \/ pc'[c] = 0)
    BY <1>6 DEF WritesNothing, Gives, logVars
  <2>2. Past(d, "open")' => Past(d, "open")
    <3>1. CASE Step(c).do # "open"
      <4>1. \A e \in Callers \ {c} : Past(e, "open")' <=> Past(e, "open")
        BY PastAfter
      <4>2. Past(c, "open")' => Past(c, "open") \/ Step(c).do = "open" \/ (Skips(c) /\ "open" = "share")
        BY PastAfter
      <4> QED
        BY <3>1, <4>1, <4>2
    <3>2. CASE pc'[c] = 0
      <4>1. ~Past(c, "open")'
        BY <3>2 DEF Past
      <4> QED
        BY <4>1, PastAfter
    <3> QED
      BY <2>1, <3>1, <3>2
  <2> QED
    BY <1>1, <2>1, <2>2 DEF WrittenBy
<1> QED
  BY <1>3, <1>4, <1>5, <1>6 DEF Effect

LEMMA SharedHandleAfter ==
  ASSUME Typed, Chain, NEW c \in Callers, Effect(c)
  PROVE  /\ shared' # NoOne /\ WrittenBy(ServerCalls)' => mem'[shared'] = Len(log') + 1
         /\ \A k \in 1..Len(log') : log'[k].by \in ServerCalls => shared' # NoOne
<1>1. /\ shared # NoOne /\ WrittenBy(ServerCalls) => mem[shared] = Len(log) + 1
      /\ \A k \in 1..Len(log) : log[k].by \in ServerCalls => shared # NoOne
  BY DEF Chain
<1>2. /\ mem \in [Callers -> Nat] /\ Len(log) \in Nat /\ ServerCalls \subseteq Callers
      /\ shared \in ServerCalls \cup {NoOne} /\ c # NoOne /\ log \in Seq(Rows)
  BY LogAfter, CallAssumption DEF Typed
<1>3. CASE Opens(c)
  BY <1>1, <1>2, <1>3 DEF Opens, WrittenBy
<1>4. CASE Publishes(c)
  <2>1. c \in ServerCalls /\ UNCHANGED <<mem, log>> /\ shared' = (IF shared = NoOne THEN c ELSE shared)
    BY <1>4, HandleStep DEF Publishes
  <2>2. ASSUME shared = NoOne, WrittenBy(ServerCalls)
        PROVE  mem[c] = Len(log) + 1
    <3>1. Len(log) = 0
      BY <1>1, <1>2, <2>2 DEF WrittenBy
    <3>2. log = <<>>
      BY <1>2, <3>1
    <3>3. At(c, "share")
      BY <1>4 DEF Publishes, At, Effect
    <3>4. mem[c] = 1
      BY <2>1, <3>2, <3>3 DEF Chain
    <3> QED
      BY <3>1, <3>4
  <2>3. WrittenBy(ServerCalls)' => WrittenBy(ServerCalls)
    BY <2>1 DEF WrittenBy
  <2> QED
    BY <1>1, <1>2, <2>1, <2>2, <2>3
<1>5. CASE Borrows(c) \/ WritesNothing(c) \/ Gives(c)
  <2>1. UNCHANGED <<shared, mem, log>>
    BY <1>5 DEF Borrows, WritesNothing, Gives, logVars
  <2> QED
    BY <1>1, <2>1 DEF WrittenBy
<1>6. CASE Writes(c)
  <2>1. /\ UNCHANGED <<via, shared>> /\ Sends(req[c], Step(c)) /\ Running(c)
        /\ mem' = [mem EXCEPT ![via[c]] = mem[via[c]] + 1]
    BY <1>6 DEF Writes, Effect
  <2>2. c \in ServerCalls => shared # NoOne /\ via[c] = shared
    BY <2>1, HasHandle
  <2>3. /\ Len(log') = Len(log) + 1 /\ log'[Len(log) + 1].by = c
        /\ \A k \in 1..Len(log) : k \in 1..Len(log') /\ log'[k] = log[k]
    BY <1>6, LogAfter
  <2>4. ASSUME shared' # NoOne, WrittenBy(ServerCalls)'
        PROVE  mem'[shared'] = Len(log') + 1
    <3>1. Len(log) + 1 \in 1..Len(log')
      BY <1>2, <2>3
    <3>2. c \in ServerCalls
      BY <2>3, <2>4, <3>1 DEF WrittenBy
    <3>3. WrittenBy(ServerCalls)
      BY <2>3, <2>4 DEF WrittenBy
    <3>4. mem[shared] = Len(log) + 1
      BY <1>1, <2>2, <3>2, <3>3
    <3>5. mem'[shared] = mem[shared] + 1
      BY <1>2, <2>1, <2>2, <3>2
    <3> QED
      BY <1>2, <2>1, <2>3, <3>4, <3>5
  <2>5. ASSUME NEW k \in 1..Len(log'), log'[k].by \in ServerCalls
        PROVE  shared' # NoOne
    <3>1. k \in 1..Len(log) \/ k = Len(log) + 1
      BY <1>2, <2>3
    <3> QED
      BY <1>1, <2>1, <2>2, <2>3, <2>5, <3>1
  <2> QED
    BY <2>4, <2>5
<1> QED
  BY <1>3, <1>4, <1>5, <1>6 DEF Effect

LEMMA ChainKept ==
  ASSUME Typed, Chain, NEW c \in Callers, Effect(c)
  PROVE  Chain'
<1>1. \A d \in ServerCalls : Past(d, "share")' => shared' # NoOne /\ via'[d] = shared'
  BY SharedAfter
<1>2. \A d \in ServerCalls : At(d, "share")' /\ log' = <<>> => mem'[d] = 1
  BY NotYetPublished
<1>3. \A d \in Callers \ ServerCalls :
        /\ via'[d] \in {d, NoOne} /\ (Past(d, "open")' => via'[d] = d)
        /\ via'[d] = d /\ WrittenBy({d})' => mem'[d] = Len(log') + 1
  BY OwnHandleAfter
<1>4. /\ shared' # NoOne /\ WrittenBy(ServerCalls)' => mem'[shared'] = Len(log') + 1
      /\ \A k \in 1..Len(log') : log'[k].by \in ServerCalls => shared' # NoOne
  BY SharedHandleAfter
<1> QED
  BY <1>1, <1>2, <1>3, <1>4 DEF Chain

LEMMA ChainIntactKept ==
  ASSUME Typed, Chain, ChainIntact, NEW c \in Callers, Effect(c)
  PROVE  ChainIntact'
<1>1. CASE ~Writes(c)
  <2>1. log' = log
    BY <1>1, LogAfter
  <2> QED
    BY <2>1 DEF ChainIntact
<1>2. CASE Writes(c)
  <2> DEFINE n == Len(log) + 1
  <2>1. /\ Len(log) \in Nat /\ Len(log') = n /\ log'[n].by = c /\ log'[n].seq = mem[via[c]]
        /\ \A k \in 1..Len(log) : k \in 1..Len(log') /\ log'[k] = log[k]
    BY <1>2, LogAfter
  <2>2. Sends(req[c], Step(c)) /\ Running(c)
    BY <1>2 DEF Writes, Effect
  <2>3. /\ c \in ServerCalls => shared # NoOne /\ via[c] = shared
        /\ c \notin ServerCalls => via[c] = c
    BY <2>2, HasHandle
  <2>4. SUFFICES ASSUME \A j, k \in 1..Len(log') : SameProcess(log'[j].by, log'[k].by)
                 PROVE  \A k \in 1..Len(log') : log'[k].seq = k
    BY DEF ChainIntact
  <2>5. n \in 1..Len(log')
    BY <2>1
  <2>6. \A k \in 1..Len(log) : log[k].seq = k
    <3>1. \A j, k \in 1..Len(log) : SameProcess(log[j].by, log[k].by)
      BY <2>1, <2>4
    <3> QED
      BY <3>1 DEF ChainIntact
  <2>7. \A k \in 1..Len(log) : SameProcess(log[k].by, c)
    BY <2>1, <2>4, <2>5
  <2>8. mem[via[c]] = n
    <3>1. CASE c \in ServerCalls
      <4>1. WrittenBy(ServerCalls)
        BY <2>7, <3>1 DEF WrittenBy, SameProcess
      <4> QED
        BY <2>3, <3>1, <4>1 DEF Chain
    <3>2. CASE c \notin ServerCalls
      <4>1. WrittenBy({c})
        BY <2>7, <3>2 DEF WrittenBy, SameProcess
      <4> QED
        BY <2>3, <3>2, <4>1 DEF Chain
    <3> QED
      BY <3>1, <3>2
  <2>9. \A k \in 1..Len(log') : k \in 1..Len(log) \/ k = n
    BY <2>1
  <2> HIDE DEF n
  <2> QED
    BY <2>1, <2>6, <2>8, <2>9
<1> QED
  BY <1>1, <1>2

\* A call that has not opened the log sends nothing.
LEMMA StillQuiet ==
  ASSUME IInv, NEW c \in Callers, Effect(c), ~Past(c, "open"), pc'[c] = 0 \/ ~Past(c, "open")'
  PROVE  Quiet(c)'
<1>1. Typed /\ Chain /\ Running(c) /\ pc[c] # 0 /\ pc[c] \in Nat
  BY RunningStep DEF IInv, Effect, Typed
<1>2. Quiet(c)
  BY <1>1 DEF IInv, Silent
<1>3. ~Sends(req[c], Step(c))
  BY <1>1, HasHandle
<1>4. ~Writes(c)
  BY <1>3 DEF Writes
<1>5. ~Publishes(c)
  BY <1>1, HandleStep
<1>6. ~Opens(c) /\ ~Borrows(c)
  <2>1. ASSUME Opens(c) \/ Borrows(c) PROVE FALSE
    <3>1. (GoesOn(c) \/ Skips(c)) /\ Step(c).do = "open"
      BY <2>1 DEF Opens, Borrows, Skips
    <3>2. Past(c, "open")'
      BY <1>1, <3>1, PastAfter
    <3>3. pc'[c] # 0
      BY <1>1, <3>1 DEF GoesOn, Skips
    <3> QED
      BY <3>2, <3>3
  <2> QED
    BY <2>1
<1>7. UNCHANGED <<via, log>>
  BY <1>4, <1>5, <1>6 DEF Effect, WritesNothing, Gives, logVars
<1>8. asked'[c] = asked[c]
  BY <1>3 DEF Effect
<1> QED
  BY <1>2, <1>7, <1>8 DEF Quiet, RowsOf

LEMMA ExcusedIsQuiet ==
  ASSUME IInv, NEW c \in Callers, Effect(c), Ends(c), Excused(c)'
  PROVE  ~Past(c, "open")
<1>1. /\ pc[c] \in 1..Size(c) /\ Size(c) \in Nat /\ Step(c) = req[c].steps[pc[c]]
      /\ Careful(c, req[c], pc[c]) /\ pc[c] # 0 /\ req' = req /\ Typed
  BY RunningStep DEF Effect, IInv
<1>2. CASE "dry" \in req[c].flags
  <2>1. SUFFICES ASSUME Past(c, "open") PROVE FALSE
    OBVIOUS
  <2>2. PICK j \in 1..Size(c) : j < pc[c] /\ req[c].steps[j].do = "open"
    BY <2>1 DEF Past
  <2>3. Careful(c, req[c], j)
    BY <1>1, <2>2, ScenarioAssumption DEF Typed, Size
  <2>4. PICK i \in 1..(j - 1) : Blocks(req[c].steps[i])
    BY <1>2, <2>2, <2>3 DEF Careful
  <2>5. i \in 1..Size(c) /\ i < pc[c]
    BY <1>1, <2>2, <2>4
  <2> QED
    BY <1>1, <2>4, <2>5 DEF IInv, Silent
<1>3. CASE answer'[c].code \in InputCodes /\ \A k \in DOMAIN req[c].refs : req[c].refs[k] # "pmid"
  <2>1. Refuses(Step(c))
    BY <1>3 DEF Ends
  <2>2. ~Before(req[c], pc[c], "open")
    BY <1>1, <1>3, <2>1 DEF Careful
  <2>3. \A j \in 1..Size(c) : j < pc[c] => j \in 1..(pc[c] - 1)
    BY <1>1
  <2> QED
    BY <2>2, <2>3 DEF Before, Past
<1> QED
  BY <1>1, <1>2, <1>3 DEF Excused

LEMMA SilentKept ==
  ASSUME IInv, NEW c \in Callers, Effect(c), NEW d \in Callers
  PROVE  Silent(d)'
<1>1. Typed /\ Silent(d) /\ req' = req /\ \A x : Size(x)' = Size(x)
  BY DEF IInv, Effect, Size
<1>2. CASE d # c
  <2>1. /\ pc'[d] = pc[d] /\ answer'[d] = answer[d] /\ via'[d] = via[d] /\ asked'[d] = asked[d]
    BY <1>2 DEF Effect, Apart
  <2>2. RowsOf(d)' = RowsOf(d) /\ (Past(d, "open")' <=> Past(d, "open"))
    BY <1>1, <1>2, OthersRows, PastAfter
  <2>3. (Quiet(d)' <=> Quiet(d)) /\ (Excused(d)' <=> Excused(d))
    BY <1>1, <2>1, <2>2 DEF Quiet, Excused
  <2> QED
    BY <1>1, <2>1, <2>2, <2>3 DEF Silent
<1>3. CASE d = c
  <2>1. /\ pc[c] \in 1..Size(c) /\ Size(c) \in Nat /\ Step(c) = req[c].steps[pc[c]]
        /\ Careful(c, req[c], pc[c]) /\ pc[c] # 0
    BY <1>1, RunningStep DEF Effect
  <2>2. Stays(c) \/ GoesOn(c) \/ Skips(c) \/ Ends(c)
    BY DEF Effect
  <2>3. ASSUME pc'[c] # 0
        PROVE  answer'[c] = Unanswered /\ \A j \in 1..Size(c) : j < pc'[c] => ~Blocks(req[c].steps[j])
    <3>1. answer'[c] = Unanswered /\ ~Ends(c)
      BY <1>1, <1>3, <2>1, <2>2, <2>3 DEF Silent, Stays, GoesOn, Skips, Ends
    <3>2. \A j \in 1..Size(c) : j < pc[c] => ~Blocks(req[c].steps[j])
      BY <1>1, <1>3, <2>1 DEF Silent
    <3>3. CASE Stays(c)
      BY <3>1, <3>2, <3>3 DEF Stays
    <3>4. CASE GoesOn(c)
      <4>1. ~Blocks(req[c].steps[pc[c]]) /\ pc'[c] = pc[c] + 1
        BY <2>1, <3>4 DEF GoesOn
      <4>2. \A j \in 1..Size(c) : j < pc[c] + 1 => j < pc[c] \/ j = pc[c]
        BY <2>1
      <4> QED
        BY <3>1, <3>2, <4>1, <4>2
    <3>5. CASE Skips(c)
      <4>1. /\ pc'[c] = pc[c] + 2 /\ req[c].steps[pc[c]].do = "open" /\ req[c].steps[pc[c] + 1].do = "share"
        BY <2>1, <3>5 DEF Skips, Careful
      <4>2. ~Blocks(req[c].steps[pc[c]]) /\ ~Blocks(req[c].steps[pc[c] + 1])
        BY <4>1 DEF Blocks
      <4>3. \A j \in 1..Size(c) : j < pc[c] + 2 => j < pc[c] \/ j = pc[c] \/ j = pc[c] + 1
        BY <2>1
      <4> QED
        BY <3>1, <3>2, <4>1, <4>2, <4>3
    <3> QED
      BY <2>2, <3>1, <3>3, <3>4, <3>5
  <2>4. ASSUME pc'[c] # 0, ~Past(c, "open")'
        PROVE  Quiet(c)'
    <3>1. ~Past(c, "open")
      BY <1>1, <2>4, PastAfter
    <3> QED
      BY <2>4, <3>1, StillQuiet
  <2>5. ASSUME pc'[c] = 0, Excused(c)'
        PROVE  Quiet(c)'
    <3>1. Ends(c)
      BY <2>1, <2>2, <2>5 DEF Stays, GoesOn, Skips
    <3>2. ~Past(c, "open")
      BY <2>5, <3>1, ExcusedIsQuiet
    <3> QED
      BY <2>5, <3>2, StillQuiet
  <2> QED
    BY <1>1, <1>3, <2>3, <2>4, <2>5 DEF Silent
<1> QED
  BY <1>2, <1>3

-----------------------------------------------------------------------------
(* Sessions.                                                               *)

\* The steps of a session, and that no other step opens or ends one.
LEMMA SessionSteps ==
  ASSUME Typed, NEW c \in Callers, HasSession(c)
  PROVE  LET n == Size(c) IN
         /\ n \in Nat /\ n > 3 /\ OpensSession(req[c].steps[n - 3])
         /\ req[c].steps[n - 2].do = "work" /\ req[c].steps[n - 2].fatal = {}
         /\ req[c].steps[n - 1].do = "end" /\ req[c].steps[n].do = "reply"
         /\ req[c].steps[n].counts = Statuses
<1>1. Size(c) \in Nat /\ Size(c) > 3 /\ OpensSession(req[c].steps[Size(c) - 3])
  BY ScenarioAssumption DEF Typed, Size, HasSession
<1>2. Bracketed(req[c], Size(c) - 3)
  <2>1. Size(c) - 3 \in 1..Size(c)
    BY <1>1
  <2> QED
    BY <2>1, ScenarioAssumption DEF Typed, Size
<1> QED
  BY <1>1, <1>2 DEF Bracketed, Size

LEMMA SessionPlaces ==
  ASSUME Typed, NEW c \in Callers, Running(c)
  PROVE  /\ OpensSession(Step(c)) => HasSession(c) /\ pc[c] = Size(c) - 3
         /\ Step(c).do = "end" => HasSession(c) /\ pc[c] = Size(c) - 1
<1>1. /\ pc[c] \in 1..Size(c) /\ Size(c) \in Nat /\ Step(c) = req[c].steps[pc[c]]
      /\ Bracketed(req[c], pc[c])
  BY RunningStep
<1>2. ASSUME OpensSession(Step(c))
      PROVE  HasSession(c) /\ pc[c] = Size(c) - 3
  <2>1. pc[c] = Size(c) - 3
    BY <1>1, <1>2 DEF Bracketed, Size
  <2> QED
    BY <1>1, <1>2, <2>1 DEF HasSession
<1>3. ASSUME Step(c).do = "end"
      PROVE  HasSession(c) /\ pc[c] = Size(c) - 1
  BY <1>1, <1>3 DEF Bracketed, Size, HasSession
<1> QED
  BY <1>2, <1>3

\* How a step moves a call that has a session.
LEMMA SessionMoves ==
  ASSUME Typed, NEW c \in Callers, Effect(c), InOrder(c), HasSession(c), pc[c] <= Size(c)
  PROVE  LET n == Size(c) IN
         /\ pc[c] < n - 3 => pc'[c] <= n - 3
         /\ pc[c] = n - 3 => (pc'[c] = n - 2 /\ Has(c, "start")') \/ pc'[c] = 0
         /\ pc[c] = n - 2 => pc'[c] \in {n - 2, n - 1}
         /\ pc[c] = n - 1 => pc'[c] = n /\ UNCHANGED <<done, items>>
         /\ pc[c] = n => pc'[c] = 0 /\ UNCHANGED <<done, items>> /\ answer'[c] = Result(c, Step(c).form, Statuses)
<1> DEFINE n == Size(c)
<1>1. /\ pc[c] \in 1..n /\ n \in Nat /\ Step(c) = req[c].steps[pc[c]] /\ Careful(c, req[c], pc[c])
      /\ Stays(c) \/ GoesOn(c) \/ Skips(c) \/ Ends(c)
  BY RunningStep DEF Effect
<1>2. /\ n > 3 /\ OpensSession(req[c].steps[n - 3])
      /\ req[c].steps[n - 2].do = "work" /\ req[c].steps[n - 2].fatal = {}
      /\ req[c].steps[n - 1].do = "end" /\ req[c].steps[n].do = "reply"
      /\ req[c].steps[n].counts = Statuses
  BY SessionSteps
<1> HIDE DEF n
<1>3. pc[c] < n - 3 => pc'[c] <= n - 3
  <2>1. ASSUME pc[c] < n - 3, Skips(c) PROVE pc[c] + 2 <= n - 3
    <3>1. req[c].steps[pc[c] + 1].do = "share"
      BY <1>1, <2>1 DEF Skips, Careful
    <3>2. pc[c] + 1 # n - 3
      BY <1>2, <3>1 DEF OpensSession
    <3> QED
      BY <1>1, <2>1, <3>2
  <2>2. CASE Stays(c)
    BY <1>1, <2>2 DEF Stays
  <2>3. CASE GoesOn(c)
    BY <1>1, <2>3 DEF GoesOn
  <2>4. CASE Skips(c)
    BY <2>1, <2>4 DEF Skips
  <2>5. CASE Ends(c)
    BY <1>1, <1>2, <2>5 DEF Ends
  <2> QED
    BY <1>1, <2>2, <2>3, <2>4, <2>5
<1>4. pc[c] = n - 3 => (pc'[c] = n - 2 /\ Has(c, "start")') \/ pc'[c] = 0
  <2>1. ASSUME pc[c] = n - 3 PROVE OpensSession(Step(c))
    BY <1>1, <1>2, <2>1
  <2>2. ASSUME pc[c] = n - 3 PROVE (GoesOn(c) /\ Writes(c)) \/ Gives(c)
    BY <2>1, <2>2 DEF InOrder
  <2>3. OpensSession(Step(c)) /\ Writes(c) => Has(c, "start")'
    BY OwnRows
  <2> QED
    BY <1>1, <2>1, <2>2, <2>3 DEF GoesOn, Gives
<1>5. pc[c] = n - 2 => pc'[c] \in {n - 2, n - 1}
  <2>1. ASSUME pc[c] = n - 2 PROVE Step(c).do = "work" /\ pc'[c] # 0
    BY <1>1, <1>2, <2>1 DEF InOrder
  <2> QED
    BY <1>1, <2>1 DEF Stays, GoesOn, Skips, Ends
<1>6. pc[c] = n - 1 => pc'[c] = n /\ UNCHANGED <<done, items>>
  <2>1. ASSUME pc[c] = n - 1 PROVE GoesOn(c) /\ UNCHANGED <<done, items>>
    BY <1>1, <1>2, <2>1 DEF InOrder
  <2> QED
    BY <1>1, <2>1 DEF GoesOn
<1>7. pc[c] = n => pc'[c] = 0 /\ UNCHANGED <<done, items>> /\ answer'[c] = Result(c, Step(c).form, Statuses)
  BY <1>1, <1>2 DEF InOrder, Gives
<1> QED
  BY <1>3, <1>4, <1>5, <1>6, <1>7 DEF n

LEMMA OthersSession ==
  ASSUME Typed, NEW c \in Callers, Effect(c), NEW d \in Callers \ {c}, Session(d)
  PROVE  Session(d)'
<1>1. /\ pc'[d] = pc[d] /\ answer'[d] = answer[d] /\ done'[d] = done[d] /\ items'[d] = items[d]
      /\ req' = req
  BY DEF Effect, Apart
<1>2. RowsOf(d)' = RowsOf(d) /\ \A k \in RowsOf(d) : log'[k] = log[k]
  BY OthersRows
<1>3. /\ (Has(d, "start")' <=> Has(d, "start")) /\ (Has(d, "end")' <=> Has(d, "end"))
  BY <1>2 DEF Has
<1>4. (Clean(d)' <=> Clean(d)) /\ (Said(d)' <=> Said(d))
  BY <1>1 DEF Clean, Failed, Unusable, Said
<1>5. Size(d)' = Size(d) /\ (HasSession(d)' <=> HasSession(d))
  BY <1>1 DEF Size, HasSession
<1> QED
  BY <1>1, <1>2, <1>3, <1>4, <1>5 DEF Session

LEMMA OwnSession ==
  ASSUME IInv, NEW c \in Callers, Effect(c), InOrder(c)
  PROVE  Session(c)'
<1> DEFINE n == Size(c)
<1>1. /\ Typed /\ Session(c) /\ Running(c) /\ req' = req /\ pc' \in [Callers -> Nat]
  BY DEF IInv, Effect, Typed
<1>2. /\ pc[c] \in 1..n /\ n \in Nat /\ pc[c] # 0
  BY <1>1, RunningStep
<1>3. /\ Has(c, "start") <=> HasSession(c) /\ pc[c] > n - 3
      /\ Has(c, "end") => HasSession(c) /\ pc[c] = n
      /\ \A k \in RowsOf(c) : log[k].event = "end" => (log[k].ok <=> Clean(c))
  BY <1>1, <1>2 DEF Session
<1>4. Size(c)' = n /\ (HasSession(c)' <=> HasSession(c))
  BY <1>1 DEF Size, HasSession
<1>5. /\ \A k \in RowsOf(c) : k \in RowsOf(c)' /\ log'[k] = log[k]
      /\ \A k \in RowsOf(c)' : k \in RowsOf(c) \/
              /\ Writes(c)
              /\ log'[k].event = "start" <=> OpensSession(Step(c))
              /\ log'[k].event = "end" <=> Step(c).do = "end"
              /\ log'[k].event = "end" => (log'[k].ok <=> Clean(c))
  BY <1>1, OwnRows
<1>6. /\ OpensSession(Step(c)) => HasSession(c) /\ pc[c] = n - 3
      /\ Step(c).do = "end" => HasSession(c) /\ pc[c] = n - 1
  BY <1>1, SessionPlaces
<1>7. HasSession(c) =>
         /\ n > 3
         /\ pc[c] < n - 3 => pc'[c] <= n - 3
         /\ pc[c] = n - 3 => (pc'[c] = n - 2 /\ Has(c, "start")') \/ pc'[c] = 0
         /\ pc[c] = n - 2 => pc'[c] \in {n - 2, n - 1}
         /\ pc[c] = n - 1 => pc'[c] = n /\ UNCHANGED <<done, items>>
         /\ pc[c] = n => pc'[c] = 0 /\ UNCHANGED <<done, items>> /\ answer'[c] = Result(c, Step(c).form, Statuses)
  BY <1>1, <1>2, SessionMoves DEF HasSession
<1>8. Has(c, "start")' => Has(c, "start") \/ OpensSession(Step(c))
  BY <1>5 DEF Has
<1>9. Has(c, "start") => Has(c, "start")'
  BY <1>5 DEF Has
<1>10. \A k \in RowsOf(c)' : log'[k].event = "end" => HasSession(c) /\
         \/ k \in RowsOf(c) /\ log'[k] = log[k] /\ pc[c] = n
         \/ pc[c] = n - 1 /\ (log'[k].ok <=> Clean(c))
  BY <1>3, <1>5, <1>6 DEF Has
<1> HIDE DEF n
<1>11. pc'[c] # 0 => (Has(c, "start")' <=> HasSession(c) /\ pc'[c] > n - 3)
  <2>1. CASE ~HasSession(c)
    BY <1>3, <1>6, <1>8, <2>1
  <2>2. CASE HasSession(c) /\ pc[c] < n - 3
    BY <1>1, <1>2, <1>3, <1>6, <1>7, <1>8, <2>2
  <2>3. CASE HasSession(c) /\ pc[c] = n - 3
    BY <1>1, <1>2, <1>7, <2>3
  <2>4. CASE HasSession(c) /\ pc[c] > n - 3
    BY <1>1, <1>2, <1>3, <1>7, <1>9, <2>4
  <2> QED
    BY <1>1, <1>2, <2>1, <2>2, <2>3, <2>4
<1>12. pc'[c] # 0 /\ HasSession(c) => pc'[c] <= n
  BY <1>1, <1>2, <1>7
<1>13. pc'[c] # 0 /\ Has(c, "end")' => HasSession(c) /\ pc'[c] = n
  BY <1>7, <1>10 DEF Has
<1>14. ASSUME NEW k \in RowsOf(c)', log'[k].event = "end", pc'[c] # 0
       PROVE  log'[k].ok <=> Clean(c)'
  <2>1. pc[c] = n - 1 /\ (log'[k].ok <=> Clean(c)) /\ UNCHANGED <<done, items>>
    BY <1>7, <1>10, <1>14
  <2>2. Clean(c)' <=> Clean(c)
    BY <2>1 DEF Clean, Failed, Unusable
  <2> QED
    BY <2>1, <2>2
<1>15. ASSUME NEW k \in RowsOf(c)', log'[k].event = "end", pc'[c] = 0
       PROVE  (log'[k].ok <=> Said(c)') /\ (c \notin ServerCalls => (log'[k].ok <=> answer'[c].exit = 0))
  <2>1. /\ k \in RowsOf(c) /\ log'[k] = log[k] /\ answer'[c] = Result(c, Step(c).form, Statuses)
    BY <1>2, <1>7, <1>10, <1>15
  <2>2. log[k].ok <=> Clean(c)
    BY <1>3, <1>15, <2>1
  <2>3. /\ Clean(c) => answer'[c] = Success
        /\ ~Clean(c) => /\ ~(answer'[c].ok /\ answer'[c].code = "none" /\ answer'[c].failed = 0)
                        /\ c \notin ServerCalls => answer'[c].exit # 0
    BY <1>1, <2>1, ResultTells
  <2>4. Success.ok /\ Success.code = "none" /\ Success.failed = 0 /\ Success.exit = 0
    BY DEF Success
  <2> QED
    BY <2>1, <2>2, <2>3, <2>4 DEF Said
<1> QED
  BY <1>4, <1>11, <1>12, <1>13, <1>14, <1>15 DEF Session

-----------------------------------------------------------------------------
(* The invariant holds.                                                    *)

LEMMA InitIInv == Init => IInv
<1> SUFFICES ASSUME Init PROVE IInv
  OBVIOUS
<1>1. /\ req \in Scenarios /\ pc = [c \in Callers |-> IF req[c].tool = "none" THEN 0 ELSE 1]
      /\ done = [c \in Callers |-> <<>>] /\ answer = [c \in Callers |-> Unanswered]
      /\ shared = NoOne /\ via = [c \in Callers |-> NoOne] /\ mem = [c \in Callers |-> 0]
      /\ log = <<>> /\ asked = [c \in Callers |-> 0]
  BY DEF Init
<1>2. items \in [Callers -> Seq(Items)]
  <2>1. ASSUME NEW c \in Callers
        PROVE  [k \in DOMAIN req[c].refs |->
                 [ref |-> req[c].refs[k], code |-> parse_error(req[c], req[c].refs[k])]] \in Seq(Items)
    <3>1. req[c].refs \in Seq(Kinds)
      BY <1>1, ScenarioAssumption
    <3>2. DOMAIN req[c].refs = 1..Len(req[c].refs) /\ Len(req[c].refs) \in Nat
          /\ \A k \in 1..Len(req[c].refs) : req[c].refs[k] \in Kinds
      BY <3>1
    <3>3. \A q, k : parse_error(q, k) \in ItemCodes
      BY DEF parse_error, ItemCodes
    <3>4. \A k \in DOMAIN req[c].refs :
            [ref |-> req[c].refs[k], code |-> parse_error(req[c], req[c].refs[k])] \in Items
      BY <3>2, <3>3 DEF Items
    <3> QED
      BY <3>2, <3>4
  <2> QED
    BY <2>1 DEF Init
<1>3. Typed
  BY <1>1, <1>2 DEF Typed
<1>4. Len(log) = 0 /\ \A c : RowsOf(c) = {}
  BY <1>1 DEF RowsOf
<1>5. ChainIntact
  BY <1>4 DEF ChainIntact
<1>6. \A c \in Callers : pc[c] \in {0, 1}
  BY <1>1
<1>7. \A c \in Callers : \A x : ~Past(c, x)
  BY <1>6 DEF Past
<1>8. Chain
  <2>1. \A c \in ServerCalls : c \in Callers /\ ~At(c, "share")
    <3>1. SUFFICES ASSUME NEW c \in ServerCalls, At(c, "share") PROVE FALSE
      BY CallAssumption
    <3>2. c \in Callers /\ Running(c) /\ Step(c).do = "share"
      BY <3>1, CallAssumption DEF At
    <3>3. Careful(c, req[c], pc[c]) /\ Step(c) = req[c].steps[pc[c]]
      BY <1>3, <3>2, RunningStep
    <3>4. pc[c] > 1
      BY <3>2, <3>3 DEF Careful
    <3> QED
      BY <1>6, <3>2, <3>4
  <2>2. \A c \in Callers : c # NoOne
    BY CallAssumption
  <2> QED
    BY <1>1, <1>4, <1>7, <2>1, <2>2 DEF Chain
<1>9. ASSUME NEW c \in Callers
      PROVE  Silent(c) /\ Session(c) /\ Idle(c)
  <2>1. Quiet(c)
    BY <1>1, <1>4 DEF Quiet
  <2>2. answer[c] = Unanswered /\ \A j \in 1..Size(c) : ~(j < pc[c])
    BY <1>1, <1>6
  <2>3. Silent(c)
    BY <2>1, <2>2 DEF Silent
  <2>4. ~Has(c, "start") /\ ~Has(c, "end")
    BY <1>4 DEF Has
  <2>5. HasSession(c) => pc[c] <= Size(c) - 3
    BY <1>3, <1>6, SessionSteps
  <2>6. Size(c) \in Nat /\ pc[c] \in Nat
    BY <1>1, <1>6, ScenarioAssumption DEF Size
  <2>7. Session(c)
    BY <1>4, <2>4, <2>5, <2>6 DEF Session
  <2>8. Idle(c)
    BY <1>1 DEF Idle
  <2> QED
    BY <2>3, <2>7, <2>8
<1> QED
  BY <1>3, <1>5, <1>8, <1>9 DEF IInv

LEMMA CallIInv ==
  ASSUME IInv, NEW c \in Callers, Call(c)
  PROVE  IInv'
<1>1. Effect(c) /\ InOrder(c)
  BY CallEffect
<1>2. Typed /\ Chain /\ ChainIntact /\ Typed' /\ req' = req /\ Running(c)
  BY <1>1 DEF IInv, Effect
<1>3. Chain' /\ ChainIntact'
  BY <1>1, <1>2, ChainKept, ChainIntactKept
<1>4. \A d \in Callers : Silent(d)'
  BY <1>1, SilentKept
<1>5. \A d \in Callers : Session(d)'
  <2>1. \A d \in Callers \ {c} : Session(d)'
    BY <1>1, <1>2, OthersSession DEF IInv
  <2>2. Session(c)'
    BY <1>1, OwnSession
  <2> QED
    BY <2>1, <2>2
<1>6. \A d \in Callers : Idle(d)'
  <2>1. \A d \in Callers \ {c} : pc'[d] = pc[d]
    BY <1>1 DEF Effect, Apart
  <2>2. req[c].tool # "none"
    BY <1>2, RunningStep DEF IInv, Idle
  <2> QED
    BY <1>2, <2>1, <2>2 DEF IInv, Idle
<1> QED
  BY <1>2, <1>3, <1>4, <1>5, <1>6 DEF IInv

LEMMA Unmoved == ASSUME IInv, UNCHANGED vars PROVE IInv'
<1>1. UNCHANGED <<req, pc, items, done, answer, shared, via, mem, log, stored, asked, faults>>
  BY DEF vars, callVars
<1>2. Typed' /\ ChainIntact'
  BY <1>1 DEF IInv, Typed, ChainIntact
<1>3. Chain'
  BY <1>1 DEF IInv, Chain, Past, Size, At, Running, Step, WrittenBy
<1>4. ASSUME NEW c \in Callers PROVE Silent(c)' /\ Session(c)' /\ Idle(c)'
  <2>1. Silent(c) /\ Session(c) /\ Idle(c)
    BY DEF IInv
  <2>2. Silent(c)'
    BY <1>1, <2>1 DEF Silent, Past, Size, Quiet, RowsOf, Excused
  <2>3. Session(c)'
    BY <1>1, <2>1 DEF Session, Size, Has, HasSession, RowsOf, Clean, Failed, Unusable, Said
  <2> QED
    BY <1>1, <2>1, <2>2, <2>3 DEF Idle
<1> QED
  BY <1>2, <1>3, <1>4 DEF IInv

LEMMA Inductive == Spec => []IInv
<1>1. IInv /\ [Next]_vars => IInv'
  BY CallIInv, Unmoved DEF Next, Finished
<1> QED
  BY <1>1, InitIInv, PTL DEF Spec

-----------------------------------------------------------------------------
(* The theorems.                                                           *)

\* However the calls of the server interleave, and however often a command
\* reopens the log, the rows of one process are numbered in order: fetch_context
\* and OnceLock::set leave the server with one handle.
THEOREM OneChainPerProcess == Spec => []ChainIntact
<1>1. IInv => ChainIntact
  BY DEF IInv
<1> QED
  BY <1>1, Inductive, PTL

\* A dry run, and a call that its input refuses, asks nobody and leaves no trace
\* in the log, whatever its handler does later and whoever else is running.
THEOREM RefusedInSilence == Spec => []SilentUnlessAsked
<1>1. IInv => SilentUnlessAsked
  <2>1. SUFFICES ASSUME IInv, NEW c \in Callers, Excused(c)
                 PROVE  Quiet(c)
    BY DEF SilentUnlessAsked, Excused, Quiet
  <2>2. Typed /\ Silent(c)
    BY <2>1 DEF IInv
  <2>3. CASE pc[c] = 0
    BY <2>1, <2>2, <2>3 DEF Silent
  <2>4. CASE pc[c] # 0
    <3>1. answer[c].code \notin InputCodes
      BY <2>2, <2>4 DEF Silent, Unanswered, InputCodes
    <3>2. "dry" \in req[c].flags
      BY <2>1, <3>1 DEF Excused
    <3>3. ~Past(c, "open")
      <4>1. SUFFICES ASSUME Past(c, "open") PROVE FALSE
        OBVIOUS
      <4>2. PICK j \in 1..Size(c) : j < pc[c] /\ req[c].steps[j].do = "open"
        BY <4>1 DEF Past
      <4>3. Careful(c, req[c], j) /\ Size(c) \in Nat
        BY <2>2, <4>2, ScenarioAssumption DEF Typed, Size
      <4>4. PICK i \in 1..(j - 1) : Blocks(req[c].steps[i])
        BY <3>2, <4>2, <4>3 DEF Careful
      <4>5. i \in 1..Size(c) /\ i < pc[c]
        BY <2>2, <4>2, <4>3, <4>4 DEF Typed
      <4> QED
        BY <2>2, <2>4, <4>4, <4>5 DEF Silent
    <3> QED
      BY <2>2, <2>4, <3>3 DEF Silent
  <2> QED
    BY <2>3, <2>4
<1> QED
  BY <1>1, Inductive, PTL

\* A command exits 0 exactly when the session_end row it wrote says ok.
THEOREM ExitSaysWhatTheLogSays == Spec => []ExitTellsSession
<1>1. IInv => ExitTellsSession
  BY DEF IInv, Session, ExitTellsSession, Answered
<1> QED
  BY <1>1, Inductive, PTL

-----------------------------------------------------------------------------
(* The refinement.  Where a call is in its contract depends on its position *)
(* alone, and its verdict on whether its work was clean.                   *)

Where(c) ==
  IF pc[c] = 0 THEN IF req[c].tool # "none" THEN "told" ELSE "new"
  ELSE IF ~(HasSession(c) /\ pc[c] > Size(c) - 3) THEN "new"
  ELSE IF pc[c] = Size(c) THEN "judged" ELSE "open"
What(c) ==
  IF Where(c) = "told" THEN IF Said(c) THEN "ok" ELSE "err"
  ELSE IF Where(c) = "judged" THEN IF Clean(c) THEN "ok" ELSE "err"
  ELSE "none"
Mapped == \A c \in Callers : Phase(c) = Where(c) /\ Verdict(c) = What(c)

LEMMA PhaseIsWhere == IInv => Mapped
<1> SUFFICES ASSUME IInv, NEW c \in Callers PROVE Phase(c) = Where(c) /\ Verdict(c) = What(c)
  BY DEF Mapped
<1>1. Typed /\ Session(c) /\ pc[c] \in Nat
  BY DEF IInv, Typed
<1>2. Phase(c) = Where(c)
  <2>1. CASE pc[c] = 0
    BY <2>1 DEF Phase, Where, Answered
  <2>2. CASE pc[c] # 0 /\ ~(HasSession(c) /\ pc[c] > Size(c) - 3)
    BY <1>1, <2>2 DEF Phase, Where, Answered, Session
  <2>3. CASE pc[c] # 0 /\ HasSession(c) /\ pc[c] > Size(c) - 3
    <3>1. Has(c, "start") /\ pc[c] <= Size(c)
      BY <1>1, <2>3 DEF Session
    <3>2. Size(c) \in Nat /\ Size(c) > 3 /\ req[c].steps[Size(c) - 1].do = "end"
      BY <1>1, <2>3, SessionSteps
    <3>3. PastEnd(c) <=> pc[c] = Size(c)
      <4>1. ASSUME pc[c] = Size(c) PROVE PastEnd(c)
        <5>1. Size(c) - 1 \in 1..(pc[c] - 1)
          BY <3>2, <4>1
        <5> QED
          BY <3>2, <5>1 DEF PastEnd
      <4>2. ASSUME PastEnd(c) PROVE pc[c] = Size(c)
        <5>1. PICK j \in 1..(pc[c] - 1) : req[c].steps[j].do = "end"
          BY <4>2 DEF PastEnd
        <5>2. j \in 1..Size(c)
          BY <1>1, <3>1, <3>2
        <5>3. Bracketed(req[c], j)
          BY <1>1, <5>2, ScenarioAssumption DEF Typed, Size
        <5>4. j = Size(c) - 1
          BY <5>1, <5>3 DEF Bracketed, Size
        <5> QED
          BY <1>1, <3>1, <3>2, <5>4
      <4> QED
        BY <4>1, <4>2
    <3> QED
      BY <2>3, <3>1, <3>3 DEF Phase, Where, Answered
  <2> QED
    BY <2>1, <2>2, <2>3
<1>3. Where(c) = "judged" => (Judged(c) <=> Clean(c))
  <2>1. ASSUME Where(c) = "judged"
        PROVE  Judged(c) <=> Clean(c)
    <3>1. pc[c] # 0
      BY <2>1 DEF Where
    <3>2. \A k \in RowsOf(c) : log[k].event = "end" => (log[k].ok <=> Clean(c))
      BY <1>1, <3>1 DEF Session
    <3>3. CASE Has(c, "end")
      BY <3>2, <3>3 DEF Judged, EndRowOk, Has
    <3>4. CASE ~Has(c, "end")
      BY <3>4 DEF Judged, Clean
    <3> QED
      BY <3>3, <3>4
  <2> QED
    BY <2>1
<1>4. Verdict(c) = What(c)
  BY <1>2, <1>3 DEF Verdict, What
<1> QED
  BY <1>2, <1>4

\* Only the call that takes a step moves, and as the contract says.
LEMMA ContractMoves ==
  ASSUME IInv, NEW c \in Callers, Effect(c), InOrder(c)
  PROVE  /\ \A d \in Callers \ {c} : Where(d)' = Where(d) /\ What(d)' = What(d)
         /\ \/ Where(c)' = Where(c) /\ What(c)' = What(c)
            \/ Where(c) = "new" /\ Where(c)' = "open" /\ What(c)' = What(c)
            \/ Where(c) = "open" /\ Where(c)' = "judged" /\ What(c)' \in {"ok", "err"}
            \/ Where(c) = "judged" /\ Where(c)' = "told" /\ What(c)' = What(c)
            \/ Where(c) = "new" /\ Where(c)' = "told" /\ What(c)' \in {"ok", "err"}
<1> DEFINE n == Size(c)
<1>1. /\ Typed /\ Session(c) /\ Running(c) /\ req' = req /\ pc' \in [Callers -> Nat]
  BY DEF IInv, Effect, Typed
<1>2. pc[c] \in 1..n /\ n \in Nat /\ pc[c] # 0 /\ req[c].tool # "none"
  BY <1>1, RunningStep DEF IInv, Idle
<1>3. ASSUME NEW d \in Callers \ {c}
      PROVE  Where(d)' = Where(d) /\ What(d)' = What(d)
  <2>1. /\ pc'[d] = pc[d] /\ answer'[d] = answer[d] /\ done'[d] = done[d] /\ items'[d] = items[d]
    BY DEF Effect, Apart
  <2>2. (Clean(d)' <=> Clean(d)) /\ (Said(d)' <=> Said(d))
    BY <2>1 DEF Clean, Failed, Unusable, Said
  <2>3. Where(d)' = Where(d)
    BY <1>1, <2>1 DEF Where, HasSession, Size
  <2> QED
    BY <2>2, <2>3 DEF What
<1>4. Size(c)' = n /\ (HasSession(c)' <=> HasSession(c))
  BY <1>1 DEF Size, HasSession
<1>5. HasSession(c) =>
         /\ n > 3
         /\ pc[c] < n - 3 => pc'[c] <= n - 3
         /\ pc[c] = n - 3 => pc'[c] = n - 2 \/ pc'[c] = 0
         /\ pc[c] = n - 2 => pc'[c] \in {n - 2, n - 1}
         /\ pc[c] = n - 1 => pc'[c] = n /\ UNCHANGED <<done, items>>
         /\ pc[c] = n => pc'[c] = 0 /\ UNCHANGED <<done, items>> /\ answer'[c] = Result(c, Step(c).form, Statuses)
  BY <1>1, <1>2, SessionMoves DEF HasSession
<1> HIDE DEF n
<1>6. ASSUME pc'[c] = 0
      PROVE  Where(c)' = "told" /\ What(c)' = (IF Said(c)' THEN "ok" ELSE "err")
  BY <1>1, <1>2, <1>6 DEF Where, What
<1>7. CASE ~HasSession(c) \/ pc[c] < n - 3
  <2>1. Where(c) = "new" /\ What(c) = "none"
    BY <1>2, <1>7 DEF Where, What, n
  <2>2. CASE pc'[c] = 0
    BY <1>3, <1>6, <2>1, <2>2
  <2>3. CASE pc'[c] # 0
    <3>1. ~HasSession(c) \/ pc'[c] <= n - 3
      BY <1>5, <1>7
    <3>2. Where(c)' = "new"
      BY <1>1, <1>2, <1>4, <2>3, <3>1 DEF Where
    <3> QED
      BY <1>3, <2>1, <3>2 DEF What
  <2> QED
    BY <2>2, <2>3
<1>8. CASE HasSession(c) /\ pc[c] = n - 3
  <2>1. Where(c) = "new" /\ What(c) = "none"
    BY <1>2, <1>8 DEF Where, What, n
  <2>2. CASE pc'[c] = 0
    BY <1>3, <1>6, <2>1, <2>2
  <2>3. CASE pc'[c] = n - 2
    <3>1. Where(c)' = "open"
      BY <1>2, <1>4, <1>5, <1>8, <2>3 DEF Where
    <3> QED
      BY <1>3, <2>1, <3>1 DEF What
  <2> QED
    BY <1>5, <1>8, <2>2, <2>3
<1>9. CASE HasSession(c) /\ pc[c] = n - 2
  <2>1. Where(c) = "open" /\ What(c) = "none"
    BY <1>2, <1>9 DEF Where, What, n
  <2>2. Where(c)' = "open"
    BY <1>2, <1>4, <1>5, <1>9 DEF Where
  <2> QED
    BY <1>3, <2>1, <2>2 DEF What
<1>10. CASE HasSession(c) /\ pc[c] = n - 1
  <2>1. Where(c) = "open"
    BY <1>2, <1>10 DEF Where, n
  <2>2. Where(c)' = "judged"
    BY <1>2, <1>4, <1>5, <1>10 DEF Where
  <2> QED
    BY <1>3, <2>1, <2>2 DEF What
<1>11. CASE HasSession(c) /\ pc[c] = n
  <2>1. Where(c) = "judged" /\ What(c) = (IF Clean(c) THEN "ok" ELSE "err")
    BY <1>2, <1>11 DEF Where, What, n
  <2>2. pc'[c] = 0 /\ answer'[c] = Result(c, Step(c).form, Statuses)
    BY <1>5, <1>11
  <2>3. /\ Clean(c) => answer'[c] = Success
        /\ ~Clean(c) => ~(answer'[c].ok /\ answer'[c].code = "none" /\ answer'[c].failed = 0)
    BY <1>1, <2>2, ResultTells
  <2>4. Said(c)' <=> Clean(c)
    BY <2>3 DEF Said, Success
  <2>5. What(c)' = What(c) /\ Where(c)' = "told"
    BY <1>6, <2>1, <2>2, <2>4
  <2> QED
    BY <1>3, <2>1, <2>5
<1> QED
  BY <1>2, <1>7, <1>8, <1>9, <1>10, <1>11

LEMMA ContractInit == ASSUME Init, IInv, Mapped PROVE Promise!Init
<1>1. \A c \in Callers : Where(c) = "new" /\ What(c) = "none"
  <2>1. SUFFICES ASSUME NEW c \in Callers PROVE Where(c) = "new"
    BY DEF What
  <2>2. pc[c] = (IF req[c].tool = "none" THEN 0 ELSE 1)
    BY DEF Init
  <2>3. HasSession(c) => Size(c) \in Nat /\ Size(c) > 3
    BY SessionSteps DEF IInv
  <2> QED
    BY <2>2, <2>3 DEF Where
<1> QED
  BY <1>1 DEF Promise!Init, Mapped

LEMMA ContractStep ==
  ASSUME IInv, Mapped, Mapped', [Next]_vars
  PROVE  [Promise!Next]_(Promise!contractVars)
<1> DEFINE phase == [c \in Callers |-> Phase(c)]
           verdict == [c \in Callers |-> Verdict(c)]
<1>1. /\ phase = [c \in Callers |-> Where(c)] /\ phase' = [c \in Callers |-> Where(c)']
      /\ verdict = [c \in Callers |-> What(c)] /\ verdict' = [c \in Callers |-> What(c)']
  BY DEF Mapped
<1>2. CASE UNCHANGED vars
  <2>1. UNCHANGED <<req, pc, items, done, answer>>
    BY <1>2 DEF vars, callVars
  <2>2. \A c \in Callers : Where(c)' = Where(c) /\ What(c)' = What(c)
    BY <2>1 DEF Where, What, HasSession, Size, Clean, Failed, Unusable, Said
  <2>3. phase' = phase /\ verdict' = verdict
    BY <1>1, <2>2
  <2> QED
    BY <2>3 DEF Promise!contractVars
<1>3. CASE \E c \in Callers : Call(c)
  <2>1. PICK c \in Callers : Call(c)
    BY <1>3
  <2>2. Effect(c) /\ InOrder(c)
    BY <2>1, CallEffect
  <2>3. \A d \in Callers \ {c} : Where(d)' = Where(d) /\ What(d)' = What(d)
    BY <2>2, ContractMoves
  <2>4. \/ Where(c)' = Where(c) /\ What(c)' = What(c)
        \/ Where(c) = "new" /\ Where(c)' = "open" /\ What(c)' = What(c)
        \/ Where(c) = "open" /\ Where(c)' = "judged" /\ What(c)' \in {"ok", "err"}
        \/ Where(c) = "judged" /\ Where(c)' = "told" /\ What(c)' = What(c)
        \/ Where(c) = "new" /\ Where(c)' = "told" /\ What(c)' \in {"ok", "err"}
    BY <2>2, ContractMoves
  <2>5. phase[c] = Where(c) /\ verdict[c] = What(c)
    BY <1>1
  <2>6. phase' = [phase EXCEPT ![c] = Where(c)'] /\ verdict' = [verdict EXCEPT ![c] = What(c)']
    <3> HIDE DEF phase, verdict
    <3>1. \A d \in Callers : Where(d)' = IF d = c THEN Where(c)' ELSE Where(d)
      BY <2>3
    <3>2. \A d \in Callers : What(d)' = IF d = c THEN What(c)' ELSE What(d)
      BY <2>3
    <3>3. phase' = [phase EXCEPT ![c] = Where(c)']
      BY <1>1, <3>1
    <3>4. verdict' = [verdict EXCEPT ![c] = What(c)']
      BY <1>1, <3>2
    <3> QED
      BY <3>3, <3>4
  <2>7. What(c)' = What(c) => verdict' = verdict
    BY <1>1, <2>3
  <2>8. CASE Where(c)' = Where(c) /\ What(c)' = What(c)
    <3>1. phase' = phase /\ verdict' = verdict
      BY <1>1, <2>3, <2>8
    <3> QED
      BY <3>1 DEF Promise!contractVars
  <2>9. CASE Where(c) = "new" /\ Where(c)' = "open" /\ What(c)' = What(c)
    BY <2>5, <2>6, <2>7, <2>9 DEF Promise!Next, Promise!Begin
  <2>10. CASE Where(c) = "open" /\ Where(c)' = "judged" /\ What(c)' \in {"ok", "err"}
    BY <2>5, <2>6, <2>10 DEF Promise!Next, Promise!Judge, Promise!Verdicts
  <2>11. CASE Where(c) = "judged" /\ Where(c)' = "told" /\ What(c)' = What(c)
    BY <2>5, <2>6, <2>7, <2>11 DEF Promise!Next, Promise!Tell
  <2>12. CASE Where(c) = "new" /\ Where(c)' = "told" /\ What(c)' \in {"ok", "err"}
    BY <2>5, <2>6, <2>12 DEF Promise!Next, Promise!TellAtOnce, Promise!Verdicts
  <2> QED
    BY <2>4, <2>8, <2>9, <2>10, <2>11, <2>12
<1> QED
  BY <1>2, <1>3 DEF Next, Finished

\* Every handler keeps the contract of CallContract: it never answers from inside
\* a session, and what it answers is what the end row of the session says.
THEOREM CallsKeepContract == Spec => KeepsContract
<1>1. Init /\ IInv /\ Mapped => Promise!Init
  BY ContractInit
<1>2. IInv /\ Mapped /\ Mapped' /\ [Next]_vars => [Promise!Next]_(Promise!contractVars)
  BY ContractStep
<1> QED
  BY <1>1, <1>2, Inductive, PhaseIsWhere, PTL DEF Spec, KeepsContract, Promise!Spec
=============================================================================
