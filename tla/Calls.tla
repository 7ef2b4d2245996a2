------------------------------- MODULE Calls -------------------------------
(***************************************************************************)
(* The calls that reach doiget: the tool handlers of one MCP server, which *)
(* run concurrently in one process, and CLI commands, each a process of    *)
(* its own.  All of them share the provenance log and the store on disk.   *)
(*                                                                         *)
(* A handler is straight-line code with early returns.  It is given by the *)
(* sequence of its steps (Program); this module says what a step of each   *)
(* kind does, so that steps of different calls interleave.  McpTools and   *)
(* CliCommands hold the programs.                                          *)
(*                                                                         *)
(* A log handle caches the next sequence number when it is opened and      *)
(* never reads the file again (ProvenanceLog has the details): rows are    *)
(* chained only if the handles in use do not overlap.  A row is appended   *)
(* as a whole or not at all here.                                          *)
(***************************************************************************)
EXTENDS Integers, Sequences, FiniteSets

CONSTANTS
  Callers,     \* calls made in a behaviour, one request each, or none ("none")
  ServerCalls, \* those that are tool calls of the one MCP server
  Scenarios,   \* what the callers may ask together: caller -> request
  Stored,      \* the refs that may have an entry in the store beforehand
  NoOne,       \* "no log handle"
  Errors,      \* the error codes a source's answer may come to
  MaxFaults    \* bound: failures of the environment in a behaviour

\* What a ref or a bibliography entry is; "query" is free text or nothing.
Kinds == {"doi", "arxiv", "pmid", "query", "bad", "noid", "software", "isbn"}

\* The ParseErrors that make an entry unusable, by the code they are given.
\* Only cite and verify know what to do with a GitHub URL.
parse_error(q, kind) ==
  CASE kind \in {"bad", "noid"} -> "INVALID_REF"
    [] kind = "isbn" \/ (kind = "software" /\ q.tool \notin {"cite", "verify"})
                                -> "NOT_IMPLEMENTED"
    [] OTHER                    -> "none"
\* kind is "clean", "blocked" (a free copy was refused; denied if by policy),
\* "err", or "absent" for an entry the store does not have.  The code "ANYHOW"
\* stands for an error without one, "USAGE" for a misused command line.
Outcome(kind, code, denied) == [kind |-> kind, code |-> code, denied |-> denied]

ASSUME CallAssumption ==
  /\ ServerCalls \subseteq Callers /\ NoOne \notin Callers
  /\ MaxFaults \in Nat /\ Stored \subseteq Kinds
  \* A source is asked about a ref that parses.
  /\ Errors \subseteq STRING \ {"INVALID_REF", "NOT_IMPLEMENTED"}

VARIABLES
  req,     \* caller -> its request: [tool, refs, flags, steps]
  pc,      \* caller -> the step it is at; 0 once it is answered
  items,   \* caller -> its refs as parsed: [ref, code], code "none" if usable
  done,    \* caller -> the outcomes of its work so far
  answer,  \* caller -> what it was told: [ok, code, failed, exit]
  shared,  \* Server.log, the OnceLock: the caller whose handle it holds
  via,     \* caller -> the handle it appends through, named by its opener
  mem,     \* handle -> LogState.next_seq
  log,     \* the rows on disk
  stored,  \* the refs that have an entry in the store
  asked,   \* caller -> requests sent
  faults   \* failures so far

callVars == <<req, pc, items, done, answer>>
vars == <<callVars, shared, via, mem, log, stored, asked, faults>>

Success == [ok |-> TRUE, code |-> "none", failed |-> 0, exit |-> 0]
Unanswered == [ok |-> FALSE, code |-> "unanswered", failed |-> 0, exit |-> 0]

-----------------------------------------------------------------------------
(* The steps a program is made of.                                         *)

Require(ok, code) == [do |-> "require", ok |-> ok, code |-> code]
Return(now) == [do |-> "return", now |-> now, failing |-> 0]
\* The end of a command whose exit status is a number of findings.
Exit(failing) == [do |-> "return", now |-> TRUE, failing |-> failing]
\* Something of the environment: a path, a client, the store.
Needs(code) == [do |-> "needs", code |-> code]
OpenLog(code) == [do |-> "open", code |-> code]
Share == [do |-> "share"]
\* event is "start", or "ncbi_start" for the session of the lookups.
Start(event, code) == [do |-> "start", event |-> event, code |-> code]
\* One NCBI lookup for every PubMed id at the positions ks.
Look(ks) == [do |-> "look", ks |-> ks]
\* single: the session of one lookup fails with it; the session of a list only
\* for want of a row.
LookEnd(single, code) == [do |-> "lookend", single |-> single, code |-> code]
\* Give up if a ref at one of the positions ks is unusable.
Settle(ks) == [do |-> "settle", ks |-> ks]
\* kind is "fetch", "metadata", "query", "unlogged", "add", or "missing", which
\* asks only about what is not on disk.  An error with a code in fatal ends
\* the call, and so does a lookup without its row if LOG_ERROR is one of them.
WorkUntil(kind, fatal) == [do |-> "work", kind |-> kind, fatal |-> fatal]
Work(kind) == WorkUntil(kind, {})
\* A failed question is answered from the store, or ends the call.
Fallback == [do |-> "fallback"]
\* A question whose failure is only noted.
Aside == [do |-> "aside"]
\* FsStore::read of every ref; absent is the code of a missing entry.
Read(absent) == [do |-> "read", absent |-> absent]
Stop == [do |-> "stop"]
Edit == [do |-> "edit"]
\* coded: the row carries the error's code.
End(coded) == [do |-> "end", coded |-> coded]
\* form is "one" (the outcome is the answer), "many" and "entries" (a list of
\* outcomes, or their number as exit status) or "plain" (any error exits 1).
\* counts: the statuses that count as failures.
Statuses == {"valid", "illegal", "absent", "unreachable", "unverifiable"}
Tally(counts) == [do |-> "reply", form |-> "many", counts |-> counts]
Reply(form) == [do |-> "reply", form |-> form, counts |-> Statuses]

-----------------------------------------------------------------------------
(* What every handler sees to in the order of its steps.                   *)

\* A step that the call does not get past.
Blocks(s) == (s.do = "return" /\ s.now) \/ (s.do = "require" /\ ~s.ok)
\* A step that may ask a source or append a row.
Sends(q, s) ==
  \/ s.do \in {"start", "look", "lookend", "aside", "end"}
  \/ s.do = "work" /\ ~(s.kind = "missing" /\ "offline" \in q.flags)
OpensSession(s) == s.do = "start" /\ s.event = "start"
\* The codes of a call that is refused for its input, and the steps that refuse.
InputCodes == {"INVALID_REF", "NOT_IMPLEMENTED"}
Refuses(s) ==
  s.do = "settle" \/ (s.do \in {"require", "needs", "open", "start", "lookend"} /\ s.code \in InputCodes)
Before(q, i, do) == \E j \in 1..(i - 1) : q.steps[j].do = do

\* Nothing is sent before there is a log handle, which a tool call publishes at
\* once.  A dry run answers, and a call with a ref that needs no lookup is
\* refused, before that.
Careful(c, q, i) ==
  LET s == q.steps[i] IN
  /\ Sends(q, s) => Before(q, i, IF c \in ServerCalls THEN "share" ELSE "open")
  /\ s.do = "open" /\ c \in ServerCalls => i < Len(q.steps) /\ q.steps[i + 1].do = "share"
  /\ s.do = "share" => c \in ServerCalls /\ i > 1 /\ q.steps[i - 1].do = "open"
  /\ s.do = "open" /\ "dry" \in q.flags => \E j \in 1..(i - 1) : Blocks(q.steps[j])
  /\ Refuses(s) /\ (\A k \in DOMAIN q.refs : q.refs[k] # "pmid") => ~Before(q, i, "open")
  /\ s.do = "read" => s.absent \in {"none", "STORE_ERROR", "ANYHOW"}

\* A session is the end of its call: the work, the end row and the answer.
Bracketed(q, i) ==
  LET s == q.steps[i]
      n == Len(q.steps)
  IN /\ s.do = "start" => s.event \in {"start", "ncbi_start"}
     /\ OpensSession(s) =>
          /\ i = n - 3 /\ q.steps[n - 2].do = "work" /\ q.steps[n - 2].fatal = {}
          /\ q.steps[n - 1].do = "end" /\ q.steps[n].do = "reply" /\ q.steps[n].counts = Statuses
     /\ s.do = "end" => i = n - 1 /\ n > 3 /\ OpensSession(q.steps[n - 3])

ASSUME ScenarioAssumption ==
  \A scene \in Scenarios : DOMAIN scene = Callers /\ \A c \in Callers :
    LET q == scene[c] IN
    /\ q.refs \in Seq(Kinds) /\ Len(q.steps) \in Nat
    /\ \A i \in 1..Len(q.steps) : Careful(c, q, i) /\ Bracketed(q, i)

-----------------------------------------------------------------------------
(* Codes and statuses.                                                     *)

\* ErrorCode -> exit status; 2 is also what a command gives a misuse itself.
cli_exit_code(code) ==
  CASE code = "CAPABILITY_DENIED"            -> 3
    [] code \in {"STORE_ERROR", "LOG_ERROR"} -> 4
    [] code = "FETCH_TIMEOUT"                -> 124
    [] code \in {"AMBIGUOUS", "INVALID_REF", "USAGE"} -> 2
    [] OTHER                                 -> 1

MaxExit == 255

\* FetchPaperOutcome::reported_error_code, the CLI's effective_blocked_code: a
\* refusal by policy is a denial whatever error it was recorded as.
reported_error_code(o) == IF o.denied THEN "CAPABILITY_DENIED" ELSE o.code

\* FetchPaperOutcome::is_clean_success.
is_clean_success(o) == o.kind \notin {"blocked", "err"}

Failed(c) == {k \in 1..Len(done[c]) : ~is_clean_success(done[c][k])}
Unusable(c) == {k \in 1..Len(items[c]) : items[c][k].code # "none"}
\* VerifyStatus, of an entry that was not asked about and of an answer.
entry_status(it) ==
  CASE it.ref = "bad"                                        -> "illegal"
    [] it.ref \in {"noid", "isbn", "software"}               -> "unverifiable"
    [] it.ref = "pmid" /\ it.code = "NOT_FOUND"              -> "absent"
    [] it.ref = "pmid" /\ it.code = "NOT_IMPLEMENTED"        -> "unverifiable"
    [] OTHER                                                 -> "unreachable"
answer_status(o) == CASE is_clean_success(o) -> "valid"
                      [] o.code = "NOT_FOUND" -> "absent"
                      [] OTHER -> "unreachable"

First(S) == CHOOSE k \in S : \A j \in S : k <= j
FirstCode(c) == IF Failed(c) = {} THEN "none"
                ELSE reported_error_code(done[c][First(Failed(c))])

-----------------------------------------------------------------------------
(* What a step may change.                                                 *)

Running(c) == pc[c] > 0 /\ pc[c] <= Len(req[c].steps)
Step(c) == req[c].steps[pc[c]]
At(c, do) == Running(c) /\ Step(c).do = do

Advance(c) == pc' = [pc EXCEPT ![c] = @ + 1] /\ UNCHANGED answer

\* The MCP error envelope, or the process's exit status.
Refusal(c, code) ==
  [ok |-> FALSE, code |-> code, failed |-> 0,
   exit |-> IF c \in ServerCalls THEN 0 ELSE cli_exit_code(code)]
Tell(c, a) == pc' = [pc EXCEPT ![c] = 0] /\ answer' = [answer EXCEPT ![c] = a]
Fail(c, code) == Tell(c, Refusal(c, code))

Fault == faults < MaxFaults /\ faults' = faults + 1
NoFault == UNCHANGED faults

Row(c, event, ok, code) ==
  [seq |-> mem[via[c]], by |-> c, event |-> event, ok |-> ok, code |-> code]
Append1(c, event, ok, code) ==
  /\ log' = Append(log, Row(c, event, ok, code))
  /\ mem' = [mem EXCEPT ![via[c]] = @ + 1]
NoRow == UNCHANGED <<log, mem>>

Init ==
  /\ req \in Scenarios
  /\ pc = [c \in Callers |-> IF req[c].tool = "none" THEN 0 ELSE 1]
  /\ items = [c \in Callers |-> [k \in DOMAIN req[c].refs |->
                 [ref |-> req[c].refs[k], code |-> parse_error(req[c], req[c].refs[k])]]]
  /\ done = [c \in Callers |-> <<>>]
  /\ answer = [c \in Callers |-> Unanswered]
  /\ shared = NoOne /\ via = [c \in Callers |-> NoOne]
  /\ mem = [c \in Callers |-> 0] /\ log = <<>>
  /\ stored \in SUBSET Stored /\ asked = [c \in Callers |-> 0] /\ faults = 0

-----------------------------------------------------------------------------
(* One action per kind of step.                                            *)

logVars == <<shared, via, mem, log>>

\* An early return on the input alone.
Check(c) ==
  /\ At(c, "require")
  /\ IF Step(c).ok THEN Advance(c) ELSE Fail(c, Step(c).code)
  /\ UNCHANGED <<req, items, done, logVars, stored, asked, faults>>

\* A dry run answers with its plan, which costs nothing.
Counted(n) ==
  IF n = 0 THEN Success
  ELSE [ok |-> FALSE, code |-> "none", failed |-> n,
        exit |-> IF n > MaxExit THEN MaxExit ELSE n]

\* Mutant: a dry run shows its plan and the call goes on.
PreviewGoesOn(c) ==
  /\ At(c, "return")
  /\ IF Step(c).now /\ "dry" \notin req[c].flags
     THEN Tell(c, Counted(Step(c).failing))
     ELSE Advance(c)
  /\ UNCHANGED <<req, items, done, logVars, stored, asked, faults>>

Preview(c) ==
  /\ At(c, "return")
  /\ IF Step(c).now
     THEN Tell(c, Counted(Step(c).failing))
     ELSE Advance(c)
  /\ UNCHANGED <<req, items, done, logVars, stored, asked, faults>>

Prepare(c) ==
  /\ At(c, "needs")
  /\ \/ Advance(c) /\ NoFault
     \/ Fail(c, Step(c).code) /\ Fault
  /\ UNCHANGED <<req, items, done, logVars, stored, asked>>

\* ProvenanceLog::open, by a process that has no handle: it reads next_seq off
\* the file.  fetch_context takes the server's handle when there is one, and
\* then has nothing to publish.
Open(c) ==
  /\ At(c, "open")
  /\ \/ /\ c \in ServerCalls /\ shared # NoOne
        /\ via' = [via EXCEPT ![c] = shared]
        /\ pc' = [pc EXCEPT ![c] = @ + 2]
        /\ NoFault /\ UNCHANGED <<mem, answer>>
     \/ /\ c \in ServerCalls => shared = NoOne
        /\ via' = [via EXCEPT ![c] = c]
        /\ mem' = [mem EXCEPT ![c] = Len(log) + 1]
        /\ Advance(c) /\ NoFault
     \/ /\ c \in ServerCalls => shared = NoOne
        /\ Fail(c, Step(c).code) /\ Fault /\ UNCHANGED <<via, mem>>
  /\ UNCHANGED <<req, items, done, shared, log, stored, asked>>

\* Mutant: a call that lost the race keeps the handle it opened.
PublishOwn(c) ==
  /\ At(c, "share")
  /\ shared' = IF shared = NoOne THEN c ELSE shared
  /\ Advance(c)
  /\ UNCHANGED <<req, items, done, via, mem, log, stored, asked, faults>>

\* OnceLock::set, then whichever handle landed: a racing call may have won.
Publish(c) ==
  /\ At(c, "share")
  /\ shared' = IF shared = NoOne THEN c ELSE shared
  /\ via' = [via EXCEPT ![c] = shared']
  /\ Advance(c)
  /\ UNCHANGED <<req, items, done, mem, log, stored, asked, faults>>

\* The SessionStart row: without it the call does not go on.
SessionStart(c) ==
  /\ At(c, "start")
  /\ \/ Append1(c, Step(c).event, TRUE, "none") /\ Advance(c) /\ NoFault
     \/ NoRow /\ Fail(c, Step(c).code) /\ Fault
  /\ UNCHANGED <<req, items, done, shared, via, stored, asked>>

\* pubmed::lookup, for each PubMed id in turn.  NCBI's answer may have no record,
\* no DOI, or not be JSON, of which no row is written; a row that cannot be
\* appended ends the list.
Pending(c) == {k \in DOMAIN items[c] : k \in Step(c).ks /\ items[c][k].ref = "pmid"
                                         /\ items[c][k].code = "none"}
LogLost(c) == \E k \in DOMAIN items[c] : items[c][k].code = "LOG_ERROR"
Found(c, k, ref, code) == items' = [items EXCEPT ![c][k] = [ref |-> ref, code |-> code]]

LookUp(c) ==
  /\ At(c, "look")
  /\ IF Pending(c) = {} \/ LogLost(c)
     THEN Advance(c) /\ NoRow /\ NoFault /\ UNCHANGED <<items, asked>>
     ELSE LET k == First(Pending(c)) IN
       /\ asked' = [asked EXCEPT ![c] = @ + 1]
       /\ \/ Found(c, k, "doi", "none") /\ Append1(c, "lookup", TRUE, "none") /\ NoFault
          \/ Found(c, k, "pmid", "NOT_FOUND") /\ Append1(c, "lookup", TRUE, "NOT_FOUND") /\ NoFault
          \/ Found(c, k, "pmid", "NOT_IMPLEMENTED") /\ Append1(c, "lookup", TRUE, "none") /\ NoFault
          \/ \E e \in Errors : Found(c, k, "pmid", e) /\ Append1(c, "lookup", FALSE, e) /\ NoFault
          \/ Found(c, k, "pmid", "INTERNAL_ERROR") /\ NoRow /\ NoFault
          \/ Found(c, k, "pmid", "LOG_ERROR") /\ NoRow /\ Fault
       /\ UNCHANGED <<pc, answer>>
  /\ UNCHANGED <<req, done, shared, via, stored>>

\* The closing bookend of the lookups, which the call does not go on without.
LookupsEnd(c) ==
  /\ At(c, "lookend")
  /\ LET errs == Errors \cup {"INTERNAL_ERROR", "LOG_ERROR"}
         ok == IF Step(c).single THEN \A k \in Unusable(c) : items[c][k].code \notin errs
               ELSE ~LogLost(c)
     IN \/ /\ Append1(c, "ncbi_end", ok, "none") /\ NoFault
           /\ IF LogLost(c) THEN Fail(c, Step(c).code) ELSE Advance(c)
        \/ NoRow /\ Fail(c, Step(c).code) /\ Fault
  /\ UNCHANGED <<req, items, done, shared, via, stored, asked>>

Settled(c) ==
  /\ At(c, "settle")
  /\ LET bad == Unusable(c) \cap Step(c).ks IN
     IF bad # {} THEN Fail(c, items[c][First(bad)].code) ELSE Advance(c)
  /\ UNCHANGED <<req, items, done, logVars, stored, asked, faults>>

Todo(c) == SelectSeq(items[c], LAMBDA it : it.code = "none")
Note(c, o) == done' = [done EXCEPT ![c] = Append(@, o)]

\* The work on one ref: fetch_paper_with, metadata_only_to_store, or a question
\* to a source.  Only the first two write the store, and a copy that is refused
\* leaves its metadata there.  A row that cannot be appended is an error of the
\* work, before or after the entry was written.
WorkOutcomes(kind) ==
  {Outcome("clean", "none", FALSE)} \cup {Outcome("err", e, FALSE) : e \in Errors}
    \cup CASE kind = "fetch" -> {Outcome("blocked", "NETWORK_ERROR", FALSE),
                                  Outcome("blocked", "CAPABILITY_DENIED", TRUE)}
           [] kind = "add" -> {Outcome("err", "USAGE", FALSE)}
           [] OTHER -> {}

\* missing: in_store or local_file is nothing to ask about; --offline asks nobody.
OnDisk(c, ref) == ref \in stored \/ "local" \in req[c].flags
Broken(c) == \/ LogLost(c) /\ "LOG_ERROR" \in Step(c).fatal
             \/ \E k \in Failed(c) : done[c][k].code \in Step(c).fatal

Ask(c, kind, entry) ==
  /\ asked' = [asked EXCEPT ![c] = @ + 1]
  /\ \/ \E o \in WorkOutcomes(kind) :
          /\ Note(c, IF kind = "missing" THEN [o EXCEPT !.kind = "err"] ELSE o)
          /\ stored' = IF o.kind = "err" THEN stored ELSE stored \cup entry
          /\ \/ kind # "unlogged" /\ Append1(c, "work", o.kind # "err", o.code)
             \/ (kind = "unlogged" \/ o.kind = "err") /\ NoRow
          /\ NoFault
     \/ /\ kind # "unlogged" /\ Note(c, Outcome("err", "LOG_ERROR", FALSE))
        /\ stored' \in {stored, stored \cup entry}
        /\ NoRow /\ Fault

DoWork(c) ==
  /\ At(c, "work")
  /\ CASE Broken(c) ->
            Fail(c, "ANYHOW") /\ NoRow /\ NoFault /\ UNCHANGED <<done, stored, asked>>
       [] ~Broken(c) /\ Len(done[c]) = Len(Todo(c)) ->
            Advance(c) /\ NoRow /\ NoFault /\ UNCHANGED <<done, stored, asked>>
       [] OTHER ->
            LET kind == Step(c).kind
                ref == Todo(c)[Len(done[c]) + 1].ref
                entry == IF kind \in {"fetch", "metadata", "add"} THEN {ref} ELSE {}
            IN /\ \/ /\ kind = "missing" => "offline" \notin req[c].flags
                     /\ Ask(c, kind, entry)
                  \/ /\ kind = "missing"
                     /\ \/ OnDisk(c, ref) /\ Note(c, Outcome("clean", "none", FALSE))
                        \/ "offline" \in req[c].flags /\ Note(c, Outcome("err", "none", FALSE))
                     /\ NoRow /\ NoFault /\ UNCHANGED <<stored, asked>>
               /\ UNCHANGED <<pc, answer>>
  /\ UNCHANGED <<req, items, shared, via>>

\* cite: from the store when the question failed.
FallBack(c) ==
  /\ At(c, "fallback")
  /\ \/ Failed(c) = {} /\ Advance(c) /\ NoFault
     \/ /\ Failed(c) # {} /\ NoFault
        /\ IF items[c][1].ref \in stored THEN Tell(c, Success) ELSE Fail(c, "ANYHOW")
     \/ Failed(c) # {} /\ Fail(c, "ANYHOW") /\ Fault
  /\ UNCHANGED <<req, items, done, logVars, stored, asked>>

AskAside(c) ==
  /\ At(c, "aside") /\ Advance(c)
  /\ \/ NoRow /\ NoFault /\ UNCHANGED asked
     \/ /\ asked' = [asked EXCEPT ![c] = @ + 1]
        /\ \/ \E ok \in BOOLEAN : Append1(c, "work", ok, "none") /\ NoFault
           \/ NoRow /\ Fault
  /\ UNCHANGED <<req, items, done, shared, via, stored>>

\* FsStore::read of each ref.
DoRead(c) ==
  /\ At(c, "read")
  /\ IF Len(done[c]) = Len(Todo(c))
     THEN Advance(c) /\ NoFault /\ UNCHANGED done
     ELSE LET ref == Todo(c)[Len(done[c]) + 1].ref IN
       /\ \/ /\ NoFault
             /\ Note(c, CASE ref \in stored \cup {"query"} -> Outcome("clean", "none", FALSE)
                          [] ref \notin stored \cup {"query"} /\ Step(c).absent = "none"
                               -> Outcome("absent", "none", FALSE)
                          [] OTHER -> Outcome("err", Step(c).absent, FALSE))
          \/ Fault /\ Note(c, Outcome("err", IF c \in ServerCalls THEN "STORE_ERROR"
                                             ELSE "ANYHOW", FALSE))
       /\ UNCHANGED <<pc, answer>>
  /\ UNCHANGED <<req, items, logVars, stored, asked>>

GiveUp(c) ==
  /\ At(c, "stop")
  /\ IF Failed(c) # {} THEN Fail(c, FirstCode(c)) ELSE Advance(c)
  /\ UNCHANGED <<req, items, done, logVars, stored, asked, faults>>

\* write_user_authored; FsStore says what it does to the entry.
DoEdit(c) ==
  /\ At(c, "edit") /\ Advance(c)
  /\ \/ NoFault /\ Note(c, Outcome("clean", "none", FALSE))
     \/ Fault /\ Note(c, Outcome("err", "STORE_ERROR", FALSE))
  /\ UNCHANGED <<req, items, logVars, stored, asked>>

\* Mutant: a refused copy is a session that ended well.
SessionEndLenient(c) ==
  /\ At(c, "end") /\ Advance(c)
  /\ \/ /\ Append1(c, "end", (\A k \in Failed(c) : done[c][k].kind = "blocked") /\ Unusable(c) = {},
                    IF Step(c).coded THEN FirstCode(c) ELSE "none")
        /\ NoFault
     \/ NoRow /\ Fault
  /\ UNCHANGED <<req, items, done, shared, via, stored, asked>>

\* The SessionEnd row, best effort.
SessionEnd(c) ==
  /\ At(c, "end") /\ Advance(c)
  /\ \/ /\ Append1(c, "end", Failed(c) = {} /\ Unusable(c) = {},
                    IF Step(c).coded THEN FirstCode(c) ELSE "none")
        /\ NoFault
     \/ NoRow /\ Fault
  /\ UNCHANGED <<req, items, done, shared, via, stored, asked>>

\* What a tool answers.  A fetch whose copy was refused is ok:true with the
\* refusal in its pdf field, and a list is ok:true however many of its refs
\* failed; "failed" counts those it shows as failed, refused or unparsed.
error_envelope(code) == [ok |-> FALSE, code |-> code, failed |-> 1, exit |-> 0]
fetch_paper_success_envelope(o) == [ok |-> TRUE, code |-> o.code, failed |-> 1, exit |-> 0]
\* Mutant: the list leaves out what failed.
batch_envelopeShort(n) == Success
batch_fetch_success_envelope(n) == [ok |-> TRUE, code |-> "none", failed |-> n, exit |-> 0]
build_bibliography_envelope(failed, parse_errors) ==
  [ok |-> TRUE, code |-> "none", failed |-> failed + parse_errors, exit |-> 0]

\* How a command exits.
ExitStatus(c, form, n) ==
  IF form = "many" THEN Counted(n)
  ELSE [ok |-> FALSE, failed |-> n, code |-> FirstCode(c),
        exit |-> IF form = "plain" THEN 1 ELSE cli_exit_code(FirstCode(c))]

Result(c, form, counts) ==
  LET failed == Cardinality({k \in Failed(c) : answer_status(done[c][k]) \in counts})
      parse_errors == Cardinality({k \in Unusable(c) : entry_status(items[c][k]) \in counts})
      o == done[c][First(Failed(c))]
  IN CASE failed + parse_errors = 0 -> Success
       [] failed + parse_errors > 0 /\ c \notin ServerCalls
            -> ExitStatus(c, form, failed + parse_errors)
       [] OTHER
            -> CASE form = "entries" -> build_bibliography_envelope(failed, parse_errors)
                 [] form = "many"    -> batch_fetch_success_envelope(failed + parse_errors)
                 [] form \notin {"entries", "many"} /\ failed > 0 /\ o.kind = "blocked"
                                     -> fetch_paper_success_envelope(o)
                 [] OTHER            -> error_envelope(FirstCode(c))

Answer(c) ==
  /\ At(c, "reply") /\ Tell(c, Result(c, Step(c).form, Step(c).counts))
  /\ UNCHANGED <<req, items, done, logVars, stored, asked, faults>>

Call(c) ==
  \/ Check(c) \/ Preview(c) \/ Prepare(c) \/ Open(c) \/ Publish(c)
  \/ SessionStart(c) \/ LookUp(c) \/ LookupsEnd(c) \/ Settled(c)
  \/ DoWork(c) \/ FallBack(c) \/ AskAside(c) \/ DoRead(c) \/ GiveUp(c) \/ DoEdit(c)
  \/ SessionEnd(c) \/ Answer(c)

\* All calls are answered; until then somebody can go on.
Finished == (\A c \in Callers : pc[c] = 0) /\ UNCHANGED vars

Next == Finished \/ \E c \in Callers : Call(c)

\* Nothing in a handler waits for another call: tokio and the operating system
\* run it to its end.
Fairness == \A c \in Callers : WF_vars(Call(c))
Spec == Init /\ [][Next]_vars /\ Fairness

-----------------------------------------------------------------------------
(* Properties.                                                             *)

RowsOf(c) == {k \in 1..Len(log) : log[k].by = c}
Answered(c) == pc[c] = 0
SameProcess(c, d) == c = d \/ {c, d} \subseteq ServerCalls

\* Server.log: "Opening per tool call broke that": two overlapping calls that
\* each open the log append rows that claim one sequence number.  However the
\* server's calls interleave, and however often a command reopens the log, the
\* rows that one process writes are numbered in order.
ChainIntact ==
  (\A j, k \in 1..Len(log) : SameProcess(log[j].by, log[k].by)) =>
    \A k \in 1..Len(log) : log[k].seq = k

\* A dry run, and a call that is refused for its input, asks nobody, writes no
\* row and does not even create the log, unless a PubMed id had to be looked up
\* to know the ref.
SilentUnlessAsked ==
  \A c \in Callers :
    \/ "dry" \in req[c].flags
    \/ /\ answer[c].code \in InputCodes
       /\ \A k \in DOMAIN req[c].refs : req[c].refs[k] # "pmid"
    => asked[c] = 0 /\ RowsOf(c) = {} /\ via[c] = NoOne

\* The exit status of a command says what its session_end row says: it is 0
\* exactly for a session that ended well.
ExitTellsSession ==
  \A c \in Callers \ ServerCalls : \A k \in RowsOf(c) :
    Answered(c) /\ log[k].event = "end" => (answer[c].exit = 0 <=> log[k].ok)

\* docs/ERRORS.md: exit status 3 is "Capability denied", for fetch and graph
\* alike: a session that ended with that code is a command that exits 3.
DenialExitsThree ==
  \A c \in Callers \ ServerCalls : \A k \in RowsOf(c) :
    Answered(c) /\ log[k].event = "end" =>
      (log[k].code = "CAPABILITY_DENIED" => answer[c].exit = 3)

\* Every call is answered.
AllAnswered == <>(\A c \in Callers : Answered(c))

(* The refinement: a call's phase is read off its rows and its position.   *)

Has(c, event) == \E k \in RowsOf(c) : log[k].event = event
PastEnd(c) == \E j \in 1..(pc[c] - 1) : req[c].steps[j].do = "end"
Phase(c) == CASE Answered(c) /\ req[c].tool # "none"               -> "told"
              [] ~Answered(c) /\ Has(c, "start") /\ PastEnd(c)    -> "judged"
              [] ~Answered(c) /\ Has(c, "start") /\ ~PastEnd(c)   -> "open"
              [] OTHER                                            -> "new"
Said(c) == answer[c].ok /\ answer[c].code = "none" /\ answer[c].failed = 0
EndRowOk(c) == \A k \in RowsOf(c) : log[k].event = "end" => log[k].ok
Judged(c) == IF Has(c, "end") THEN EndRowOk(c) ELSE Failed(c) = {} /\ Unusable(c) = {}
Verdict(c) == LET p == Phase(c) IN
  CASE p = "told"   -> IF Said(c) THEN "ok" ELSE "err"
    [] p = "judged" -> IF Judged(c) THEN "ok" ELSE "err"
    [] OTHER        -> "none"

Promise == INSTANCE CallContract
             WITH phase   <- [c \in Callers |-> Phase(c)],
                  verdict <- [c \in Callers |-> Verdict(c)]

\* Every handler keeps the contract: what it answers is what the end row of its
\* session says, for a refused copy and a partly failed batch too.
KeepsContract == Promise!Spec
=============================================================================
