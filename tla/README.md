# A TLA+ development of doiget

doiget is a Rust workspace of three crates: `doiget-core` (the library),
`doiget-cli` (the `doiget` binary) and `doiget-mcp` (an MCP server on stdio that
`doiget serve` runs). It resolves DOIs and arXiv ids, fetches open-access PDFs
under a hard-coded rate limit, keeps what it fetched in a store of PDFs and TOML
files, and records every attempt in a hash-chained log.

This directory holds TLA+ models of its parts, the TLC runs that check them on
small instances, and TLAPS proofs of the results that matter most.
`PROJECT.json` is the index: components, runs, the source lines each definition
models, hazards, findings, theorems.

## 1. The system's parts

| part | state | operations | hard because |
|---|---|---|---|
| provenance log (`provenance.rs`) | `access.log`, gzip segments, in-memory `(next_seq, last_hash)` behind a mutex | `open`, `append` (with rotation), `verify_all`, pruning, migration | a write or an fsync can fail halfway; crashes during a rotation or a migration; several processes share one file |
| store (`store/fs_store.rs`, `user_pdf.rs`, `tag.rs`) | per entry a TOML file, a PDF, an advisory lock file | `read`, `write`, `write_user_authored`; fetch, `add`, `tag`, `annotate` on top | read and write of a client are two critical sections; two renames per write; entries shared with another tool |
| rate limiter (`rate_limiter.rs`) | global semaphore, semaphore per capped source, window of starts, next start per source | `acquire`, `pace`, drop of a `Permit`, `sleep_for` | checks and the record of a start are separated by waits |
| repeat suppression (`repeat.rs`) | map ref → (code, time, config fingerprint), size at the last sweep | `check`, `observe` | check and observe of one call are far apart; other calls, edits of the configuration and sweeps come between |
| fetch orchestrator (`orchestrator.rs`) | none of its own; calls all of the above | `fetch_paper_with`, `batch_fetch_with`, `metadata_only`, `write_metadata_and_pdf` | many legs, each with its own failure; log rows before and after effects |
| sources and HTTP client (`sources/`, `http.rs`) | an allowlist per source | `Source::fetch`, `fetch_bytes`, `fetch_pdf` | redirects, retries, size caps and a row, each of which may fail, under one permit |
| calls: CLI commands and MCP tools (`doiget-cli`, `doiget-mcp`) | one log handle per server, one or more per command | some 20 tools, some 30 commands | concurrent tool calls share the log; a call tells what it did in rows, in an envelope and in an exit status |
| batch (`commands/batch.rs`) | windows of tasks, a lock per ref, a semaphore, counters | `run` | two nested waits, tasks that panic, one ref in two spellings |
| caches (`resolver_cache.rs`, `paper_text.rs`, `paper_tex_source.rs`) | a file per ref and option | read, write | unlocked concurrent writers of one temporary name |
| citation graph (`citation_graph.rs`) | queue, visited works, `truncated` | `expand` | three caps and failing requests in a cyclic graph |
| settings (`lib.rs`, `user_extension.rs`, `credentials.rs`, `source_catalog.rs`, `config.rs`) | environment, `config.toml`, `credentials.toml`, the profile of a running server | `from_env`, `load_or_default`, `resolve_*`, `config show`, `doctor`, `coverage` | each surface resolves them for itself, at its own time, with its own copy of the code |
| discovery (`discovery.rs`), software (`software.rs`), full text (`paper_text.rs`, `paper_tex_source.rs`), bibliographies (`refs.rs`, `pubmed.rs`) | none beyond a call | search, frontier, links; `resolve_github`; page and archive parsers; BibTeX and CSL adapters | several requests make one answer; malformed input; hand-kept twins |

How they interact: a tool call or a command opens the log (a server once), asks
the repeat index (which lives in the log object), acquires a permit of the
limiter for each request, appends a row for each attempt, writes the store under
the entry's lock, appends a `StoreWrite` row, and closes with a `session_end`
row, which is what feeds the repeat index.

What makes each part correct:

* **log**: every segment and the live file verify; an acknowledged row can be
  read until retention deletes it; a restart continues the chain exactly where
  memory was; a loss is never silent; a migration leaves a whole log.
* **store**: no entry points at an absent PDF; no writer erases a value another
  one set; a repair stays applied; a newer schema is read-only.
* **limiter**: starts per second and spacing per source are bounded; nobody waits
  for good.
* **fetch**: the outcome agrees with the store; a refused copy is never a clean
  success; a lookup that cannot be logged ends the fetch; every fetch ends.
* **repeat suppression**: a refusal repeats the network's last word within its
  window, and the window ends.
* **sources**: no request leaves the permitted hosts or the permit; only what may
  be transient is tried again; the row says what the caller is told.
* **calls**: one chain per server; a call that must not ask does not; the answer
  is what the session's end row says.
* **batch**: each entry is settled once; a slot is never held by one who cannot
  use it; it ends.
* **the rest**: what a call hands back is whole, of one version and consistent
  with what the other surface says, or is marked as not so.

## 2. Modules

| module | models | composed of |
|---|---|---|
| `ProvenanceLog` | the log, its processes and their threads, the disk's faults | |
| `AuditTrail` | abstract: what the log promises whoever audits it | implemented by `ProvenanceLog` |
| `LogMigration` | `migrate_v1_to_v2` beside a process that appends | |
| `StoreMerge`, `FsStore` | `merge_metadata`; one entry, its lock, and the clients that write it | `FsStore` on `StoreMerge` |
| `RateLimiter` | the limiter and the fetches that hold its permits | |
| `RepeatIndex` | the index and the calls that ask and feed it | |
| `FetchPaper` | one fetch: its legs, fallbacks, trace, entry and outcome | |
| `SourceTable`, `Sources` | every fetch function as a table entry; the skeleton they share and `HttpClient::fetch_inner` under it | `Sources` on `SourceTable` |
| `Calls` | the steps calls are made of, on one log and one store | |
| `McpTools`, `CliCommands` | the tools and the commands as sequences of those steps | on `Calls` |
| `CallContract` | abstract: what a call promises | implemented by `Calls` |
| `Batch` | `doiget batch` | |
| `CitationGraph`, `Caches`, `PaperText`, `Discovery`, `Software`, `Bibliography` | the parts of those names | |
| `Catalog`, `Settings` | the source catalogue and allowlists; environment, files, profile, and who reads them how | `Settings` on `Catalog` |
| `AnswersProofs` | theorems about `CitationGraph`, `Caches`, `LogMigration`, `Software`, `Discovery`, `Bibliography`, `Settings`, `PaperText`, `RepeatIndex` | those modules |
| the other `*Proofs` | theorems about `ProvenanceLog`, `FsStore`, `RateLimiter`, `FetchPaper`, `Sources`, `Batch`, `Calls` | the module of the same name |
| `MC*` | instances for TLC; `MCEntryPoints` composes `Calls` with both sets of programs, `MCAnswers` unites eight parts | |

A definition whose comment begins with "Bug:" or "Mutant:" is a mutated form of a
neighbour; no specification uses it. `PROJECT.json` pairs each
with the property it breaks.

### ProvenanceLog and LogMigration

`log` is the sequence of lines in the file and `eol` whether it ends in a newline;
a line that serde would reject is `Garbage`. `append` is split where a crash, an
error or (for other processes) another step can be seen: `Enter` (mutex, stat),
`RotateGz` and `RotateUnlink` (the rename of the gzip, the unlink with the reset
of the chain), `WriteRow` (the row's bytes are in the file), `Commit` (fsync done,
state advanced, repeat suppression fed, mutex released). `RotateErr`, `WriteErr`,
`WriteErrTorn` and `SyncErr` are its early returns, `Crash` and `CrashTorn` the
death of the process. `Open` recovers the state and prunes, segment by segment in
the order of their names (`OldestAged` is what may be gone when the process dies
meanwhile, `KillPruning`); with the fault `err_prune` a segment that cannot be
removed is skipped. A digest is a fresh number per row: a row contains its creation
time, and no step edits a line.
`Verifies` is what `verify` reports on a file, the tolerance for a GENESIS row in
the middle included.

`AuditTrail` is the abstract specification: appends follow one another, a row is
readable before its append says Ok, a refused or interrupted append costs no other
row, and only retention takes rows, the oldest first. `KeepsTrail` is that
specification under a mapping that reads the readable rows off the file and the
segments, and how far an append is off `pc`: rotation, the clock and the chain state
are stutters.

A migration is `MigRead`, `Stage`, `VerifyStaged`, `DropBackup`, `BackUp`,
`PublishLog`, each a system call that may fail (`MigFails`) or be the last
(`Kill`); `OpenLog` and `AppendRow` are another doiget. There a digest is the
chain it covers, since migration rewrites rows. Nothing keeps the other process
out while a migration runs; `beside` is history, and says whether it had the log
open then. With it `LiveIsWhole` separates what holds whoever runs beside a
migration (the log under the log's name is never half of one format and half of
the other, nor torn where it was not) from what does not (that its chain verifies:
`LiveVerifies`, section 3).

### StoreMerge and FsStore

An entry is a record of the fields the merge treats differently: `title` and
`venue` for the reserved fields, with the cleaning rule of `is_cleaned_form`;
`pdf_path`; and the `[doiget]` table with `license`, `oa_status`, `short_venue`,
`repaired_fields`, `origin`, `size_bytes` (the identity of the PDF) and `tags`
(which stand for collections and the annotation too). A client's write is
`Lock`, `Merge`, `RenamePdf`, `RenameMeta`, as `write_with_impl` does them;
`LockTimeout`, `MergeRefused` and `WriteErr` are its errors. What precedes it is
`FetchBegin` for a fetch, `TagRead` for `tag`, `AddCheck` and `AddRead` for `add`;
the two reads are under a shared lock that is released before the write begins,
as in the code. `orphan` and `tagged` are history.

### RateLimiter

One action per wait or critical section of `acquire` and `pace`. Instants are
kept as ages and as time left, so that the clock needs no bound; an age stops at
the window's length, after which nothing tells two ages apart. `todo` is what a
fetch still has to request: `paced` requests are the arXiv ones, which pace the
PDF under the permit of the feed.

### RepeatIndex

`check` and `observe` are one critical section each. A call is `AskNetwork`,
`NetworkAnswers`, `Observe`, or `Replayed`, `Observe`; `BookendLost` is a call whose `session_end`
row could not be appended. Error codes are represented by one or two of each
disposition. `last` is history: what the network last said about a ref.

### FetchPaper

One process that walks through `fetch_paper_with`; `pc` is the leg under way and
`i` the position in the chain it walks. The environment chooses every answer and
whether the row about it can be appended. A request and its row are one step:
nothing else in the fetch happens between them. What differs from leg to leg, and
is the point of the module, is what a failure does:

| leg | action | a refused request | a lost row |
|---|---|---|---|
| session start | `SessionStart` | | ends the fetch |
| forced repeat | `Check` | | ends the fetch |
| arXiv id | `ArxivRef` | ends the fetch | ends the fetch |
| Crossref, TDM and optional chains | `Crossref`, `Tdm`, `Optional` | kept for `Guard`, next source | the same |
| Unpaywall | `Unpaywall` | no locations | no locations |
| OA locations | `OaCandidate`, `Copy`, `PreprintCandidate` | next location, `Blocked` after the last | not looked at |
| preprint lookups | `FindAsk`, `BiorxivPubs`, `PreprintLocate` | next finder | ends the fetch |
| arXiv copy, TDM copy | `ArxivFallback`, `Content` | the leg keeps its status | the same |
| title repair | `Repair` | next source | the same |
| the write | `StorePdf`, `StoreMetadata`, `StoreFailed`, `StoreRow` | an error of the store ends the fetch, after the PDF is in place or before; its own row is best effort | ends the fetch, the entry stays |

The sources are sequences of names, so one action stands for each chain's loop
body; `cfg` is what the fetch is of, which sources are switched on and whose
prefix the DOI has. `sent` is history: every request, why it was sent and what
row it left. The write is as far apart as `write_with_impl` is: `file` is the PDF
this fetch put in place, `store` the entry about it, `write_row` the row about both.
`PassOver` skips a fallback whose own test of the leg says no. The
bodies of answers are abstracted to what is read from them: locations, a licence,
a preprint, a title.

### SourceTable and Sources

The fetch functions of the sources differ in data, so each is a record: which refs
it serves, what switches it on, its GETs, the bodies it refuses and the error each
becomes, when it appends a row. `Sources` is the skeleton: `Gate`, `Acquire`,
`Ask`, then `Send`, `Redirect`, `Status`, `NoAnswer`, `Wake`, `Chunk`, `BodyBreaks`
of `fetch_inner` and reqwest's redirect policy, `Body`, `NextLeg`, and `Row` or
`NoRow`. A host is the source's own, another one on its list, a forwarding
resolver, or foreign; a body is a number of chunks.

### Calls, McpTools, CliCommands, CallContract

A handler is straight-line code with early returns, so it is a sequence of steps:
open the log, publish the handle in the server's `OnceLock`, need something of the
file system, append a bookend, look a PubMed id up, do the work, read, edit, judge,
answer. `Calls` has one action per kind of step, and steps of concurrent calls
interleave; the programs are in `McpTools` and `CliCommands`, named after the
functions they stand for. `CallContract` is the abstract specification: a call is
answered without a session, or opens one, comes to a verdict when it ends, and
tells its caller that verdict. `KeepsContract` is its specification under a
mapping that reads a call's phase and verdict off its rows, its position and its
answer.

What all handlers have in common is stated once, as `Careful` and `Bracketed`, and
`ScenarioAssumption` says that the programs at hand are so: nothing is sent before
there is a log handle, which a tool call publishes at once; a dry run answers, and
a ref that needs no lookup is refused, before that; a session is the work, the end
row and the answer, in that order and at the end of the handler. TLC evaluates it
on every tool and every command of `MCEntryPoints`; the proofs use nothing else
about a program.

### Batch

The locks and the semaphore of tokio are FIFO, so both are queues. `Dispatch`
creates the tasks of a window; a task is `TakeLock`, `TakePermit`, `FetchOne`,
`Observe`; `Join` reports it and counts it; `Close` writes the bookend and exits.
A panic loses a task, as `JoinError` does; in a release build, where a panic
aborts, nothing comes after it.

### The parts of MCAnswers

`Caches` has files as inodes, because a writer goes on writing to a temporary file
that another writer renamed. `CitationGraph` goes through a work's references one
at a time. `Settings` edits the environment and the files under a running server.
`PaperText` lets the page be any sequence of events, also a malformed one, and the
archive any mix of entries; `page` is what a reader sees of it, with which heading
over which text. `Discovery` lets a name's search find anything and the
corpus come in any of OpenAlex's orders; when a name is clear is stated apart from
`select_entity` (`Unmistakable`). `Software` lets the owner of the
repository act between any two requests. `Bibliography` reads every combination of
fields with both adapters, with the archive of an eprint named in each way that one
of them tells apart: arXiv, a longer name with arXiv in it (`refs.rs:607` takes it,
`refs.rs:348` does not), PubMed, another, none. These parts share no state, so `MCAnswers` explores one
of them per behaviour and its state space is their sum.

## 3. Runs

| run | instance | shows |
|---|---|---|
| `log_single` | 1 process, 2 threads, rotation at 2 lines, retention 1, 5 rows, 6 ticks, 2 crashes | no acknowledged row lost, restarts invisible, and the refinement of `AuditTrail`: the oldest rows go first, past their retention |
| `log_faults` | the same with every fault, no retention, 1 crash | a loss shows in `verify` |
| `store_writers` | 2 clients, all operations, crashes, a newer tool, an entry of another tool | no dangling pointer, nothing forgotten |
| `store_pdfs` | 2 clients that fetch and add, titles repaired or not, an entry of another tool with the same title, 3 PDFs, 2 crashes | the record describes the PDF; a repaired title stays |
| `rate_mixed` | 3 tasks, a single-connection source with a paced request, an uncapped one | the window's true bound, vendor spacing, progress |
| `repeat_session` | 1 caller, 2 refs, all answers, 1 edit of the configuration, sweep floor 1 | refusals are justified and end |
| `fetch_legs` | a DOI of either of two publishers or of none, an arXiv id; six choices of flags; two TDM and two optional sources; up to two OA locations; two kinds of error | report, store and log agree; nobody is asked who need not be; every fetch ends |
| `sources_asks` | every source alone and two on one permit; 1 retry, 3 redirects, 3 troubles in all | hosts, permits, retries, rows |
| `entry_calls` | every tool and command with every kind of ref it tells apart; pairs of tools and a command beside a tool; 1 failure of the file system | chain, silence, verdicts, the contract |
| `batch_window` | files of up to 4 entries in windows of 3, 2 slots, all options, 1 panic | duplicates, slots, counts, progress |
| `answers_parts` | the eight parts of `MCAnswers` | their properties |
| `answers_interrupted` | the migration alone, 2 migrations, 2 kills | **violated**: see below |

Bounds. A rotation at two lines makes files with a first, a last and a following
row; five rows fill two segments and a live file, and six ticks let both segments
be past their retention at once; two crashes let one hit a
rotation and one its repetition. Two clients suffice for every race of a stale
copy, since one lock orders all writes and a race needs one writer between
another's read and write. The limiter admits one start in a window of two ticks
and two fetches at once, so the window fills, expires and is overrun in one run.
The index's sweep floor is one, so that with two refs a sweep is not due, due,
and due only at twice what it left. In a fetch, chains of two have a first and a
last entry, a publisher that is and one that is not the registrant, one with a PDF
endpoint and one without; two locations let the first fail and the second succeed;
two errors are enough because the legs branch on success, on a lost row and on the
kind of error only in `Code` and `classify_attempt`. Three troubles let a request
be redirected off its list after a retry, or exhaust its one retry and lose its
row. A window of three and a file of four put a duplicate in the same window and in
the next. The worlds of the citation graph have two cycles, a diamond with a chord,
a work that cites itself and a list longer than the cap, under all caps from zero
to beyond the limit. Two callers of a cache are enough for one to rename what the
other writes, and a third question lets a reader come after them. Seven events of a
page open, nest and leave open each element, and put text under two headings. The
pages of entities have one, two, or no holder of the very name, with and without a
score and a runner-up half as relevant. Three moves of a repository's owner
are one between each two requests. The proofs need none of these bounds.

Deadlock is not checked where the model stops: the log out of rows, a fetch done,
a part of `MCAnswers` answered.

Fairness. `Ends` assumes that a fetch takes its next step: every request has a
total timeout, and neither the store nor the log waits for another leg of the
same fetch. `AllFinish` assumes that the clock runs, that tokio polls a task that
can go on, and that a fetch ends (every request has a total timeout in
`http.rs`); the semaphores of tokio are fair, but weak fairness of each task is
all that is used. `NeverRefusedForGood` assumes only that the clock runs.
`BatchEnds`, and `AllAnswered` of `Calls`, assume that each task, and each call, takes its next
step when it can, which is tokio's promise for a woken task; a batch also relies on
the queues being FIFO, as tokio documents.

`answers_interrupted` states a sentence of the documentation that the code does not
keep: a migration that dies between its two renames leaves no log, the next command
creates a fresh one, and running the migration again removes the backup, the only
copy of the original rows, to make room for the fresh log's.

The same models refute more sentences of the repository's documentation. Each row
names a run and the constants to change in its cfg; the property takes the place of
the run's own INVARIANTs and PROPERTYs.

| property | run, with | what happens | sentence |
|---|---|---|---|
| `AckedReadable` | `log_faults`, `RotateAt = 0`, `Faults = {"err_part"}`, `MaxRows = 4`, `MaxPerSec = 4`, `MaxTime = 0`, `MaxCrashes = 0` | after a short write the retry's row is glued to the torn one: `append` returns Ok for a row nobody can read | `PROVENANCE_LOG.md:123-124` |
| `AtMostTornLastLine` | the same, `Faults = {"err_fsync"}` | a failed fsync leaves the row; the next one repeats its number and parent | `provenance.rs:789-790` |
| `OpenRefusesTornTail` | the same, `Faults = {"crash_nonl"}`, `MaxCrashes = 1` | a line that lacks only its newline is accepted and written on | `provenance.rs:766-768` |
| `AtMostTornLastLine` | the same, two processes, no faults | nothing locks the file: the chain forks | `provenance.rs:44-46` |
| `NoGap` | `log_single`, `Faults = {"err_prune"}` | a segment that cannot be removed is skipped and a younger one goes; each segment is verified by itself, so nothing shows | `provenance.rs:392-395` |
| `LossIsDetected` | `log_faults`, `Retention = 1` | the segment with the garbage line is deleted by age and the rows it lost with it: what is left verifies | |
| `RecordDescribesPdf` | `store_writers`, `Foreign <- NoForeign`, `Ops = {"fetch", "tag"}`, `MaxCrashes = 0` | `tag` writes a stale copy back over the record of a PDF that a fetch stored in between; without `tag` it holds (`store_pdfs`) | `STORE.md:94-95` |
| `TagsNotLost` | the same, two tags | the later of two `tag` commands drops the earlier one's tag | `STORE.md:94-95` |
| `AddNeedsForce` | `store_writers`, `Ops = {"fetch", "add"}` | a PDF stored after add's check is replaced without `--force` | `user_pdf.rs:258` |
| `UserPdfClaimsNoLicense` | the same | the merge keeps the old license on the user's file | `store/metadata.rs:159-161` |
| `UserPdfKept` | `store_writers`, `Foreign <- NoForeign`, `Ops = {"fetch", "add", "tag"}` | a stale copy that `tag` writes back drops the record of a PDF the user added meanwhile | `STORE.md:94-95` |
| `ShortFollowsVenue`, `RepairedMeansApplied` | `store_pdfs`, `Clients = {c1}`, `Fetched <- FetchedRich`, `Foreign <- OtherTool` | the incoming table is taken whole beside the stored venue and title | `fs_store.rs:617-620`, `490-492` |
| `RollingWindow` | `rate_mixed`, `MaxDelays = 0` | fetches that saw the same room in the window all start; `WindowSlack` is the bound that holds | `rate_limiter.rs:22-24` |
| `DelayKept` | `rate_mixed`, `Tasks = {c1, c2, a1}`, `Plan <- CrossrefPlan`, `MaxConcurrent = 3`, `MaxPerSec = 5`, `MaxDelay = 3` | a fetch asleep when `sleep_for` moves the next start away starts anyway and overwrites the delay | `rate_limiter.rs:225-226` |
| `SourceSpaced` | the same | fetches that slept for the same start all start | `rate_limiter.rs:25-27` |
| `RetryGapKept` | `repeat_session`, `Refs = {r1}`, `MaxConfig = 0` | a second RATE_LIMITED answer keeps the time of the expired first one and holds nothing back | `repeat.rs:21-23` |
| `RefusedUnderSameConfig` | `repeat_session` | an answer is filed under the configuration at its end, not at its beginning | `repeat.rs:18-19` |
| `ReplayIsJustified` | `repeat_session`, two callers | a replay's bookend lands after a success cleared the ref | `repeat.rs:94-95` |
| `NotFoundIsAuthoritative` | `fetch_legs`, `Errors = {"Http404", "Network"}`, `MaxLocations = 1` | Crossref cannot be reached, nothing else comes back, and the caller is told NOT_FOUND, which repeat suppression holds as terminal | `ERRORS.md:42` |
| `FailClosed` | the same | the fetch goes on without Crossref's row, and never looks whether an OA download's was appended | `PROVENANCE_LOG.md:121-122` |
| `DenialExitsThree` | `entry_calls` | a refusal met inside `expand` is logged as CAPABILITY_DENIED and exits with 1 (`graph.rs:171`) | `ERRORS.md:265-266` |
| `PolicyIsDenied` | `sources_asks` | a refused redirect is wrapped by reqwest and reported as a network error (`http.rs:1201`, `source.rs:304`) | `source.rs:276-291` |
| `FetchedOnce` | `batch_window` | a ref listed twice is fetched twice when the first fetch succeeded, since only errors are held | `batch.rs:501-504` |
| `NoDeeperThanAsked` | `answers_parts` | depth 0 still gives the seed's references | `citation_graph.rs:69-70` |
| `ServedIsWhole` | `answers_parts`, `CacheRefs = {"r", "s"}`, `safekey <- SharedKey` | two refs with one safekey (`lib.rs:618-667`) are served each other's text | `CONFIG.md:96`, `SAFEKEY.md:169-172` |
| `EntryIsWhole` | `answers_parts` | two writers share the temporary name: one renames what the other has just truncated | `resolver_cache.rs:201-205` |
| `OneLog` | `answers_parts`, `EnvValues <- MCPathValues`, all three `Platforms` | the copies of `resolve_log_path` differ in the directory (macOS, Windows) and on a blank variable | `audit_log.rs:218-226` |
| `TexTellsCorrupt` | `answers_parts` | an archive whose only `.tex` is blank is reported as corrupt, one whose header cannot be read as having no TeX | `paper_tex_source.rs:334-336` |
| `OneRowPerRequest` | `answers_parts` | a request that fails leaves no row | `discovery.rs:339` |
| `LiveVerifies` | `answers_parts` | a process opens a fresh log while the log's name is free during a migration, and appends to what is published after its own chain | |
| `PubMedIsNamed` | `answers_parts` | an eprint whose archive is PubMed is a PMID to BibTeX and no identifier to CSL-JSON | `refs.rs:398-402` |
| `OneVersion` | `answers_parts`, `ValidTags = {"t1"}` | the date is that of a latest release whose tag is not taken (`software.rs:341-347`), the rest is of no tag | |

Two more sentences need no model. The optional chain is asked a second time when
its first run resolved nothing, although the comment at
`orchestrator.rs:2305-2309` speaks of reusing it. And a copy named by an optional
source is stored under the licence Unpaywall gave for the work, which is why
`ArtifactIsLabelled` asks no more of it.

The modules state further properties that hold on the same instances and are in no
listed run, because a theorem covers them or another property is the sharper one:
`TypeOK`, `AtMostTornLastLine`, `NoGap`, `SegmentsKept`, `ObservedIsDurable`,
`NewerIsReadOnly`, `UserPdfKept` (on `store_pdfs`), `OnlyTagChangesTags`,
`AllAnswered`,
`InFlightBounded`, `IndexBounded`, `SweepKeepsLive`,
`ArtifactIsLabelled`, `TraceIsComplete`, `StoredIsLogged`,
`FailuresAreCounted`, `AllEnd`, `GrantIsAgreed`, `NodesBounded`, `WalkEnds` (of
`GraphSpec`),
`FailsOnlyByAsking`, `RerunIsNoOp`, `BundleTellsCorrupt`, `FrontierRanked`,
`ResolvesIfThere`.

## 4. Proofs

TLAPS proves the following for all values of the constants.

* **ProvenanceLogProofs.** `TypeCorrect` for any processes and faults. With one
  process (`OneProcess`) on a disk that fails by crashes, possibly leaving part
  of a line (`CleanDisk`): `LogVerifies`, `NoAckedRowLost`, `RestartIsInvisible`,
  `SegmentsAreKept`. The inductive invariant says who holds the mutex at which
  step, that the file is a chain whose last row memory agrees with except
  between `WriteRow` and `Commit` (where the file is one row ahead) and after a
  torn crash (where nobody has it open), that a segment with the name of the
  current second has the content of the live file while a rotation is under way,
  and that acknowledged rows are on disk or retired. The properties alone are
  not inductive: that a rotation loses nothing depends on the segment written
  two steps earlier, and that on `SlowFillAssumption`, since the names of
  segments have a resolution of one second. `LossShows` needs one process but no
  clean disk: whatever faults there are, an acknowledged row that cannot be read
  leaves a file or a segment that does not verify. Its invariant is that either
  some line is garbage or every acknowledged row is readable, and that a rotation
  copies garbage as it is; it assumes `Retention = 0` (segments are kept), because
  the deletion of a segment takes the evidence with it (section 3).
  `TrailHasNoGap` and the refinement `KeepsTheTrail`, under `OneProcess` and
  `CleanDisk`: digests are given out in order (`Numbered`); of two segments of
  different seconds, and of a segment and the live file, either the lines are the same,
  because an unlink failed, or one is older throughout (`SegOrder`, `LiveOrder`); the
  acknowledged rows that are gone are older than all that is left (`MissingOld`).
  Without the order between segments the last is not inductive, since a prune may be
  cut short; and that order rests on a write going to a file that is below the
  threshold, so to one that no segment is a copy of. Each step is then a step of
  `AuditTrail` or leaves what the mapping reads as it was.
* **FsStoreProofs.** `TypeCorrect`, `NeverDangling`, `ForgetsNothing`,
  `NewerStaysReadOnly`, for any number of clients. The invariant says that at
  most the lock's holder is between merge and the last rename, and that what it
  is about to write keeps all the entry has and points at a PDF that is there or
  that its own previous step will have put there. Facts about the merge are lemmas.
  `RepairsAreApplied`: what a writer is about to write goes back to records whose
  flag and title agree, and the merge keeps that. It assumes that nobody gives the
  work another title (`OneTitle`); section 3 shows it false otherwise.
  `UserPdfStaysOnRecord`, an action property: a writer that brings no PDF brings no
  record of one or, once it has merged, the one on record, so only a PDF in place
  displaces a user's. It assumes that `tag` has the entry to itself (`TagsAlone`),
  since `tag` does not merge.
  `RecordFitsPdf`, under the same assumption: a writer with a PDF brings the record of
  that PDF, which is in place when the record is about to be; any other brings no size
  or the one on record (`Brings`). `TagsAreTheUsers`, an action property without
  assumptions: between its merge and its rename a writer other than `tag` has the tags
  that are on record (`TagsInv`).
* **RateLimiterProofs.** `SingleConnectionIsSpaced`: the invariant is that two
  tasks past the semaphore of a single-connection source are the same task, and
  that the time left until the source's next start and the time since its last
  one add up to at least the backoff. `WindowIsSlack` and `SlotsBoundFlights`, with
  cardinalities: busy tasks and free slots add up to the slots, of the process and
  of each source (`SlotsCounted`, `SourceCounted`); starts younger than the window
  and tasks that saw room in it but have not pushed their start number at most
  `MaxPerSec + MaxConcurrent - 1` (`WindowCounted`). The bound on what is pushed is
  not inductive without the tasks on their way to push, and those are bounded only
  by the slots. That pruning the deque keeps every start of the window rests on its
  order.
* **FetchPaperProofs.** `OutcomeAgrees`, `RefusalReported`, `LookupsFailClosed`,
  `DisclosureBounded`, `StoredFromLog`, `EntryLabelled`, for any chains of
  sources, configurations, errors and numbers of locations. `Flow` says for each
  place in the code which leg statuses it can have, when there are bytes, and that
  the PDF, the entry, its row and the outcome are made of them; without it none of the properties
  is inductive, since each speaks of the end and the cause lies legs earlier. The
  rest of the invariant is one conjunct per property: no location is tried on the
  way to `NoOaUrl`; a lost lookup row is the last event; nothing but Crossref is
  asked before the OA leg once it answered; each record that later steps rely on
  has its row; each leg status determines the origin of the bytes and that the
  licence. `ChainAssumption` says that the names of sources do not overlap.
* **AnswersProofs**, about the repeat index and all eight parts of `MCAnswers`. Of the citation graph
  `WholeUnlessTruncated` and `DepthsAreDistances`, for any world, finite or not in
  its number of works, any request and any caps. `Shape`
  says what queue, parent and edges are made of. `Accounted`: a node whose
  references are not all in the graph is queued, or is the parent and its missing
  references are still ahead, unless `truncated` is set. `Levels`: the queue is
  sorted by depth, starts no higher than the last parent, and no node is more than
  one level below that parent; with it, and only with it, the depth given to a new
  node is its distance.
  Of the resolver cache `WholeAnswers`: an inode has at most one name (`OneName`),
  what it holds is about that name (`Named`), and who has it open is going to write
  about that name (`Opened`); `ServedIsWhole` alone is not inductive, because a
  writer opens, truncates and writes in separate steps. The theorem assumes that no
  two refs share a safekey (`OwnNames`), and section 3 shows it false otherwise.
  Of the log's migration `NoHalfMigratedLog`: what is staged has been verified before
  it is published; another process that has the log open, or had it open during a
  migration, writes rows of format 2 only and to a log that has no others, and as long
  as it was never open during one it follows the log's end (`Follows`). It assumes of
  the logs found that one of format 2 was kept by this build's append
  (`LogsAssumption`). Of the software finder `CitesOneVersion`:
  `Assembled` says which fields of the citation are those of the tag by the request
  that comes next. It assumes that every tag is one `valid_tag` takes.
  Of searches `FiltersAreKept` and `FrontierIsBest`: `Resolved` says that the names
  still pending are the last ones of the query and that each of the others has an
  identifier found under it, which is what the works are filtered by a request later.
  That `select_entity` gives the entity that was meant (`Unmistakable`) needs that a
  finite page has a most relevant one, and another once that is taken off
  (`PageIsTopped`), that a page is listed whole the pigeonhole principle.
  Of bibliographies `SameIdentifier`, for entries with any archive and note. Of the settings `OneSetOfSettings`,
  `KeysAreAgreed` and `AdviceIsGood`: the invariant is that no file is kept under no
  directory, and that a server's profile has only sources of tiers 2 and 3 that its
  build has; the rest are facts about the catalogue's rows and the two clients. The
  first assumes that the user's hosts are not trusted already (`NewHosts`): one that is
  would be counted although it adds nothing.
  Of the full text `TextSafe`: what the parser holds, the finished sections and the one
  under way, is in the page's order and without repetition (`InOrder`), and of a
  well-formed page it is all that has been read, in sections that are the page's
  (`Faithful`). `Concat` is a recursive
  function on the numbers up to a length; that it is one, and what it makes of an
  appended section, follows from the existence of the solution and a least
  counterexample, without induction over data.
  Of the repeat index `IndexStaysBounded` and `LiveEntriesStay`, for any number of
  callers, and `RefusalsAreEarned`, for one at a time (`OneFetcher`; section 3 shows it
  false for two). `Backed`: an entry filed under the configuration of the last answer
  is that answer. `Relayed`: what a refused caller was told is still what the entry
  says, unless the configuration has changed since, and then no answer under the new
  one has been heard; without it the bookend of a replay could file anything.
* **SourcesProofs.** `HostsPermitted`, `AskedUnderPermit`, `OnlyEarnedRetries`,
  `OneRowPerAnswer`, for any number of fetches, any sources that fit the table's
  shape, any hosts, redirects, retries and bodies. The invariant has a part about
  permits (who holds one is between `Acquire` and a return, a source gives out no
  more than it has), and one per fetch (`Fine`): the URL about to be requested and
  every URL requested so far have been through the redirect policy; all tries but
  the last of a leg failed transiently, and the last one only while a retry is
  due; the rows match the place in the skeleton and the status so far.
* **BatchProofs.** `NeverAskedInVain`, `NoSlotIdles`, `EachEntryReportedOnce`, for
  any file, window size, number of slots and set of error codes. `Guarded` and
  `Queued` say that the head of a ref's queue holds its lock and that a task is
  queued for a slot exactly while it is between `TakeLock` and its end, so two
  tasks of a ref are never both past the lock: `NotAskedInVain` is inductive with
  them, because an answer is filed before the lock is released. `Placed`, `Named`
  and `Counted` follow an entry from the file to the window to the report: the
  counters add up to the reports, the reports and the tasks under way to the
  entries taken from the file, and the reports without a ref to the lost tasks.
* **CallsProofs.** `OneChainPerProcess`, `RefusedInSilence`,
  `ExitSaysWhatTheLogSays` and the refinement `CallsKeepContract`, for any number
  of calls and any programs that satisfy `ScenarioAssumption`. One lemma per
  action sums its step up as an `Effect` (at most one row, by a step that may
  send, through the call's handle; nothing of another call's touched) and what it
  does to a session (`InOrder`); the invariant is then shown to survive any such
  effect. `Chain`: tool calls that are past the publication use the shared handle,
  a command its own, and a handle knows the next number as long as only its
  process has written; a call about to publish has opened the log, so if it wins
  the race the log is still empty. `Silent`: a call that has not opened the log
  has sent nothing. `Session`: the start row is there exactly from the third step
  before the end, and the end row, if it could be appended, says whether the
  outcomes are clean, which they stay until the answer is made of them. With it
  phase and verdict of the refinement mapping depend on the call's position
  (`Where`, `What`), and each step is a step of `CallContract` or a stutter.

Assumptions on the constants are named in the modules that declare them and
evaluated by every run.

Only model-checked: liveness (`AllFinish`, `NeverRefusedForGood`, `Ends`,
`BatchEnds`, and `AllAnswered`), which needs fairness and ENABLED, and a few of the
smaller properties named at the end of section 3 (`ObservedIsDurable`, `AllEnd`,
`NodesBounded`, `FailsOnlyByAsking`, `RerunIsNoOp`, `BundleTellsCorrupt`,
`ResolvesIfThere`). Every safety property of a passing run is a theorem.

## 5. Where to go from here

A composition of `FetchPaper` with `RepeatIndex` (what a fetch's code does to the
next one) and an abstract specification of the store, for which `tag` would have to
merge as the other writers do.

## 6. Not modelled

Formatting and parsing at the level of characters: BibTeX, CSL, TOML and JSON
output, the grammars of DOIs, arXiv ids and GitHub URLs, markup cleaning, vendor
responses beyond what a property needs of them. Dry-run previews and remediation
hints, which are tables of text. TLS and DNS. Terminal output. The hash itself: two
rows never collide. Writes by programs that ignore the advisory lock. The test
overrides (`DOIGET_*_BASE`).
