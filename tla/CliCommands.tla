---------------------------- MODULE CliCommands ----------------------------
(***************************************************************************)
(* The commands of the doiget binary (doiget-cli), each as the sequence of *)
(* its steps; Calls says what the steps do.  A command is a process: it    *)
(* opens the log itself, as often as it builds a context, and its answer   *)
(* is its exit status.  "ANYHOW" is an error that reaches main without a   *)
(* status of its own, which exits 1.  The batch command is in Batch.       *)
(***************************************************************************)
EXTENDS McpTools

IsRef(q) == <<Require(Parsed(q), "INVALID_REF")>>
parse_ref_or_exit(q) == IsRef(q)

\* build_resolve_context: the log's path and the client, then the log.
build_resolve_context == <<Needs("ANYHOW"), OpenLog("ANYHOW")>>

\* parse_ref_or_pubmed: a PubMed id needs the network, and a session of its own.
parse_ref_or_pubmed(q, network) ==
  CASE q.refs[1] # "pmid" -> IsRef(q)
    [] q.refs[1] = "pmid" /\ ~network -> <<Require(FALSE, "INVALID_REF")>>
    [] OTHER -> build_resolve_context \o lookup_in_session(1, "LOG_ERROR")

\* FetchHarness::from_env_with_ua: the configuration and its directories, the
\* log, and the client, the store and the profile.
FetchHarness == <<Needs("ANYHOW"), OpenLog("ANYHOW"), Needs("ANYHOW")>>

\* FetchHarness::log_session_start, the work, log_session_end.
InSession(kind, form) ==
  <<Start("start", "ANYHOW"), Work(kind), End(TRUE), Reply(form)>>

\* FsStore::new(resolve_store_root()?)?
the_store == <<Needs("ANYHOW"), Needs("ANYHOW")>>

\* commands::fetch::run_with_options; a link that cannot be made is a warning.
fetch(q) ==
  parse_ref_or_pubmed(q, ~Dry(q))
    \o (IF Dry(q) THEN <<Needs("ANYHOW"), Return(TRUE)>> ELSE <<>>)
    \o FetchHarness \o InSession("fetch", "one")

\* The commands that read the store: a missing entry is exit status 1.
info(q) == parse_ref_or_exit(q) \o the_store \o <<Read("ANYHOW"), Reply("plain")>>
list_recent(q) == the_store \o <<Read("none"), Reply("plain")>>

\* search: run_local, or run_external.
run_local(q) == the_store \o <<Read("none"), Reply("plain")>>
run_external(q) ==
  <<Require(~Is(q, "invalid"), "ANYHOW"), Require(~Is(q, "base"), "ANYHOW")>>
    \o FetchHarness \o InSession("query", "one")
search(q) ==
  <<Require(~Is(q, "text"), "ANYHOW")>>
    \o (IF Is(q, "local") THEN run_local(q) ELSE run_external(q))

\* text, tex-source and source ask about an arXiv id; only source writes files,
\* and only after the answer.
ask_arxiv(q) ==
  parse_ref_or_exit(q)
    \o <<Require(q.refs[1] # "doi", "NOT_IMPLEMENTED"), Require(~Is(q, "base"), "ANYHOW")>>
    \o build_resolve_context \o <<Work("query"), Reply("one")>>
text(q) == ask_arxiv(q)
tex_source(q) == ask_arxiv(q)
source(q) ==
  SubSeq(ask_arxiv(q), 1, Len(ask_arxiv(q)) - 1) \o <<Stop, Needs("ANYHOW"), Reply("one")>>

link(q) ==
  parse_ref_or_exit(q)
    \o <<Require(q.refs[1] = "doi", "ANYHOW"), Require(~Is(q, "base"), "ANYHOW")>>
    \o build_resolve_context \o <<Work("query"), Reply("one")>>

run_coverage(q) ==
  parse_ref_or_exit(q) \o build_resolve_context \o <<Work("query"), Reply("one")>>
run_sources(q) == <<Needs("ANYHOW"), Return(TRUE)>>

\* tag: the entry is read before it is known what to do with it.
tag(q) ==
  parse_ref_or_exit(q) \o the_store
    \o <<Read("ANYHOW"), Stop, Return(Is(q, "list")),
         Require(~Is(q, "text"), "ANYHOW"), Edit, Reply("plain")>>
run_annotate(q) ==
  <<Require(~Is(q, "neither"), "USAGE")>> \o parse_ref_or_exit(q) \o the_store
    \o <<Read("ANYHOW"), Stop, Require(~Is(q, "text"), "ANYHOW"), Edit, Reply("plain")>>

\* resolve-citation: nothing at all in the quiet mode; no session and no row.
resolve_citation(q) ==
  <<Return(Is(q, "quiet"))>> \o build_resolve_context
    \o <<Require(~Is(q, "base"), "ANYHOW"), Work("unlogged"), Reply("plain")>>
run_batch(q) ==
  <<Return(Is(q, "quiet"))>> \o build_resolve_context
    \o <<Require(~Is(q, "base"), "ANYHOW"),
         WorkUntil("unlogged", Errors), Reply("plain")>>

\* cite: GitHub is asked about a GitHub URL.  A ref is resolved, then perhaps its
\* published version and its repair; what cannot be resolved is cited from the
\* store, and with --offline only from there.
cite_github(q) ==
  <<Require(~Is(q, "offline"), "ANYHOW")>> \o build_resolve_context
    \o <<Work("query"), Reply("plain")>>
cite_ref(q) ==
  parse_ref_or_pubmed(q, ~Is(q, "offline"))
    \o (IF Is(q, "offline") THEN the_store \o <<Read("ANYHOW"), Reply("plain")>>
        ELSE build_resolve_context
               \o <<Needs("ANYHOW"), Work("query"), Fallback, Aside, Aside, Reply("plain")>>)
cite(q) == IF q.refs[1] = "software" THEN cite_github(q) ELSE cite_ref(q)

\* verify: which statuses fail.
is_failing(q) ==
  {"illegal", "absent"}
    \cup (IF Is(q, "strict") \/ Is(q, "config_strict") THEN {"unreachable"} ELSE {})
    \cup (IF Is(q, "strict") \/ Is(q, "missing_error") THEN {"unverifiable"} ELSE {})

\* The PubMed ids are looked up first, without a session; a row that cannot be
\* written, or an error of doiget's own, ends the command.
verify(q) ==
  <<Require(~Is(q, "format"), "ANYHOW"), Needs("USAGE")>>
    \o build_resolve_context
    \o <<Needs("ANYHOW"), Look(DOMAIN q.refs),
         WorkUntil("query", {"LOG_ERROR", "INTERNAL_ERROR"}), Tally(is_failing(q))>>

missing(q) ==
  <<Require(~Is(q, "format"), "ANYHOW"), Needs("USAGE")>> \o the_store
    \o (IF Is(q, "offline") THEN <<>>
        ELSE build_resolve_context \o <<Needs("ANYHOW"), Look(DOMAIN q.refs)>>)
    \o <<WorkUntil("missing", {"LOG_ERROR"}), Reply("many")>>

\* bib and csl: one ref, --all, or --from-file.
bib(q) ==
  <<Require(~Is(q, "neither"), "ANYHOW")>> \o the_store
    \o (CASE Is(q, "all") -> <<Needs("ANYHOW"), Return(TRUE)>>
          [] Is(q, "file") -> <<Needs("ANYHOW"), Read("ANYHOW"), Reply("many")>>
          [] OTHER -> parse_ref_or_exit(q) \o <<Read("ANYHOW"), Reply("plain")>>)
csl(q) == bib(q)

\* add: the context is built before the form of the command line is looked at.
\* Without --apply a directory is only planned.
add(q) ==
  (IF q.refs = <<>> THEN <<>> ELSE parse_ref_or_exit(q)) \o the_store
    \o build_resolve_context
    \o <<Needs("ANYHOW"), Require(~Is(q, "neither"), "USAGE")>>
    \o (IF ~Is(q, "dir") THEN <<Work("add"), Reply("one")>>
        ELSE <<Needs("ANYHOW"), Return(~Is(q, "apply")), Work("add"), Reply("many")>>)

\* graph: OpenAlex must be enabled ("off" when it is not).  What the expansion
\* failed with is in the session's last row; the exit status is 1.
graph(q) ==
  parse_ref_or_exit(q) \o <<Require(q.refs[1] = "doi", "USAGE")>>
    \o FetchHarness \o <<Require(~Is(q, "off"), "CAPABILITY_DENIED")>>
    \o InSession("query", "plain")

frontier(q) ==
  parse_ref_or_exit(q)
    \o <<Require(q.refs[1] = "doi", "INVALID_REF"), Require(~Is(q, "base"), "ANYHOW")>>
    \o FetchHarness \o InSession("query", "one")

\* The commands that look at a file and say what is wrong with it.
audit_log(q) ==
  <<Require(Is(q, "verify"), "USAGE"), Needs("ANYHOW"), Needs("ANYHOW"),
    Require(~Is(q, "issues"), "ANYHOW"), Return(TRUE)>>
lint(q) ==
  <<Needs("ANYHOW"), Exit((IF Is(q, "issues") THEN 1 ELSE 0)
                            + (IF Is(q, "warnings") /\ Is(q, "strict") THEN 2 ELSE 0))>>

\* run_dispatch.
run_dispatch(q) ==
  CASE q.tool = "fetch" -> fetch(q)
    [] q.tool = "info" -> info(q)
    [] q.tool = "list_recent" -> list_recent(q)
    [] q.tool = "search" -> search(q)
    [] q.tool = "text" -> text(q)
    [] q.tool = "tex_source" -> tex_source(q)
    [] q.tool = "source" -> source(q)
    [] q.tool = "link" -> link(q)
    [] q.tool = "coverage" -> run_coverage(q)
    [] q.tool = "sources" -> run_sources(q)
    [] q.tool = "tag" -> tag(q)
    [] q.tool = "annotate" -> run_annotate(q)
    [] q.tool = "resolve_citation" -> resolve_citation(q)
    [] q.tool = "batch_resolve_citations" -> run_batch(q)
    [] q.tool = "cite" -> cite(q)
    [] q.tool = "verify" -> verify(q)
    [] q.tool = "missing" -> missing(q)
    [] q.tool = "bib" -> bib(q)
    [] q.tool = "csl" -> csl(q)
    [] q.tool = "add" -> add(q)
    [] q.tool = "graph" -> graph(q)
    [] q.tool = "frontier" -> frontier(q)
    [] q.tool = "audit_log" -> audit_log(q)
    [] OTHER -> lint(q)
=============================================================================
