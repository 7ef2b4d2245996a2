------------------------------ MODULE McpTools ------------------------------
(***************************************************************************)
(* The tools of the MCP server (doiget-mcp/src/lib.rs), each as the        *)
(* sequence of its steps; Calls says what the steps do.  A request is      *)
(* [tool, refs, flags]; a flag says what else of the input matters.        *)
(***************************************************************************)
EXTENDS Calls, SequencesExt

Is(q, flag) == flag \in q.flags
Parsed(q) == q.refs[1] \in {"doi", "arxiv"}

\* Server::fetch_context, with what its callers make of its failure.
fetch_context(code) == <<OpenLog(code), Share, Needs(code)>>

\* pubmed::lookup_in_session.
lookup_in_session(k, code) ==
  <<Start("ncbi_start", code), Look({k}), LookEnd(TRUE, code), Settle({k})>>

\* Server::ref_or_pubmed for the k-th ref.
ref_or_pubmed(q, k, network) ==
  CASE q.refs[k] # "pmid" -> <<Require(q.refs[k] \in {"doi", "arxiv"}, "INVALID_REF")>>
    [] q.refs[k] = "pmid" /\ ~network -> <<Require(FALSE, "INVALID_REF")>>
    [] OTHER -> fetch_context("INTERNAL_ERROR") \o lookup_in_session(k, "LOG_ERROR")

Dry(q) == Is(q, "dry")

doiget_health(q) == <<Return(TRUE)>>
doiget_capability_profile(q) == <<Return(TRUE)>>

doiget_metadata_only(q) ==
  ref_or_pubmed(q, 1, ~Dry(q)) \o <<Return(Dry(q))>>
    \o fetch_context("INTERNAL_ERROR")
    \o <<Needs("STORE_ERROR"),  \* resolve_store_root
         Needs("STORE_ERROR"),  \* FsStore::new
         Start("start", "LOG_ERROR"), Work("metadata"), End(TRUE), Reply("one")>>

doiget_resolve_paper(q) ==
  ref_or_pubmed(q, 1, TRUE) \o fetch_context("INTERNAL_ERROR")
    \o <<Start("start", "LOG_ERROR"), Work("query"), End(TRUE), Reply("one")>>

\* The store's root and the store, as the tools below open it.
open_store == <<Needs("INTERNAL_ERROR"), Needs("STORE_ERROR")>>

doiget_fetch_paper(q) ==
  ref_or_pubmed(q, 1, ~Dry(q)) \o <<Return(Dry(q))>>
    \o fetch_context("INTERNAL_ERROR") \o open_store
    \o <<Start("start", "LOG_ERROR"), Work("fetch"), End(TRUE), Reply("one")>>

\* More than MAX_BATCH_REFS refs ("many") are refused; the refs are parsed one
\* by one, lookups included, and the first that is unusable ends the call.
doiget_batch_fetch(q) ==
  <<Require(~Is(q, "many"), "INVALID_REF")>>
    \o FlattenSeq([k \in DOMAIN q.refs |-> ref_or_pubmed(q, k, ~Dry(q))])
    \o <<Return(Dry(q))>>
    \o fetch_context("INTERNAL_ERROR") \o open_store
    \o <<Start("start", "LOG_ERROR"), Work("fetch"), End(FALSE), Reply("many")>>

\* pubmed::resolve_entries_in_session: one session for all of the lookups, and
\* none if there is nothing to look up.
HasPubmed(q) == \E k \in DOMAIN q.refs : q.refs[k] = "pmid"
resolve_entries_in_session(q, code) ==
  IF HasPubmed(q)
  THEN <<Start("ncbi_start", code), Look(DOMAIN q.refs), LookEnd(FALSE, code)>>
  ELSE <<>>

\* The format, the file and its decoding; the entries, with strict ending the
\* call at the first unusable one, the PubMed ids among them looked up first.
bibliography_entries(q) ==
  <<Require(~Is(q, "format"), "INVALID_REF"), Needs("INVALID_REF"),
    Require(~Is(q, "undecodable"), "INVALID_REF")>>
    \o (IF HasPubmed(q) THEN fetch_context("INTERNAL_ERROR") ELSE <<>>)
    \o resolve_entries_in_session(q, "LOG_ERROR")
    \o <<Settle(IF Is(q, "strict") THEN DOMAIN q.refs ELSE {}), Require(~Is(q, "many"), "INVALID_REF")>>

doiget_batch_from_bibliography(q) ==
  bibliography_entries(q)
    \o fetch_context("INTERNAL_ERROR") \o open_store
    \o <<Start("start", "LOG_ERROR"), Work("fetch"), End(FALSE), Reply("entries")>>

\* The tools that only read the store.  A missing entry is not an error.
doiget_info(q) ==
  <<Require(Parsed(q), "INVALID_REF")>> \o open_store \o <<Read("none"), Reply("one")>>
doiget_search_local(q) == open_store \o <<Read("none"), Reply("one")>>
doiget_list_recent(q) == open_store \o <<Read("none"), Reply("one")>>
doiget_paper_pdf_path(q) ==
  <<Require(Parsed(q), "INVALID_REF")>> \o open_store \o <<Read("none"), Reply("one")>>

\* Server::export_citations, for BibTeX and for CSL: a ref that does not parse,
\* or an entry that cannot be read, is an error inside the list.
export_citations(q) ==
  <<Require(~Is(q, "many"), "INVALID_REF")>> \o open_store \o <<Read("none"), Reply("many")>>
doiget_bibtex_export(q) == export_citations(q)
doiget_csl_export(q) == export_citations(q)

\* The tools that put one question to one source: a base URL ("base" when the
\* override is not a URL), the context, and a session around the question.
ask_in_session(base, coded) ==
  <<Require(base, "INTERNAL_ERROR")>> \o fetch_context("INTERNAL_ERROR")
    \o <<Start("start", "LOG_ERROR"), Work("query"), End(coded), Reply("one")>>

doiget_paper_search(q) ==
  <<Require(~Is(q, "invalid"), "INVALID_REF")>> \o ask_in_session(~Is(q, "base"), TRUE)

doiget_paper_text(q) ==
  <<Require(q.refs[1] # "doi", "NOT_IMPLEMENTED"), Require(Parsed(q), "INVALID_REF")>>
    \o ask_in_session(~Is(q, "base"), FALSE)
doiget_paper_tex_source(q) ==
  <<Require(q.refs[1] # "doi", "NOT_IMPLEMENTED"), Require(Parsed(q), "INVALID_REF")>>
    \o ask_in_session(~Is(q, "base"), FALSE)
doiget_link(q) ==
  <<Require(q.refs[1] = "doi", "INVALID_REF")>> \o ask_in_session(~Is(q, "base"), FALSE)

\* An override that is not a URL is ignored here.
doiget_expand_citation_graph(q) ==
  <<Require(Parsed(q), "INVALID_REF"), Require(q.refs[1] = "doi", "INVALID_REF")>>
    \o ask_in_session(TRUE, TRUE)

\* Citation strings are looked up without a session, and without a row.
doiget_resolve_citation(q) ==
  fetch_context("INTERNAL_ERROR")
    \o <<Require(~Is(q, "base"), "CAPABILITY_DENIED"), Work("unlogged"), Reply("one")>>
doiget_batch_resolve_citations(q) ==
  <<Require(~Is(q, "many"), "INVALID_REF")>> \o fetch_context("INTERNAL_ERROR")
    \o <<Require(~Is(q, "base"), "CAPABILITY_DENIED"), Work("unlogged"), Reply("many")>>

\* The tools that edit what the user wrote about an entry.  annotate looks at
\* its text ("text" when there is none) only once it has read the entry.
doiget_tag(q) ==
  <<Require(Parsed(q), "INVALID_REF")>> \o open_store
    \o <<Read("STORE_ERROR"), Stop, Edit, Reply("one")>>
doiget_annotate(q) ==
  <<Require(Parsed(q), "INVALID_REF")>> \o open_store
    \o <<Read("STORE_ERROR"), Stop, Require(~Is(q, "text"), "INVALID_REF"), Edit, Reply("one")>>

\* The tool router.
tool_router(q) ==
  CASE q.tool = "health" -> doiget_health(q)
    [] q.tool = "capability_profile" -> doiget_capability_profile(q)
    [] q.tool = "metadata_only" -> doiget_metadata_only(q)
    [] q.tool = "resolve_paper" -> doiget_resolve_paper(q)
    [] q.tool = "fetch_paper" -> doiget_fetch_paper(q)
    [] q.tool = "batch_fetch" -> doiget_batch_fetch(q)
    [] q.tool = "batch_from_bibliography" -> doiget_batch_from_bibliography(q)
    [] q.tool = "info" -> doiget_info(q)
    [] q.tool = "search_local" -> doiget_search_local(q)
    [] q.tool = "list_recent" -> doiget_list_recent(q)
    [] q.tool = "paper_pdf_path" -> doiget_paper_pdf_path(q)
    [] q.tool = "bibtex_export" -> doiget_bibtex_export(q)
    [] q.tool = "csl_export" -> doiget_csl_export(q)
    [] q.tool = "paper_search" -> doiget_paper_search(q)
    [] q.tool = "paper_text" -> doiget_paper_text(q)
    [] q.tool = "paper_tex_source" -> doiget_paper_tex_source(q)
    [] q.tool = "link" -> doiget_link(q)
    [] q.tool = "expand_citation_graph" -> doiget_expand_citation_graph(q)
    [] q.tool = "resolve_citation" -> doiget_resolve_citation(q)
    [] q.tool = "batch_resolve_citations" -> doiget_batch_resolve_citations(q)
    [] q.tool = "tag" -> doiget_tag(q)
    [] OTHER -> doiget_annotate(q)
=============================================================================
