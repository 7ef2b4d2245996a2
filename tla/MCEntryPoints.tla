--------------------------- MODULE MCEntryPoints ---------------------------
(* Two tool calls of one server, and a command.                           *)
EXTENDS CliCommands

CONSTANTS s1, s2, cli

None == [tool |-> "none", refs |-> <<>>, flags |-> {}]
Q(tool, refs, flags) == [tool |-> tool, refs |-> refs, flags |-> flags]

AnyOf(tool, kinds, flagsets) ==
  {Q(tool, <<k>>, fs) : k \in kinds, fs \in flagsets}

Tools ==
  UNION {
    {Q("health", <<>>, {}), Q("capability_profile", <<>>, {}), Q("search_local", <<"query">>, {}),
     Q("list_recent", <<"query">>, {})},
    AnyOf("metadata_only", {"doi", "pmid", "bad"}, {{}, {"dry"}}),
    AnyOf("fetch_paper", {"doi", "pmid", "bad"}, {{}, {"dry"}}),
    AnyOf("resolve_paper", {"doi", "pmid"}, {{}}),
    {Q("batch_fetch", <<"doi", "pmid">>, fs) : fs \in {{}, {"dry"}, {"many"}}},
    {Q("batch_fetch", <<"doi", "bad">>, {})},
    {Q("batch_from_bibliography", <<"doi", "pmid", "noid">>, fs) :
        fs \in {{}, {"strict"}, {"format"}, {"undecodable"}}},
    {Q("batch_from_bibliography", <<"isbn", "software">>, {}),
     Q("bibtex_export", <<"doi", "bad">>, {}), Q("csl_export", <<"arxiv">>, {"many"})},
    AnyOf("info", {"doi", "bad"}, {{}}), AnyOf("paper_pdf_path", {"arxiv", "bad"}, {{}}),
    AnyOf("paper_search", {"query"}, {{}, {"invalid"}, {"base"}}),
    AnyOf("paper_text", {"doi", "arxiv"}, {{}, {"base"}}),
    AnyOf("paper_tex_source", {"arxiv"}, {{}}), AnyOf("link", {"doi", "arxiv"}, {{}}),
    AnyOf("expand_citation_graph", {"doi", "arxiv"}, {{}}),
    AnyOf("resolve_citation", {"query"}, {{}, {"base"}}),
    {Q("batch_resolve_citations", <<"query", "query">>, {})},
    AnyOf("tag", {"doi", "bad"}, {{}}), AnyOf("annotate", {"doi"}, {{}, {"text"}}) }

Commands ==
  UNION {
    AnyOf("fetch", {"doi", "pmid", "bad"}, {{}, {"dry"}}),
    AnyOf("info", {"doi", "bad"}, {{}}), {Q("list_recent", <<"query">>, {})},
    AnyOf("search", {"query"}, {{}, {"local"}, {"text"}, {"invalid"}}),
    AnyOf("text", {"doi", "arxiv"}, {{}}), AnyOf("tex_source", {"arxiv"}, {{}}),
    AnyOf("source", {"arxiv"}, {{}, {"base"}}), AnyOf("link", {"doi", "arxiv"}, {{}}),
    AnyOf("coverage", {"doi"}, {{}}), {Q("sources", <<>>, {})},
    AnyOf("tag", {"doi"}, {{}, {"list"}, {"text"}}),
    AnyOf("annotate", {"doi"}, {{}, {"neither"}}),
    AnyOf("resolve_citation", {"query"}, {{}, {"quiet"}}),
    {Q("batch_resolve_citations", <<"query", "query">>, {})},
    AnyOf("cite", {"doi", "pmid", "software"}, {{}, {"offline"}}),
    {Q("verify", <<"doi", "pmid", "software", "noid">>, fs) :
        fs \in {{}, {"strict"}, {"config_strict"}, {"missing_error"}}},
    {Q("missing", <<"doi", "pmid", "isbn">>, fs) : fs \in {{}, {"offline"}, {"local"}}},
    {Q("bib", <<"doi">>, {"neither"}), Q("bib", <<"doi">>, {"all"}),
     Q("bib", <<"doi", "bad">>, {"file"}), Q("csl", <<"doi">>, {})},
    {Q("add", <<"doi">>, {}), Q("add", <<>>, {"neither"}),
     Q("add", <<"doi", "arxiv">>, {"dir"}), Q("add", <<"doi", "arxiv">>, {"dir", "apply"})},
    AnyOf("graph", {"doi", "arxiv"}, {{}, {"off"}}),
    AnyOf("frontier", {"doi", "arxiv"}, {{}}),
    {Q("audit_log", <<>>, fs) : fs \in {{}, {"verify"}, {"verify", "issues"}}},
    {Q("lint", <<>>, fs) : fs \in {{}, {"issues"}, {"warnings", "strict"}}} }

With(q, steps) == [tool |-> q.tool, refs |-> q.refs, flags |-> q.flags, steps |-> steps]
Tool(t) == With(t, IF t = None THEN <<>> ELSE tool_router(t))
Command(q) == With(q, IF q = None THEN <<>> ELSE run_dispatch(q))
Scene(t1, t2, command) == (s1 :> Tool(t1)) @@ (s2 :> Tool(t2)) @@ (cli :> Command(command))

\* Every tool and every command alone; tools of one server together; a command
\* beside a server's call.
MCScenarios ==
  {Scene(t, None, None) : t \in Tools} \cup {Scene(None, None, q) : q \in Commands}
    \cup {Scene(t, Q("resolve_paper", <<"doi">>, {}), None) :
            t \in {Q("metadata_only", <<"doi">>, {}), Q("resolve_citation", <<"query">>, {})}}
    \cup {Scene(Q("fetch_paper", <<"doi">>, {}), Q("annotate", <<"doi">>, {}), None),
          Scene(Q("metadata_only", <<"doi">>, {}), None, Q("info", <<"doi">>, {})),
          Scene(Q("metadata_only", <<"doi">>, {}), None, Q("cite", <<"doi">>, {}))}

MCCallers == {s1, s2, cli}
MCServerCalls == {s1, s2}
\* A tool and a command may share a name.
============
