----------------------------- MODULE MCAnswers -----------------------------
(***************************************************************************)
(* The parts of doiget that share no state with one another, each on its   *)
(* own instance: the caches, the migration of the log, the settings and    *)
(* the source catalog, the citation graph, searches, full text, software   *)
(* citations and bibliographies.  A behaviour is a behaviour of one part;  *)
(* the others stay where they begin.                                       *)
(***************************************************************************)
EXTENDS CitationGraph, Caches, LogMigration, Settings, PaperText, Discovery, Software, Bibliography, TLC

VARIABLE part
Parts == {"graph", "caches", "migration", "settings", "text", "discovery", "software", "bibliography"}

-----------------------------------------------------------------------------
(* Citation graphs: two cycles, a diamond with a chord, a star that is     *)
(* wider than the cap, a work that cites itself.                           *)

MCWorlds ==
  { "s" :> <<"a", "b">> @@ "a" :> <<"c", "s">> @@ "b" :> <<"c">> @@ "c" :> <<"d", "a">> @@ "d" :> <<>>,
    "s" :> <<"a", "b", "c">> @@ "a" :> <<"d">> @@ "b" :> <<"b">> @@ "c" :> <<>> @@ "d" :> <<"c", "d">>,
    "s" :> <<"a", "d">> @@ "a" :> <<"c">> @@ "b" :> <<"c", "s">> @@ "c" :> <<"d">> @@ "d" :> <<"b">>,
    "s" :> <<>> @@ "a" :> <<>> @@ "b" :> <<>> @@ "c" :> <<>> @@ "d" :> <<>> }
MCRequests == [depth : 0..4, total : {0, 1, 3, 5, 9}, per_paper : {0, 1, 2, 9}]

-----------------------------------------------------------------------------
(* Caches: one name per ref, or one for all.                               *)

OwnKey == [r \in CacheRefs |-> r]
SharedKey == [r \in CacheRefs |-> "k"]
NoTtl == [k \in CacheKinds |-> 0]
CallerSymmetry == Permutations(Callers)

-----------------------------------------------------------------------------
(* Logs of format 1: good, with a broken chain, already of format 2, with  *)
(* a line that is no row, empty, none.                                     *)

A1 == MigRow(1, 1, 1, <<>>)
A2 == MigRow(2, 1, 2, A1.this_hash)
B2 == MigRow(2, 1, 1, <<>>)
C1 == MigRow(1, 2, 1, <<>>)
C2 == MigRow(2, 2, 2, C1.this_hash)
D2 == MigRow(2, 2, 1, <<>>)
MCLogs == {<<A1, A2>>, <<A1, B2>>, <<C1, C2>>, <<C1, D2>>, <<A1, BadLine>>, <<>>, Absent}

-----------------------------------------------------------------------------
(* Settings.                                                               *)

MCBuilds == {{"oa-only"}, {"oa-only", "metadata"}, {"oa-only", "metadata", "tdm-aps"}}
MCEnvValues ==
  [v \in {"DOIGET_STORE_ROOT", "XDG_CONFIG_HOME", "HOME", "DOIGET_CONTACT_EMAIL", "DOIGET_UNPAYWALL_EMAIL",
          "DOIGET_AGREE_TDM", "DOIGET_KEY", "DOIGET_ENABLE_BIORXIV", "DOIGET_ADS_TOKEN"} |->
     CASE v = "DOIGET_STORE_ROOT" -> {"", "${placeholder}", "a"}
       [] v = "DOIGET_AGREE_TDM"  -> {"1", "yes"}
       [] v = "HOME"              -> {"", Unset}
       [] OTHER                   -> {"", "a"}]
MCPathValues == [v \in {"DOIGET_LOG_PATH", "XDG_CONFIG_HOME", "APPDATA", "HOME", "USERPROFILE"} |-> {"", "a", Unset}]
MCConfigs ==
  {[Default EXCEPT !.root = "b", !.hosts = {"h"}], [Default EXCEPT !.root = "", !.contact = "c", !.academic = TRUE],
   [Default EXCEPT !.unpaywall = "u", !.contact = ""], BrokenConfig}
MCCreds ==
  {[NoCreds EXCEPT !.key = "k"], [NoCreds EXCEPT !.key = "", !.agreed = TRUE],
   [NoCreds EXCEPT !.key = "j", !.agreed = TRUE], BrokenCreds}

-----------------------------------------------------------------------------
(* Full text and sources: archives of up to two entries.                   *)

Ent(header, safe, what, regular, read, score) ==
  [header |-> header, safe |-> safe, what |-> what, regular |-> regular, read |-> read, score |-> score]
MCArchived ==
  {Ent("bad", TRUE, "tex", TRUE, "ok", 0), Ent("ok", FALSE, "tex", TRUE, "ok", 3), Ent("ok", TRUE, "tex", TRUE, "ok", 1),
   Ent("ok", TRUE, "tex", TRUE, "ok", 2), Ent("ok", TRUE, "tex", TRUE, "blank", 0), Ent("ok", TRUE, "figure", TRUE, "bad", 0),
   Ent("ok", TRUE, "figure", TRUE, "ok", 0), Ent("ok", TRUE, "tex", FALSE, "blank", 1)}
MCPayloads ==
  [form : {"tar"}, blank : {FALSE},
   entries : {<<>>} \cup {<<a>> : a \in MCArchived} \cup {<<a, b>> : a, b \in MCArchived}]
  \cup [form : {"pdf", "file", "corrupt"}, blank : BOOLEAN, entries : {<<>>}]

-----------------------------------------------------------------------------
(* Searches over five works, one of which has no year.                     *)

Work(id, year, cited_by, fwci, oa, by, rel, refs) ==
  [id |-> id, year |-> year, cites |-> cited_by, fwci |-> fwci, pct |-> 20 * cited_by, oa |-> oa, by |-> by, rel |-> rel, refs |-> refs,
   arxiv |-> FALSE]
MCCorpus ==
  {Work("w0", 1, 5, 3, TRUE, {"a1", "v1"}, 1, {}), Work("w1", 2, 2, 3, TRUE, {"a1"}, 4, {"w0"}),
   Work("w2", 3, 0, 0, FALSE, {"a2", "v1"}, 3, {"w0"}), Work("w3", 2, 2, 1, TRUE, {"a1", "v1"}, 2, {"w0", "w1"}),
   Work("w4", 0, 1, 3, TRUE, {"a1"}, 5, {"w0"})}
Named(id, exact, relevance) == [id |-> id, exact |-> exact, relevance |-> relevance]
MCNamed ==
  {Named("a1", TRUE, 2), Named("a1", FALSE, 3), Named("a2", TRUE, 1), Named("a2", FALSE, 4),
   Named("v1", TRUE, 0), Named("v1", FALSE, 0), Named("v1", FALSE, 1)}
MCNameAnswers == {s \in SUBSET MCNamed : Cardinality(s) <= 2 /\ \A c, d \in s : c.id = d.id => c = d}
MCSearches ==
  [terms : {0, 2}, limit : {0, 2, 3}, from : {0, 2}, to : {0, 1, 2}, oa_only : {FALSE}, min_citations : {0, 1},
   min_fwci : {0}, min_percentile : {0}, names : {<<>>, <<"author">>, <<"author", "venue">>}]
  \cup [terms : {9}, limit : {3}, from : {3}, to : {3}, oa_only : {TRUE}, min_citations : {2}, min_fwci : {2},
        min_percentile : {0}, names : {<<"venue", "publisher">>}]
  \cup [terms : {2}, limit : {3}, from : {0}, to : {0}, oa_only : BOOLEAN, min_citations : {0, 2}, min_fwci : {0, 2},
        min_percentile : {0, 20, 40, 101}, names : {<<>>, <<"author">>, <<"venue">>}]
MCFrontiers == [seed : {"w0", "w1", "x"}, limit : 0..4, min_year : 0..3]

-----------------------------------------------------------------------------
(* Bibliographies.                                                         *)

MCEntries ==
  [doi : {"none", "blank", "ok", "bad"}, archive : {"none", "arxiv", "arxivlike", "pubmed", "other"},
   eprint : {"none", "blank", "ok", "bad"}, note : {"none", "arxiv", "arxiv_bad", "pmid", "pmcid"},
   pmid : {"none", "ok"}, pmcid : {"none", "blank", "ok"}, url : {"none", "github", "other"}]

-----------------------------------------------------------------------------
Init ==
  /\ part \in Parts
  /\ GraphInit /\ CacheInit /\ MigInit /\ SettingsInit /\ TextInit /\ DiscoveryInit /\ SoftwareInit /\ BiblioInit
  /\ part = "settings" \/ build = {"oa-only"}

Next ==
  \/ /\ part = "graph" /\ GraphNext
     /\ UNCHANGED <<part, cacheVars, migVars, settingsVars, textVars, discoveryVars, softwareVars, biblioVars>>
  \/ /\ part = "caches" /\ CacheNext
     /\ UNCHANGED <<part, graphVars, migVars, settingsVars, textVars, discoveryVars, softwareVars, biblioVars>>
  \/ /\ part = "migration" /\ MigNext
     /\ UNCHANGED <<part, graphVars, cacheVars, settingsVars, textVars, discoveryVars, softwareVars, biblioVars>>
  \/ /\ part = "settings" /\ SettingsNext
     /\ UNCHANGED <<part, graphVars, cacheVars, migVars, textVars, discoveryVars, softwareVars, biblioVars>>
  \/ /\ part = "text" /\ TextNext
     /\ UNCHANGED <<part, graphVars, cacheVars, migVars, settingsVars, discoveryVars, softwareVars, biblioVars>>
  \/ /\ part = "discovery" /\ DiscoveryNext
     /\ UNCHANGED <<part, graphVars, cacheVars, migVars, settingsVars, textVars, softwareVars, biblioVars>>
  \/ /\ part = "software" /\ SoftwareNext
     /\ UNCHANGED <<part, graphVars, cacheVars, migVars, settingsVars, textVars, discoveryVars, biblioVars>>
  \/ /\ part = "bibliography" /\ BiblioNext
     /\ UNCHANGED <<part, graphVars, cacheVars, migVars, settingsVars, textVars, discoveryVars, softwareVars>>

vars == <<part, graphVars, cacheVars, migVars, settingsVars, textVars, discoveryVars, softwareVars, biblioVars>>
Spec == Init /\ [][Next]_vars
=============================================================================
