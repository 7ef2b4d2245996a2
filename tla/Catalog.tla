------------------------------ MODULE Catalog ------------------------------
(***************************************************************************)
(* The sources a build has: the catalog coverage and sources list, and the *)
(* allowlists the command line and the server each hand to their HTTP      *)
(* client.  These are tables kept by hand, apart from one another.  A      *)
(* source that is missing from one of them is offered and then refused, as *)
(* an unknown source, by the client that is to ask it.                     *)
(*                                                                         *)
(* A build is its set of features; a profile is the set of sources that    *)
(* are switched on.  An allowlist is represented by the source keys it has *)
(* an entry for; module Sources has what an entry does.                    *)
(***************************************************************************)
EXTENDS Integers

-----------------------------------------------------------------------------
(* source_catalog.rs                                                       *)

SourceInfo(name, tier, role, covers, feature, enable) ==
  [name |-> name, tier |-> tier, role |-> role, covers |-> covers, feature |-> feature, enable |-> enable]
t1(name, role, covers) == SourceInfo(name, 1, role, covers, "oa-only", {})
t2(name, role, enable) == SourceInfo(name, 2, role, "doi", "metadata", enable)
t3(name) == SourceInfo(name, 3, "content", name, name, {"DOIGET_KEY", "DOIGET_AGREE_TDM"})

\* Of the four publishers one is here: the others differ in their names only.
CATALOG == {
  t1("crossref", "metadata", "doi"), t1("unpaywall", "oa_location", "doi"),
  t1("oa-publisher", "content", "doi"), t1("arxiv", "content", "arxiv"),
  t2("datacite", "metadata", {"DOIGET_ENABLE_DATACITE"}),
  t2("europe-pmc", "oa_location", {"DOIGET_ENABLE_EUROPE_PMC"}),
  t2("openaire", "oa_location", {"DOIGET_ENABLE_OPENAIRE"}),
  t2("hal", "oa_location", {"DOIGET_ENABLE_HAL"}),
  t2("core", "oa_location", {"DOIGET_ENABLE_CORE", "DOIGET_CORE_API_KEY"}),
  t2("openalex", "oa_location", {"DOIGET_ENABLE_OPENALEX"}),
  t2("semantic_scholar", "metadata", {"DOIGET_ENABLE_S2"}),
  t2("ads", "oa_location", {"DOIGET_ADS_TOKEN"}),
  t2("inspire", "oa_location", {"DOIGET_ENABLE_INSPIRE"}),
  t2("biorxiv", "oa_location", {"DOIGET_ENABLE_BIORXIV"}),
  t2("doaj", "metadata", {"DOIGET_ENABLE_DOAJ"}),
  t3("tdm-aps")}

\* Whether a source speaks of a ref: "arxiv", "doi", or a publisher's name for a
\* DOI with a prefix of that publisher.
covers(info, ref) == info.covers = ref \/ (info.covers = "doi" /\ ref # "arxiv")

configured(info, build, profile) ==
  IF info.feature \notin build THEN "not_built"
  ELSE IF info.tier > 1 /\ info.name \notin profile THEN "not_enabled" ELSE "ready"

availability(info, build, profile, ref) ==
  LET a == configured(info, build, profile) IN
  IF a = "ready" /\ ~covers(info, ref) THEN "not_covered" ELSE a

\* coverage's verdict when no open copy is known: what has one perhaps and is not
\* asked, unless a publisher's source can be.
could_look(build, profile, ref) ==
  IF ref = "arxiv" \/ \E s \in CATALOG : s.tier = 3 /\ availability(s, build, profile, ref) = "ready" THEN {}
  ELSE {s \in CATALOG : /\ s.role \in {"oa_location", "content"}
                        /\ availability(s, build, profile, ref) \in {"not_enabled", "not_built"}
                        /\ covers(s, ref)}

-----------------------------------------------------------------------------
(* The allowlists of http.rs, by source key.                               *)

tier_1_allowlist == {"crossref", "unpaywall", "arxiv"}
pubmed_allowlist == {"ncbi"}
preprint_allowlist == {"biorxiv", "inspire", "ads"}
software_allowlist == {"github", "github-raw"}
tier_2_allowlist == {"openalex", "semantic_scholar", "doaj", "datacite", "hal", "openaire", "core", "europe-pmc"}
discovery_allowlist == {"openalex"}
fulltext_allowlist == {"ar5iv"}
tier_3_allowlists(build) == build \cap {"tdm-aps", "tdm-elsevier", "tdm-springer", "tdm-ieee"}
oa_publisher_allowlist == {"oa-publisher"}

\* Mutant: the preprint finders were thought to be part of tier 2.
cli_clientTiered(build) ==
  tier_1_allowlist \cup oa_publisher_allowlist \cup discovery_allowlist \cup fulltext_allowlist
  \cup software_allowlist \cup pubmed_allowlist
  \cup (IF "metadata" \in build THEN tier_2_allowlist ELSE {}) \cup tier_3_allowlists(build)

\* The CLI's build_http_client.
cli_client(build) ==
  tier_1_allowlist \cup oa_publisher_allowlist \cup discovery_allowlist \cup fulltext_allowlist
  \cup software_allowlist \cup pubmed_allowlist \cup preprint_allowlist
  \cup (IF "metadata" \in build THEN tier_2_allowlist ELSE {}) \cup tier_3_allowlists(build)

\* The server's build_http_client_for_fetch: no tool cites a repository, and
\* OpenAlex is of tier 2 alone.
mcp_client(build) ==
  tier_1_allowlist \cup oa_publisher_allowlist \cup pubmed_allowlist \cup preprint_allowlist
  \cup tier_2_allowlist \cup fulltext_allowlist \cup tier_3_allowlists(build)

\* What is asked in every build, whatever the profile: searches and citation
\* graphs, full text, PubMed's numbers and, on the command line, repositories.
AlwaysAsked == {"openalex", "ar5iv", "ncbi"}
=============================================================================
