---------------------------- MODULE MCFetchPaper ----------------------------
(* Instances of FetchPaper for TLC: two publishers, one of them with PDFs,  *)
(* and two optional sources, one of which describes its locations.          *)
EXTENDS FetchPaper

MCTdmChain == <<"tdm-aps", "tdm-ieee">>
MCOptionalChain == <<"hal", "openalex">>
MCFinders == <<"openalex">>
MCRepairChain == <<"openalex">>

Doi(enabled, registrant) ==
  [kind |-> "doi", enabled |-> enabled, registrant |-> registrant, force |-> FALSE]

\* An arXiv id, and a DOI for every publisher and a choice of flags.
MCConfigs ==
  {[kind |-> "arxiv", enabled |-> {}, registrant |-> NoOne, force |-> f] : f \in BOOLEAN}
    \cup {Doi({}, "tdm-aps"), Doi({"tdm-aps"}, "tdm-aps"), Doi({"tdm-aps", "tdm-ieee"}, "tdm-ieee"),
          Doi({"hal", "openalex"}, NoOne), Doi({"biorxiv"}, NoOne),
          Doi({"openalex", "tdm-aps", "biorxiv"}, "tdm-aps")}
=============================================================================
