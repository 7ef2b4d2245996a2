---------------------------- MODULE SourceTable ----------------------------
(***************************************************************************)
(* The places doiget asks, one definition per fetch function.  They share  *)
(* one skeleton, which module Sources has: the gate, the permit, one GET   *)
(* or two, the reading of the body and the provenance row.  A definition   *)
(* here says how a function fills the skeleton in.                         *)
(*                                                                         *)
(*   key     names its allowlist and its permits                           *)
(*   serves  the kinds of ref it takes                                     *)
(*   gate    "open", "flag" (a switch of the profile) or "grant" (a TDM    *)
(*           grant with a key)                                             *)
(*   legs    its GETs in order; the failure of a leg that is not needed is *)
(*           logged to the console and no more                             *)
(*   bad     the bodies it does not accept, and the error each becomes:    *)
(*           "garbled" cannot be parsed, "alien" lacks the field that is   *)
(*           looked up, "empty" has no result, "closed" no open copy       *)
(*   rows    when it appends a row: "success", "always" (an HTTP error     *)
(*           too), "never", or "best_effort": always, and a row that       *)
(*           cannot be appended is ignored                                 *)
(*   none404 HTTP 404 is an answer (Ok(None)), not an error                *)
(***************************************************************************)
EXTENDS Sequences

Leg(pdf, needed) == [pdf |-> pdf, needed |-> needed]
Document == Leg(FALSE, TRUE)
Pdf == Leg(TRUE, TRUE)

Asked(key, serves, gate, bad) ==
  [key |-> key, serves |-> serves, gate |-> gate, bad |-> bad,
   legs |-> <<Document>>, rows |-> "success", none404 |-> FALSE]

Schema(bodies) == [b \in bodies |-> "SourceSchema"]
Found(none, closed) ==
  [b \in {"garbled", "alien", "empty", "closed"} |->
     CASE b = "empty"                -> none
       [] b = "closed"               -> closed
       [] b \in {"garbled", "alien"} -> "SourceSchema"]

-----------------------------------------------------------------------------
(* Tier 1.                                                                 *)

crossref == Asked("crossref", {"doi"}, "open", Schema({"garbled", "alien"}))
resolve_citation ==
  [Asked("crossref", {"query"}, "open", Schema({"garbled", "alien"})) EXCEPT !.rows = "never"]
unpaywall == Asked("unpaywall", {"doi"}, "open", Schema({"garbled"}))

\* The Atom feed first, for what it is worth, then the PDF.
Atom == [b \in {"garbled", "empty"} |-> IF b = "empty" THEN "NotFound" ELSE "SourceSchema"]
arxiv == [Asked("arxiv", {"arxiv"}, "open", Atom) EXCEPT !.legs = <<Leg(FALSE, FALSE), Pdf>>]
fetch_metadata_only == Asked("arxiv", {"arxiv"}, "open", Atom)

-----------------------------------------------------------------------------
(* Tier 2, each behind a switch.  A DOI that is not there is an HTTP 404    *)
(* from those that look it up, an empty list from those that search.        *)

openalex == Asked("openalex", {"doi"}, "flag", Schema({"garbled", "alien"}))
semantic_scholar == Asked("semantic_scholar", {"doi"}, "flag", Schema({"garbled", "alien"}))
datacite == Asked("datacite", {"doi"}, "flag", Schema({"garbled", "alien"}))
doaj == Asked("doaj", {"doi"}, "flag", Schema({"garbled", "alien", "empty"}))
core == Asked("core", {"doi"}, "flag",
              [b \in {"garbled", "alien", "empty"} |->
                 IF b = "empty" THEN "NotFound" ELSE "SourceSchema"])
europe_pmc == Asked("europe-pmc", {"doi"}, "flag", Found("NotFound", "NotRetrievable"))
hal == Asked("hal", {"doi"}, "flag", Found("SourceSchema", "NotRetrievable"))
openaire == Asked("openaire", {"doi"}, "flag", Found("SourceSchema", "NotRetrievable"))

-----------------------------------------------------------------------------
(* Tier 3: text and data mining, with a key.                               *)

tdm_aps == Asked("tdm-aps", {"doi"}, "grant", Schema({"garbled", "alien"}))
\* fetch_content: the paper itself; without a grant there is nothing to say.
tdm_aps_content == [Asked("tdm-aps", {"doi"}, "grant_or_none", Schema({})) EXCEPT !.legs = <<Pdf>>]
tdm_elsevier == Asked("tdm-elsevier", {"doi"}, "grant", Schema({"garbled", "alien"}))
tdm_springer == Asked("tdm-springer", {"doi"}, "grant", Schema({"garbled", "alien", "empty"}))
tdm_ieee == Asked("tdm-ieee", {"doi"}, "grant", Schema({"garbled", "alien", "empty"}))

-----------------------------------------------------------------------------
(* The other askers.                                                       *)

\* discovery::openalex_get; what a search or an entity lookup lacks is found
\* out after the row.
openalex_get == Asked("openalex", {"query"}, "open", Schema({"garbled"}))
\* The text of what could be parsed; a document without any is an error.
paper_text == Asked("ar5iv", {"arxiv"}, "open", [b \in {"empty"} |-> "TextUnavailable"])
\* "closed" is a submission that is only a PDF.
paper_tex_source ==
  Asked("arxiv", {"arxiv"}, "open",
        [b \in {"garbled", "empty", "closed"} |->
           IF b = "garbled" THEN "SourceSchema" ELSE "TextUnavailable"])
paper_source_bundle ==
  Asked("arxiv", {"arxiv"}, "open",
        [b \in {"garbled", "empty", "closed"} |->
           IF b = "garbled" THEN "SourceSchema" ELSE "SourceUnavailable"])
ncbi_lookup == [Asked("ncbi", {"pmid"}, "open", Schema({"garbled"})) EXCEPT !.rows = "always"]
github_get ==
  [Asked("github", {"software"}, "open", Schema({})) EXCEPT !.rows = "always", !.none404 = TRUE]
logged_get ==
  [Asked("preprint", {"doi"}, "open", Schema({})) EXCEPT !.rows = "always", !.none404 = TRUE]
try_fetch_oa_pdf ==
  [Asked("oa-publisher", {"doi"}, "open", Schema({})) EXCEPT !.rows = "best_effort", !.legs = <<Pdf>>]

SourceTable ==
  {crossref, resolve_citation, unpaywall, arxiv, fetch_metadata_only, openalex,
   semantic_scholar, datacite, doaj, core, europe_pmc, hal, openaire, tdm_aps,
   tdm_aps_content, tdm_elsevier, tdm_springer, tdm_ieee, openalex_get, paper_text,
   paper_tex_source, paper_source_bundle, ncbi_lookup, github_get, logged_get,
   try_fetch_oa_pdf}
=============================================================================
