---------------------------- MODULE Bibliography ----------------------------
(***************************************************************************)
(* What an entry of a bibliography is fetched by (refs.rs): the adapters   *)
(* for BibTeX and for CSL-JSON each look at their own fields, in the order *)
(* DOI, arXiv, PubMed, software, and the first field that says something   *)
(* decides, also when it does not parse.  An entry known only to PubMed is *)
(* then looked up there (pubmed.rs) and becomes the DOI PubMed lists.      *)
(*                                                                         *)
(* A field is "none", "blank", "ok" (it parses) or "bad".  The archive of  *)
(* an eprint is "arxiv" in any case, "arxivlike" (arXiv.org: a name with   *)
(* arXiv in it), "pubmed", another, or not named.                          *)
(***************************************************************************)
EXTENDS Integers

CONSTANT Entries   \* [doi, archive, eprint, note, pmid, pmcid, url]

VARIABLES
  entry,      \* the entry
  bibtex,     \* what the BibTeX adapter makes of it
  csl,        \* what the CSL-JSON adapter makes of it
  looked_up   \* what PubMed says of it

biblioVars == <<entry, bibtex, csl, looked_up>>

NoEntry == [doi |-> "none", archive |-> "none", eprint |-> "none", note |-> "none",
            pmid |-> "none", pmcid |-> "none", url |-> "none"]

Says(field) == field \notin {"none", "blank"}
\* Ref::parse of a field that says something.
Parsed(kind, field) == IF field = "ok" THEN kind ELSE "InvalidRef"

\* arxiv_eligible, of BibTeX: an archive with arXiv in its name, or one that is
\* not named.
arxiv_eligible(e) == e.archive \in {"none", "arxiv", "arxivlike"}

\* unsupported_identifier: pmid, pmcid, or an eprint of PubMed.
unsupported_identifier(e) ==
  IF Says(e.pmid) THEN "PMID"
  ELSE IF Says(e.pmcid) THEN "PMCID"
  ELSE IF e.archive = "pubmed" /\ Says(e.eprint) THEN "PMID" ELSE "none"

\* csl_unsupported_identifier: the fields, then the note.
csl_unsupported_identifier(e) ==
  IF Says(e.pmid) THEN "PMID"
  ELSE IF Says(e.pmcid) THEN "PMCID"
  ELSE IF e.note = "pmcid" THEN "PMCID"
  ELSE IF e.note = "pmid" THEN "PMID" ELSE "none"

\* Mutant: the archive's number is looked at before the DOI.
parse_bibtex_entryArxivFirst(e) ==
  IF Says(e.eprint) /\ arxiv_eligible(e) THEN Parsed("arxiv", e.eprint)
  ELSE IF Says(e.doi) THEN Parsed("doi", e.doi)
  ELSE IF unsupported_identifier(e) # "none" THEN unsupported_identifier(e)
  ELSE IF e.url = "github" THEN "SoftwareUrl" ELSE "NoIdentifier"

parse_bibtex_entry(e) ==
  IF Says(e.doi) THEN Parsed("doi", e.doi)
  ELSE IF Says(e.eprint) /\ arxiv_eligible(e) THEN Parsed("arxiv", e.eprint)
  ELSE IF unsupported_identifier(e) # "none" THEN unsupported_identifier(e)
  ELSE IF e.url = "github" THEN "SoftwareUrl" ELSE "NoIdentifier"

\* An archive is arXiv's here only if that is its name.
parse_csl_entry(e) ==
  IF Says(e.doi) THEN Parsed("doi", e.doi)
  ELSE IF e.archive = "arxiv" /\ Says(e.eprint) THEN Parsed("arxiv", e.eprint)
  ELSE IF e.note \in {"arxiv", "arxiv_bad"} THEN Parsed("arxiv", IF e.note = "arxiv" THEN "ok" ELSE "bad")
  ELSE IF csl_unsupported_identifier(e) # "none" THEN csl_unsupported_identifier(e)
  ELSE IF e.url = "github" THEN "SoftwareUrl" ELSE "NoIdentifier"

BiblioInit == entry = NoEntry /\ bibtex = "unread" /\ csl = "unread" /\ looked_up = "none"

\* The same reference, exported both ways and read.
ReadEntry(e) ==
  /\ bibtex = "unread" /\ entry' = e
  /\ bibtex' = parse_bibtex_entry(e) /\ csl' = parse_csl_entry(e)
  /\ UNCHANGED looked_up

\* classify: PubMed lists a DOI, or none, or does not know the number, or the
\* request fails.
LookUpEntry ==
  /\ {bibtex, csl} \cap {"PMID", "PMCID"} # {} /\ looked_up = "none"
  /\ looked_up' \in {"doi", "NoDoi", "NotFound", "failed"}
  /\ UNCHANGED <<entry, bibtex, csl>>

BiblioNext == (\E e \in Entries : ReadEntry(e)) \/ LookUpEntry

BiblioSpec == BiblioInit /\ [][BiblioNext]_biblioVars

-----------------------------------------------------------------------------
(* Properties.                                                             *)

\* The identifiers both formats have a field for.
HasDoiOrArxiv(e) == Says(e.doi) \/ (e.archive = "arxiv" /\ Says(e.eprint))
HasIdentifier(e) == HasDoiOrArxiv(e) \/ Says(e.pmid) \/ Says(e.pmcid) \/ e.url = "github"

\* One reference, exported as BibTeX or as CSL-JSON, is fetched by the same
\* identifier, but where one adapter reads what the other does not: only CSL-JSON's
\* reads the note, and only BibTeX's takes an eprint whose archive is not named, is
\* PubMed, or has arXiv in a longer name.  Whatever those say, a DOI decides in both,
\* also when it is broken; neither falls back to PubMed or to a repository past a
\* DOI or an arXiv number; and neither says there is no identifier when one of the
\* fields both read has one.
FormatsAgree ==
  bibtex # "unread" =>
    /\ Says(entry.doi) => bibtex = csl /\ bibtex \in {"doi", "InvalidRef"}
    /\ bibtex # csl =>
         entry.note # "none" \/ (Says(entry.eprint) /\ entry.archive \in {"none", "arxivlike", "pubmed"})
    /\ {bibtex, csl} \cap {"PMID", "PMCID", "SoftwareUrl"} # {} => ~HasDoiOrArxiv(entry)
    /\ "NoIdentifier" \in {bibtex, csl} => ~HasIdentifier(entry)

\* Not a property of the code: an eprint that is said to be PubMed's is not taken
\* for no identifier ("the claim #500 exists to stop doiget making", refs.rs:398).
\* parse_csl_entry looks for the number in the PMID fields and in the note only.
PubMedIsNamed ==
  "NoIdentifier" \in {bibtex, csl} => ~(entry.archive = "pubmed" /\ Says(entry.eprint))
=============================================================================
