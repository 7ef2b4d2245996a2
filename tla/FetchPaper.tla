----------------------------- MODULE FetchPaper -----------------------------
(***************************************************************************)
(* One fetch (orchestrator.rs, fetch_paper_with), from its session_start   *)
(* row to its session_end row: the metadata legs, the open-access leg, the *)
(* fallbacks that follow it, and the entry that is written at the end.     *)
(* Every leg asks a source that may answer, refuse, or answer while the    *)
(* row about it cannot be appended.  The code decides leg by leg which of  *)
(* these ends the fetch, which is reported and which is dropped; the model *)
(* keeps those decisions and takes every answer from the environment.      *)
(*                                                                         *)
(* A request and its row are one step.  sent is a history of them.         *)
(***************************************************************************)
EXTENDS Integers, Sequences, FiniteSets

CONSTANTS
  TdmChain,        \* the Tier-3 sources compiled in, in chain order
  ContentSources,  \* those of TdmChain that serve PDFs (tdm-aps)
  OptionalChain,   \* the Tier-2 sources, in chain order
  DocumentSources, \* those of OptionalChain that report a document's URL
  Describers,      \* those that describe locations without a URL (openalex)
  Finders,         \* preprint finders asked before arXiv's search
  RepairChain,     \* sources asked to repair a garbled title
  Errors,          \* how the environment may refuse a request
  MaxLocations,    \* bound: OA locations Unpaywall reports for one DOI
  Configs          \* [kind, enabled, registrant, force]: what a fetch is of,
                   \* the sources switched on, the TDM source whose publisher
                   \* registered the DOI, and --refetch

NoOne == "none"
SetOf(chain) == {chain[k] : k \in 1..Len(chain)}
Sources == SetOf(TdmChain) \cup SetOf(OptionalChain) \cup SetOf(Finders)
             \cup SetOf(RepairChain) \cup {"biorxiv"}

\* HttpError, and the FetchErrors only some sources raise.
HttpErrors == {"Http404", "Network", "RedirectDenied", "NotAPdf"}
FetchErrors == HttpErrors \cup {"NotFound", "NotRetrievable"}

ASSUME ChainAssumption ==
  /\ \A c \in {TdmChain, OptionalChain, Finders, RepairChain} : c \in Seq(STRING)
  /\ \A c \in {TdmChain, OptionalChain} :
       \A j, k \in 1..Len(c) : c[j] = c[k] => j = k
  /\ SetOf(TdmChain) \cap (SetOf(OptionalChain) \cup SetOf(Finders)
                            \cup SetOf(RepairChain) \cup {"biorxiv"}) = {}
  /\ NoOne \notin Sources
  /\ {"crossref", "unpaywall", "arxiv", "oa-publisher", "oa", "repository",
      "preprint"} \cap Sources = {}
  /\ ContentSources \subseteq SetOf(TdmChain)
  /\ DocumentSources \subseteq SetOf(OptionalChain)
  /\ Describers \subseteq DocumentSources
  /\ Errors \subseteq FetchErrors /\ MaxLocations \in Nat
  /\ Configs \subseteq [kind : {"doi", "arxiv"}, enabled : SUBSET Sources,
                        registrant : SetOf(TdmChain) \cup {NoOne},
                        force : BOOLEAN]

VARIABLES
  cfg,        \* the configuration of this fetch
  pc, i,      \* the leg under way, and the position in its chain
  cross,      \* "unasked", "ok", or why Crossref failed (crossref_err)
  tdmMeta,    \* tdm_meta is some record
  resolved,   \* optional_resolved: who answered the first chain
  holder,     \* whose record the OA fallback reads
  fresh,      \* the rows of the chain that is running
  attempts,   \* the trace: a sequence of [source, outcome]
  left,       \* OA candidates not tried yet
  suggested,  \* one of them is an arXiv URL
  discovered, \* preprint::find named an arXiv preprint
  leg, block, \* PdfLegStatus, and the last candidate's error
  bytes,      \* where pdf_bytes came from
  license,    \* whose licence the entry will carry
  sent,       \* history: the requests, why they were sent and the row they left
  file,       \* the PDF this fetch put in the store, by its origin
  store,      \* the entry this fetch wrote
  write_row,  \* the store_write row: "none", "ok", "err", or "lost"
  outcome     \* what the caller is told

metaVars == <<cross, tdmMeta, resolved, holder, fresh, attempts>>
legVars  == <<left, suggested, discovered, leg, block, bytes, license>>
entryVars == <<file, store, write_row>>
vars == <<cfg, pc, i, metaVars, legVars, sent, entryVars, outcome>>

Untold  == [result |-> "none", code |-> "none"]
NoEntry == [pdf |-> "none", license |-> "none", label |-> "none"]

\* From<&FetchError> for ErrorCode.
Code(e) ==
  CASE e \in {"NotFound", "Http404"}      -> "NOT_FOUND"
    [] e = "RedirectDenied"               -> "CAPABILITY_DENIED"
    [] e \in {"NotRetrievable", "NotAPdf"} -> "NO_OA_AVAILABLE"
    [] e = "Network"                      -> "NETWORK_ERROR"
    [] e = "Log"                          -> "LOG_ERROR"
    [] OTHER                              -> "INTERNAL_ERROR"

Codes == {"NOT_FOUND", "CAPABILITY_DENIED", "NO_OA_AVAILABLE", "NETWORK_ERROR",
          "LOG_ERROR", "INTERNAL_ERROR", "REPLAYED", "RATE_LIMITED"}

classify_attempt(e) ==
  CASE e = "NotFound"                       -> "NoRecord"
    [] e = "NotRetrievable"                 -> "NotOpenAccess"
    [] e \in {"RedirectDenied", "NotAPdf"}  -> "Denied"
    [] OTHER                                -> "Failed"

\* AttemptOutcome, and AttemptOutcome::was_consulted.
Skipped   == {"Disabled", "WrongPublisher", "NotNeeded"}
Consulted == {"NoRecord", "NotOpenAccess", "Denied", "Failed", "Resolved"}

Row(s, o) == [source |-> s, outcome |-> o]
Without(rows, names) == SelectSeq(rows, LAMBDA a : a.source \notin names)

-----------------------------------------------------------------------------
(* Requests.  A Source appends its row only for an answer, and a row that  *)
(* cannot be appended turns the answer into FetchError::Log; the OA leg    *)
(* appends a row in either case and goes on without it; the finders append *)
(* one in either case and give up without it.                              *)

ErrorsOf(s) == IF s \in Sources THEN Errors ELSE Errors \cap HttpErrors

\* row is "ok" or "err" as the row says, "none" if none is appended, "lost" if
\* it could not be, and "unknown" if nobody looked.
Request(s, why, row) == [source |-> s, why |-> why, row |-> row]

\* Source::fetch: the results r it may have, and what each leaves behind.
Results(s) == {"ok", "Log"} \cup ErrorsOf(s)
Asked(s, why, r) ==
  sent' = sent \cup
    {Request(s, why, CASE r = "ok" -> "ok" [] r = "Log" -> "lost" [] OTHER -> "none")}

\* try_fetch_oa_pdf, of a location known for the reason why.  Whether its row
\* was appended is not looked at.
OaFetched(why, got) ==
  /\ got \in {"ok"} \cup ErrorsOf("oa-publisher")
  /\ sent' = sent \cup {Request("oa-publisher", why, "unknown")}

\* preprint::logged_get, for the reason why.
Looked(s, why, got, row) ==
  /\ got \in {"ok"} \cup (Errors \cap HttpErrors)
  /\ row \in {IF got = "ok" THEN "ok" ELSE "err", "lost"}
  /\ sent' = sent \cup {Request(s, why, row)}

\* The call is over.  The session_end row that follows is best effort: its
\* failure changes nothing here (RepeatIndex models what it feeds).
Fail(code) == outcome' = [result |-> "err", code |-> code] /\ pc' = "done"

-----------------------------------------------------------------------------
Init ==
  /\ cfg \in Configs /\ pc = "start" /\ i = 0
  /\ cross = "unasked" /\ tdmMeta = FALSE
  /\ resolved = NoOne /\ holder = NoOne
  /\ fresh = <<>> /\ attempts = <<>>
  /\ left = 0 /\ suggested = FALSE /\ discovered = FALSE
  /\ leg = "none" /\ block = "none" /\ bytes = "none" /\ license = "unknown"
  /\ sent = {} /\ outcome = Untold
  /\ file = "none" /\ store = NoEntry /\ write_row = "none"

\* The session_start row is fail-closed: without it nothing is asked.
SessionStart ==
  /\ pc = "start"
  /\ \/ pc' = "check" /\ UNCHANGED outcome
     \/ pc' = "done" /\ outcome' = [result |-> "err", code |-> "LOG_ERROR"]
  /\ UNCHANGED <<cfg, i, metaVars, legVars, sent, entryVars>>

\* fetch_paper_with: the verdict of repeat suppression, overridden by force if
\* a repeat_forced row can be appended.
Check ==
  /\ pc = "check"
  /\ LET go == IF cfg.kind = "doi" THEN "crossref" ELSE "arxivref"
     IN  \/ pc' = go /\ UNCHANGED outcome
         \/ cfg.force /\ Fail("LOG_ERROR")
         \/ ~cfg.force /\ \E code \in {"REPLAYED", "RATE_LIMITED"} : Fail(code)
  /\ UNCHANGED <<cfg, i, metaVars, legVars, sent, entryVars>>

\* fetch_paper_arxiv, up to its staging.
ArxivRef ==
  /\ pc = "arxivref"
  /\ \E r \in Results("arxiv") :
       /\ Asked("arxiv", "content", r)
       /\ IF r = "ok"
          THEN /\ bytes' = "arxiv" /\ license' = "arxiv" /\ leg' = "Fetched"
               /\ pc' = "stage" /\ UNCHANGED outcome
          ELSE Fail(Code(r)) /\ UNCHANGED <<bytes, license, leg>>
  /\ UNCHANGED <<cfg, i, metaVars, left, suggested, discovered, block, entryVars>>

\* Issue #120: whatever Crossref answers, the fetch goes on.
Crossref ==
  /\ pc = "crossref"
  /\ \E r \in Results("crossref") : Asked("crossref", "metadata", r) /\ cross' = r
  /\ pc' = "tdm" /\ i' = 1
  /\ UNCHANGED <<cfg, tdmMeta, resolved, holder, fresh, attempts, legVars, entryVars,
                 outcome>>

\* One entry of resolve_tdm_chain.
TdmSkip(s) ==
  IF cross = "ok" \/ tdmMeta THEN "NotNeeded"
  ELSE IF cfg.registrant # s THEN "WrongPublisher"
  ELSE IF s \notin cfg.enabled THEN "Disabled" ELSE "none"

Tdm ==
  /\ pc = "tdm" /\ i <= Len(TdmChain)
  /\ LET s == TdmChain[i]
     IN  \/ /\ TdmSkip(s) # "none"
            /\ attempts' = Append(attempts, Row(s, TdmSkip(s)))
            /\ UNCHANGED <<tdmMeta, sent>>
         \/ /\ TdmSkip(s) = "none"
            /\ \E r \in Results(s) :
                 /\ Asked(s, "metadata", r)
                 /\ tdmMeta' = (r = "ok")
                 /\ attempts' = Append(attempts,
                      Row(s, IF r = "ok" THEN "Resolved" ELSE classify_attempt(r)))
  /\ i' = i + 1
  /\ UNCHANGED <<cfg, pc, cross, resolved, holder, fresh, legVars, entryVars, outcome>>

TdmEnd ==
  /\ pc = "tdm" /\ i > Len(TdmChain)
  /\ pc' = "optional" /\ i' = 1
  /\ UNCHANGED <<cfg, metaVars, legVars, sent, entryVars, outcome>>

\* One entry of resolve_optional_chain, run for the metadata before the OA leg
\* and for a copy after it (try_optional_source_oa_fallback).
Answered == pc = "optional" /\ (cross = "ok" \/ tdmMeta)

\* Bug: only an answer of this chain itself makes the rest of it unneeded.
OptionalSkipOwn(s) ==
  IF holder # NoOne THEN "NotNeeded"
  ELSE IF s \notin cfg.enabled THEN "Disabled" ELSE "none"

OptionalSkip(s) ==
  IF Answered \/ holder # NoOne THEN "NotNeeded"
  ELSE IF s \notin cfg.enabled THEN "Disabled" ELSE "none"

Optional ==
  /\ pc \in {"optional", "again"} /\ i \in 1..Len(OptionalChain)
  /\ LET s == OptionalChain[i]
     IN  \/ /\ OptionalSkip(s) # "none"
            /\ fresh' = Append(fresh, Row(s, OptionalSkip(s)))
            /\ UNCHANGED <<holder, sent>>
         \/ /\ OptionalSkip(s) = "none"
            /\ \E r \in Results(s) :
                 /\ Asked(s, IF pc = "again" THEN "again" ELSE "metadata", r)
                 /\ holder' = IF r = "ok" THEN s ELSE NoOne
                 /\ fresh' = Append(fresh,
                      Row(s, IF r = "ok" THEN "Resolved" ELSE classify_attempt(r)))
  /\ i' = i + 1
  /\ UNCHANGED <<cfg, pc, cross, tdmMeta, resolved, attempts, legVars, entryVars, outcome>>

\* The chain's rows replace the ones an earlier run of it left.
MergeFresh(names) == attempts' = Without(attempts, names) \o fresh

OptionalEnd ==
  /\ pc \in {"optional", "again"} /\ i > Len(OptionalChain)
  /\ MergeFresh({a.source : a \in SetOf(fresh)})
  /\ fresh' = <<>>
  /\ resolved' = IF pc = "optional" THEN holder ELSE resolved
  /\ pc' = IF pc = "optional" THEN "unpaywall" ELSE "copy"
  /\ i' = 0
  /\ UNCHANGED <<cfg, cross, tdmMeta, holder, legVars, sent, entryVars, outcome>>

-----------------------------------------------------------------------------
(* The OA leg: Unpaywall's locations (extract_oa_url_chain), in order.     *)

Unpaywall ==
  /\ pc = "unpaywall"
  /\ \E r \in Results("unpaywall") : \E n \in 0..MaxLocations :
     \E known, arx \in BOOLEAN :
       /\ r # "ok" => n = 0 /\ ~known
       /\ arx => n > 0
       /\ Asked("unpaywall", "oa", r)
       /\ license' = IF known THEN "work" ELSE "unknown"
       /\ left' = n /\ suggested' = arx
       /\ leg' = IF n = 0 THEN "NoOaUrl" ELSE "none"
       /\ pc' = IF n = 0 THEN "find" ELSE "oa"
  /\ UNCHANGED <<cfg, i, metaVars, discovered, block, bytes, entryVars, outcome>>

OaCandidate ==
  /\ pc = "oa"
  /\ \E got \in {"ok"} \cup FetchErrors :
       /\ OaFetched("oa", got)
       /\ \/ /\ got = "ok"
             /\ bytes' = "oa" /\ leg' = "Fetched" /\ pc' = "find"
             /\ left' = 0 /\ UNCHANGED block
          \/ /\ got # "ok" /\ block' = got /\ left' = left - 1
             /\ leg' = IF left = 1 THEN "Blocked" ELSE leg
             /\ pc' = IF left = 1 THEN "find" ELSE "oa"
             /\ UNCHANGED bytes
  /\ UNCHANGED <<cfg, i, metaVars, suggested, discovered, license, entryVars, outcome>>

-----------------------------------------------------------------------------
(* The fallbacks, in the code's order.  Each begins with its own test of   *)
(* the leg, and a fallback that does not apply is passed over.             *)

Failed == leg \in {"Blocked", "NoOaUrl"}
After == [find |-> "arxiv", arxiv |-> "again", again |-> "copy", copy |-> "content",
          content |-> "pdoi", pdoi |-> "guard"]

Applies(p) ==
  CASE p = "find"    -> leg = "NoOaUrl" \/ (leg = "Blocked" /\ ~suggested)
    [] p = "arxiv"   -> \/ leg = "Blocked" /\ (suggested \/ discovered)
                        \/ leg = "NoOaUrl" /\ discovered
    [] p = "again"   -> bytes = "none" /\ Failed /\ holder = NoOne
    [] p = "copy"    -> bytes = "none" /\ Failed /\ holder # NoOne
    [] p = "content" -> bytes = "none" /\ leg = "Blocked"
    [] p = "pdoi"    -> Failed

PassOver ==
  /\ pc \in DOMAIN After /\ i = 0 /\ ~Applies(pc)
  /\ pc' = After[pc]
  /\ UNCHANGED <<cfg, i, metaVars, legVars, sent, entryVars, outcome>>

\* A fallback that walks a chain starts it.
Begin ==
  /\ pc \in {"again", "content"} /\ i = 0 /\ Applies(pc)
  /\ i' = 1
  /\ UNCHANGED <<cfg, pc, metaVars, legVars, sent, entryVars, outcome>>

\* preprint::find: the relation in Crossref's record, the finders switched on,
\* then arXiv's search if the record names a title and an author to search for.
FindRelation ==
  /\ pc = "find" /\ i = 0 /\ Applies("find")
  /\ \E named \in BOOLEAN :
       /\ named => cross = "ok"
       /\ discovered' = named
       /\ pc' = IF named THEN "arxiv" ELSE "find"
       /\ i' = IF named THEN 0 ELSE 1
  /\ UNCHANGED <<cfg, metaVars, left, suggested, leg, block, bytes, license, sent,
                 entryVars, outcome>>

FinderAt(k) == IF k <= Len(Finders) THEN Finders[k] ELSE "arxiv"

\* Bug: a lookup whose row is lost found nothing.
FindAskOpen ==
  /\ pc = "find" /\ i \in 1..(Len(Finders) + 1)
  /\ IF FinderAt(i) = "arxiv" THEN cross = "ok" ELSE FinderAt(i) \in cfg.enabled
  /\ \E got \in {"ok"} \cup FetchErrors : \E row \in {"ok", "err", "lost"} :
     \E named \in BOOLEAN :
       /\ Looked(FinderAt(i), "find", got, row)
       /\ named => got = "ok" /\ row = "ok"
       /\ discovered' = named
       /\ pc' = IF named THEN "arxiv" ELSE "find"
       /\ i' = IF named THEN 0 ELSE i + 1
  /\ UNCHANGED <<cfg, metaVars, left, suggested, leg, block, bytes, license, entryVars,
                 outcome>>

FindAsk ==
  /\ pc = "find" /\ i \in 1..(Len(Finders) + 1)
  /\ IF FinderAt(i) = "arxiv" THEN cross = "ok" ELSE FinderAt(i) \in cfg.enabled
  /\ \E got \in {"ok"} \cup FetchErrors : \E row \in {"ok", "err", "lost"} :
     \E named \in BOOLEAN :
       /\ Looked(FinderAt(i), "find", got, row)
       /\ named => got = "ok" /\ row = "ok"
       /\ discovered' = named
       /\ IF row = "lost" THEN Fail("LOG_ERROR") /\ i' = 0
          ELSE /\ UNCHANGED outcome
               /\ pc' = IF named THEN "arxiv" ELSE "find"
               /\ i' = IF named THEN 0 ELSE i + 1
  /\ UNCHANGED <<cfg, metaVars, left, suggested, leg, block, bytes, license, entryVars>>

\* A finder that is off, or a record with nothing to search for.
FindSkip ==
  /\ pc = "find" /\ i \in 1..(Len(Finders) + 1)
  /\ FinderAt(i) # "arxiv" => FinderAt(i) \notin cfg.enabled
  /\ i' = i + 1
  /\ UNCHANGED <<cfg, pc, metaVars, legVars, sent, entryVars, outcome>>

FindEnd ==
  /\ pc = "find" /\ i > Len(Finders) + 1
  /\ pc' = "arxiv" /\ i' = 0
  /\ UNCHANGED <<cfg, metaVars, legVars, sent, entryVars, outcome>>

\* try_arxiv_preprint_fallback; any failure keeps the leg.
ArxivFallback ==
  /\ pc = "arxiv" /\ Applies("arxiv")
  /\ \E r \in Results("arxiv") :
       /\ Asked("arxiv", "content", r)
       /\ IF r = "ok"
          THEN bytes' = "arxiv" /\ license' = "arxiv" /\ leg' = "PreprintFallback"
          ELSE UNCHANGED <<bytes, license, leg>>
  /\ pc' = "again"
  /\ UNCHANGED <<cfg, i, metaVars, left, suggested, discovered, block, entryVars, outcome>>

\* Bug: the copy's failure replaces the block by a clean miss.
CopyFailedClean == leg' = "NoOaUrl" /\ UNCHANGED bytes
CopyFailed == UNCHANGED <<leg, bytes>>

\* try_optional_source_oa_fallback, once a record is at hand: the copy it
\* names, or the row that says it names none.
Copy ==
  /\ pc = "copy" /\ Applies("copy")
  /\ \/ /\ holder \in DocumentSources
        /\ \E got \in {"ok"} \cup FetchErrors :
             /\ OaFetched("copy", got)
             /\ IF got = "ok" THEN bytes' = "repository" /\ leg' = "Fetched"
                ELSE CopyFailed
        /\ UNCHANGED attempts
     \/ /\ \/ UNCHANGED attempts
           \/ /\ holder \in Describers
              /\ attempts' = [k \in 1..Len(attempts) |->
                   IF attempts[k].source = holder THEN Row(holder, "NotOpenAccess")
                   ELSE attempts[k]]
        /\ UNCHANGED <<leg, bytes, sent>>
  /\ pc' = "content"
  /\ UNCHANGED <<cfg, i, cross, tdmMeta, resolved, holder, fresh, left, suggested,
                 discovered, block, license, entryVars, outcome>>

\* One entry of try_tdm_content_fallback; its rows replace the metadata's.
Record(s, o) == attempts' = Append(Without(attempts, {s}), Row(s, o))

Content ==
  /\ pc = "content" /\ i \in 1..Len(TdmChain)
  /\ LET s == TdmChain[i]
     IN  \/ /\ cfg.registrant # s /\ Record(s, "WrongPublisher")
            /\ i' = i + 1 /\ UNCHANGED <<pc, leg, bytes, sent>>
         \/ /\ cfg.registrant = s /\ s \notin cfg.enabled /\ Record(s, "Disabled")
            /\ i' = i + 1 /\ UNCHANGED <<pc, leg, bytes, sent>>
         \/ /\ cfg.registrant = s /\ s \in cfg.enabled /\ s \notin ContentSources
            /\ i' = i + 1 /\ UNCHANGED <<pc, leg, bytes, sent, attempts>>
         \/ /\ cfg.registrant = s /\ s \in cfg.enabled /\ s \in ContentSources
            /\ \E r \in Results(s) :
                 /\ Asked(s, "content", r)
                 /\ IF r = "ok"
                    THEN /\ Record(s, "Resolved")
                         /\ bytes' = s /\ leg' = "TdmFetched"
                         /\ pc' = "pdoi" /\ i' = 0
                    ELSE /\ Record(s, classify_attempt(r))
                         /\ i' = i + 1 /\ UNCHANGED <<pc, leg, bytes>>
  /\ UNCHANGED <<cfg, cross, tdmMeta, resolved, holder, fresh, left, suggested,
                 discovered, block, license, entryVars, outcome>>

ContentEnd ==
  /\ pc = "content" /\ i > Len(TdmChain)
  /\ pc' = "pdoi" /\ i' = 0
  /\ UNCHANGED <<cfg, metaVars, legVars, sent, entryVars, outcome>>

\* try_preprint_doi_fallback: find_preprint_doi, Unpaywall about the preprint,
\* and the locations it reports.  The two bioRxiv servers are asked in turn.
PreprintRelation ==
  /\ pc = "pdoi" /\ i = 0 /\ Applies("pdoi")
  /\ \/ cross = "ok" /\ pc' = "locate" /\ UNCHANGED i
     \/ "biorxiv" \notin cfg.enabled /\ pc' = "guard" /\ UNCHANGED i
     \/ "biorxiv" \in cfg.enabled /\ i' = 1 /\ UNCHANGED pc
  /\ UNCHANGED <<cfg, metaVars, legVars, sent, entryVars, outcome>>

BiorxivPubs ==
  /\ pc = "pdoi" /\ i \in 1..2
  /\ \E got \in {"ok"} \cup FetchErrors : \E row \in {"ok", "err", "lost"} :
     \E named \in BOOLEAN :
       /\ Looked("biorxiv", "find", got, row)
       /\ named => got = "ok" /\ row = "ok"
       /\ IF row = "lost" THEN Fail("LOG_ERROR") /\ i' = 0
          ELSE /\ UNCHANGED outcome
               /\ pc' = IF named THEN "locate" ELSE IF i = 2 THEN "guard" ELSE "pdoi"
               /\ i' = IF named \/ i = 2 THEN 0 ELSE i + 1
  /\ UNCHANGED <<cfg, metaVars, legVars, entryVars>>

\* Bug: Unpaywall is asked again until it answers.
PreprintLocateRetry ==
  /\ pc = "locate"
  /\ \E r \in Results("unpaywall") : \E n \in 0..MaxLocations :
       /\ Asked("unpaywall", "preprint", r)
       /\ r # "ok" => n = 0
       /\ left' = n
       /\ IF r = "Log" THEN Fail("LOG_ERROR")
          ELSE /\ pc' = IF r # "ok" THEN "pdoi" ELSE IF n = 0 THEN "guard" ELSE "poa"
               /\ UNCHANGED outcome
  /\ UNCHANGED <<cfg, i, metaVars, suggested, discovered, leg, block, bytes, license,
                 entryVars>>

PreprintLocate ==
  /\ pc = "locate"
  /\ \E r \in Results("unpaywall") : \E n \in 0..MaxLocations :
       /\ Asked("unpaywall", "preprint", r)
       /\ r # "ok" => n = 0
       /\ left' = n
       /\ IF r = "Log" THEN Fail("LOG_ERROR")
          ELSE pc' = (IF n = 0 THEN "guard" ELSE "poa") /\ UNCHANGED outcome
  /\ UNCHANGED <<cfg, i, metaVars, suggested, discovered, leg, block, bytes, license,
                 entryVars>>

PreprintCandidate ==
  /\ pc = "poa"
  /\ \E got \in {"ok"} \cup FetchErrors :
       /\ OaFetched("preprint", got)
       /\ IF got = "ok"
          THEN /\ bytes' = "preprint" /\ license' = "preprint"
               /\ leg' = "PreprintDoiFallback"
               /\ left' = 0 /\ pc' = "guard"
          ELSE /\ left' = left - 1
               /\ pc' = IF left = 1 THEN "guard" ELSE "poa"
               /\ UNCHANGED <<bytes, license, leg>>
  /\ UNCHANGED <<cfg, i, metaVars, suggested, discovered, block, entryVars, outcome>>

-----------------------------------------------------------------------------
(* What the legs brought is judged and written.                            *)

\* #458: a TDM copy carries no open licence.
LicenseOf(l) == IF l = "TdmFetched" THEN "unknown" ELSE license

\* #120: Crossref's failure is fatal only when nothing else came back, and then
\* as the trace's NotFound.
Guard ==
  /\ pc = "guard"
  /\ license' = LicenseOf(leg)
  /\ IF cross # "ok" /\ bytes = "none" /\ resolved = NoOne /\ ~tdmMeta
     THEN Fail(IF attempts # <<>> THEN "NOT_FOUND" ELSE Code(cross))
     ELSE pc' = "stage" /\ UNCHANGED outcome
  /\ UNCHANGED <<cfg, i, metaVars, left, suggested, discovered, leg, block, bytes, sent,
                 entryVars>>

\* stage_pdf_to_tempfile, and whether the title that was found lost characters.
Titled == cross = "ok" \/ resolved # NoOne
Stage ==
  /\ pc = "stage"
  /\ \/ bytes # "none" /\ Fail("INTERNAL_ERROR") /\ UNCHANGED i
     \/ pc' = "store" /\ UNCHANGED <<i, outcome>>
     \/ cfg.kind = "doi" /\ Titled /\ pc' = "repair" /\ i' = 1 /\ UNCHANGED outcome
  /\ UNCHANGED <<cfg, metaVars, legVars, sent, entryVars>>

\* metadata_quality::repair_with: an answer may restore the title; a failure,
\* of the log too, is skipped.
Repair ==
  /\ pc = "repair" /\ i <= Len(RepairChain)
  /\ \/ RepairChain[i] \notin cfg.enabled /\ UNCHANGED <<pc, sent>> /\ i' = i + 1
     \/ /\ RepairChain[i] \in cfg.enabled
        /\ \E r \in Results(RepairChain[i]) : \E restored \in BOOLEAN :
             /\ Asked(RepairChain[i], "repair", r)
             /\ restored => r = "ok"
             /\ pc' = IF restored THEN "store" ELSE "repair"
             /\ i' = IF restored THEN 0 ELSE i + 1
  /\ UNCHANGED <<cfg, metaVars, legVars, entryVars, outcome>>

RepairEnd ==
  /\ pc = "repair" /\ i > Len(RepairChain)
  /\ pc' = "store" /\ i' = 0
  /\ UNCHANGED <<cfg, metaVars, legVars, sent, entryVars, outcome>>

\* final_source_label
Label ==
  CASE bytes = "none"             -> IF license = "work" THEN "unpaywall" ELSE "crossref"
    [] leg = "PreprintFallback"   -> "arxiv"
    [] leg = "TdmFetched"         -> bytes
    [] cfg.kind = "arxiv"         -> "arxiv"
    [] OTHER                      -> "oa-publisher"

\* FsStore::write, up to the PDF: the lock, the entry on disk, the merged entry's
\* TOML and the copy of the PDF may each fail before the PDF takes its name.
StorePdf ==
  /\ pc = "store"
  /\ \/ file' = bytes /\ pc' = "metadata"
     \/ pc' = "unstored" /\ UNCHANGED file
  /\ UNCHANGED <<cfg, i, metaVars, legVars, sent, store, write_row, outcome>>

\* Then the metadata, which may fail with the PDF in place.
StoreMetadata ==
  /\ pc = "metadata"
  /\ \/ store' = [pdf |-> bytes, license |-> license, label |-> Label] /\ pc' = "row"
     \/ pc' = "unstored" /\ UNCHANGED store
  /\ UNCHANGED <<cfg, i, metaVars, legVars, sent, file, write_row, outcome>>

\* write_metadata_and_pdf, after an error of the store: the row about it is best
\* effort.
StoreFailed ==
  /\ pc = "unstored" /\ write_row' \in {"err", "lost"}
  /\ Fail("INTERNAL_ERROR")
  /\ UNCHANGED <<cfg, i, metaVars, legVars, sent, file, store>>

\* FetchPaperOutcome::reported_error_code
Reported == IF leg = "Blocked" THEN Code(block) ELSE "none"
Succeed == outcome' = [result |-> "ok", code |-> Reported] /\ pc' = "done"

\* Bug: the row about the write is best effort.
StoreRowBestEffort ==
  /\ pc = "row" /\ write_row' \in {"ok", "lost"}
  /\ Succeed
  /\ UNCHANGED <<cfg, i, metaVars, legVars, sent, file, store>>

\* After a write that succeeded it is not.
StoreRow ==
  /\ pc = "row"
  /\ \/ write_row' = "ok" /\ Succeed
     \/ write_row' = "lost" /\ Fail("LOG_ERROR")
  /\ UNCHANGED <<cfg, i, metaVars, legVars, sent, file, store>>

Next ==
  \/ SessionStart \/ Check \/ ArxivRef \/ Crossref \/ Tdm \/ TdmEnd
  \/ Optional \/ OptionalEnd \/ Unpaywall \/ OaCandidate
  \/ PassOver \/ Begin \/ FindRelation \/ FindAsk \/ FindSkip \/ FindEnd
  \/ ArxivFallback \/ Copy \/ Content \/ ContentEnd
  \/ PreprintRelation \/ BiorxivPubs \/ PreprintLocate \/ PreprintCandidate
  \/ Guard \/ Stage \/ Repair \/ RepairEnd
  \/ StorePdf \/ StoreMetadata \/ StoreFailed \/ StoreRow

Spec == Init /\ [][Next]_vars

\* Every request, write and append returns: the HTTP client has a timeout, and
\* neither the store nor the log waits for another leg of the same fetch.
FairSpec == Spec /\ WF_vars(Next)
-----------------------------------------------------------------------------
(* Properties.                                                             *)

Legs == {"none", "NoOaUrl", "Blocked", "Fetched", "PreprintFallback", "TdmFetched",
         "PreprintDoiFallback"}
Origins == {"none", "oa", "repository", "arxiv", "preprint"} \cup ContentSources
AnyResult == {"ok", "Log"} \cup FetchErrors
Attempt == [source : Sources, outcome : Skipped \cup Consulted]

\* The locals of fetch_paper_doi, the entry and the outcome keep their types.
TypeOK ==
  /\ cfg \in Configs
  /\ i \in Nat /\ left \in 0..MaxLocations
  /\ cross \in {"unasked"} \cup AnyResult /\ block \in {"none"} \cup HttpErrors
  /\ resolved \in SetOf(OptionalChain) \cup {NoOne}
  /\ holder \in SetOf(OptionalChain) \cup {NoOne}
  /\ fresh \in Seq(Attempt) /\ attempts \in Seq(Attempt)
  /\ {tdmMeta, suggested, discovered} \subseteq BOOLEAN
  /\ leg \in Legs /\ bytes \in Origins
  /\ license \in {"unknown", "work", "arxiv", "preprint"}
  /\ {file, store.pdf} \subseteq Origins /\ write_row \in {"none", "ok", "err", "lost"}
  /\ outcome.result \in {"none", "ok", "err"} /\ outcome.code \in Codes \cup {"none"}

\* Issue #118: when a copy Unpaywall named was refused and nothing else was
\* fetched, the caller is never told of a clean metadata-only success, whatever
\* the fallbacks that ran after the refusal found (PdfLegStatus::Blocked).
BlockedIsReported ==
  outcome.result = "ok" /\ store.pdf = "none" =>
    \A q \in sent : q.why = "oa" /\ q.source = "oa-publisher" => outcome.code = Code(block)

\* #458, #640: the entry's licence and source are those of the file that landed,
\* for every route but a copy from an optional source: a preprint carries the
\* preprint's, the publisher's TDM copy none, and no file is credited to a
\* source that did not serve it.
ArtifactIsLabelled ==
  store # NoEntry =>
    /\ store.label = "arxiv" <=> store.pdf = "arxiv"
    /\ store.pdf = "arxiv" => store.license = "arxiv"
    /\ store.pdf = "preprint" => store.license = "preprint"
    /\ store.pdf \in ContentSources => store.label = store.pdf /\ store.license = "unknown"
    /\ store.pdf \in {"oa", "repository"} => store.license \in {"work", "unknown"}

\* #413, #442, #468: once the legs are over, the trace has exactly one row for
\* every compiled-in source, through both chains, the second run of one and the
\* replacement of rows by the other; a row that says a source was consulted is
\* backed by a request.
TraceIsComplete ==
  pc \in {"guard", "stage", "store", "metadata", "row"} /\ cfg.kind = "doi" =>
    /\ \A s \in SetOf(TdmChain) \cup SetOf(OptionalChain) :
         Cardinality({k \in 1..Len(attempts) : attempts[k].source = s}) = 1
    /\ \A k \in 1..Len(attempts) :
         attempts[k].outcome \in Consulted =>
           \E q \in sent : q.source = attempts[k].source /\ q.why # "repair"

\* ADR-0040, ADR-0041: a Tier-3 source hears only of DOIs its own publisher
\* registered, an optional source only when it is switched on, and neither is
\* asked for a DOI that Crossref and the OA leg served.
AskedOnlyWhenNeeded ==
  \A q \in sent :
    /\ q.source \in Sources => q.source \in cfg.enabled
    /\ q.source \in SetOf(TdmChain) => q.source = cfg.registrant
    /\ q.source \in Sources /\ q.why # "repair" => ~(cross = "ok" /\ bytes = "oa")

\* What reaches the store came from an answer that is in the log, for every
\* source but oa-publisher: a PDF from arXiv or under a TDM agreement has its
\* row, and a metadata-only entry rests on a logged metadata answer.
StoredIsLogged ==
  store # NoEntry =>
    /\ store.pdf \in ContentSources \cup {"arxiv"} =>
         \E q \in sent : q.source = store.pdf /\ q.why = "content" /\ q.row = "ok"
    /\ store.pdf = "none" => \E q \in sent : q.why = "metadata" /\ q.row = "ok"

\* The outcome, the log and the two files of an entry agree, whatever fails: an
\* entry names no PDF but the one in place; a success has its entry and the row
\* about it, and a PDF exactly if a leg brought one; an error leaves the entry as
\* it was, unless it is the log error of the very row about the write, and the
\* PDF too, unless the store failed between its two files, which is told as an
\* internal error and by a row that says so, if there is one.
StoreAgreesWithOutcome ==
  /\ store.pdf \in {"none", file}
  /\ write_row = "ok" => outcome.result = "ok"
  /\ outcome.result = "ok" =>
       /\ store # NoEntry /\ write_row = "ok"
       /\ (store.pdf # "none") <=> (leg \notin {"Blocked", "NoOaUrl"})
  /\ outcome.result = "err" /\ store # NoEntry => outcome.code = "LOG_ERROR" /\ write_row = "lost"
  /\ outcome.result = "err" /\ store = NoEntry /\ file # "none" =>
       outcome.code = "INTERNAL_ERROR" /\ write_row \in {"err", "lost"}

\* ADR-0006: a preprint lookup that cannot be logged ends the fetch there: with
\* a log error, an untouched store, and no further request.
LookupFailsClosed ==
  (\E q \in sent : q.why \in {"find", "preprint"} /\ q.source # "oa-publisher"
                     /\ q.row = "lost") =>
    outcome.code = "LOG_ERROR" /\ store = NoEntry /\ file = "none"

\* Whatever its sources answer, a fetch ends and tells its caller something.
Ends == <>(pc = "done" /\ outcome # Untold)

\* docs/ERRORS.md says of NOT_FOUND that it is independent of the network and
\* reproducible, as opposed to a network error.  Guard reports it for every
\* failure of Crossref.
NotFoundIsAuthoritative ==
  cfg.kind = "doi" /\ outcome = [result |-> "err", code |-> "NOT_FOUND"] =>
    cross \notin {"Network", "Log"}

\* docs/PROVENANCE_LOG.md, section 5: a fetch whose row cannot be appended does
\* not proceed.  Crossref's row is one the code goes on without.
FailClosed ==
  (\E q \in sent : q.row = "lost") /\ outcome # Untold => outcome.code = "LOG_ERROR"
=============================================================================
