-------------------------- MODULE FetchPaperProofs --------------------------
(***************************************************************************)
(* Proofs that the safety invariants of FetchPaper hold for all chains of  *)
(* sources, all configurations and any number of OA locations.  The        *)
(* inductive invariant starts from Flow, which ties the leg, the bytes,    *)
(* the entry and the outcome to the place in the code.  On it rest what    *)
(* the requests sent so far tell (Refusals, Lookups, Disclosure, Logged)   *)
(* and what the licence says of the bytes (Labels); each of these is       *)
(* inductive relative to Flow alone.                                       *)
(***************************************************************************)
EXTENDS FetchPaper, TLAPS

Early == {"start", "check", "arxivref", "crossref", "tdm", "optional", "unpaywall", "oa"}
Late == {"find", "arxiv", "again", "copy", "content", "pdoi", "locate", "poa", "guard",
         "stage", "repair", "store", "metadata", "unstored", "row"}
WithBytes == {"Fetched", "PreprintFallback", "TdmFetched", "PreprintDoiFallback"}

Entry == [pdf |-> bytes, license |-> license, label |-> Label]

\* What is on disk and in the log of a fetch that is over.
Unwritten == store = NoEntry /\ file = "none" /\ write_row # "ok" /\ outcome.result = "err"
HalfWritten ==
  /\ store = NoEntry /\ file = bytes /\ write_row \in {"err", "lost"}
  /\ outcome = [result |-> "err", code |-> "INTERNAL_ERROR"]
Written ==
  /\ store = Entry /\ file = bytes /\ leg # "none"
  /\ \/ write_row = "ok" /\ outcome = [result |-> "ok", code |-> Reported]
     \/ write_row = "lost" /\ outcome = [result |-> "err", code |-> "LOG_ERROR"]

\* Where the code is, what it holds and what it has told.
Flow ==
  /\ cfg \in Configs /\ i \in Nat
  /\ pc \in Early \cup Late \cup {"done"}
  /\ pc \in {"tdm", "repair"} => i >= 1
  /\ pc \notin {"tdm", "optional", "find", "again", "content", "pdoi", "repair", "done"}
       => i = 0
  /\ leg \in Legs
  /\ bytes # "none" <=> leg \in WithBytes
  /\ pc \in Early => leg = "none"
  /\ pc \in Late => leg # "none"
  /\ pc \in {"find", "again", "content", "pdoi"} /\ i >= 1 => Failed
  /\ pc \in {"locate", "poa"} => Failed
  /\ pc # "done" => outcome = Untold
  /\ pc \notin {"row", "done"} => store = NoEntry
  /\ pc \notin {"metadata", "unstored", "row", "done"} => file = "none"
  /\ pc # "done" => write_row = "none"
  /\ pc = "unstored" => file \in {"none", bytes}
  /\ pc \in {"metadata", "row"} => file = bytes
  /\ pc = "row" => store = Entry
  /\ pc = "done" => Unwritten \/ HalfWritten \/ Written

\* A fetch that has not begun has told and written nothing.
LEMMA FlowInit == Init => Flow
  BY DEF Init, Flow, Early, Late, WithBytes, Legs, Failed, Untold, NoEntry, Written, HalfWritten, Unwritten

\* Each action keeps Flow.
LEMMA FlowStep == Flow /\ [Next]_vars => Flow'
<1> SUFFICES ASSUME Flow, [Next]_vars PROVE Flow'
  OBVIOUS
<1> USE DEF Flow, Early, Late, WithBytes, Legs, Failed, Untold, NoEntry, Unwritten,
     metaVars, legVars, entryVars, Fail
<1>1. CASE SessionStart
  BY <1>1 DEF SessionStart
<1>2. CASE Check
  BY <1>2 DEF Check
<1>3. CASE ArxivRef
  BY <1>3 DEF ArxivRef
<1>4. CASE Crossref
  BY <1>4 DEF Crossref
<1>5. CASE Tdm
  BY <1>5 DEF Tdm
<1>6. CASE TdmEnd
  BY <1>6 DEF TdmEnd
<1>7. CASE Optional
  BY <1>7 DEF Optional
<1>8. CASE OptionalEnd
  BY <1>8 DEF OptionalEnd
<1>9. CASE Unpaywall
  BY <1>9 DEF Unpaywall
<1>10. CASE OaCandidate
  BY <1>10 DEF OaCandidate
<1>11. CASE PassOver
  BY <1>11 DEF PassOver, Applies, After
<1>12. CASE Begin
  BY <1>12 DEF Begin, Applies
<1>13. CASE FindRelation
  BY <1>13 DEF FindRelation, Applies
<1>14. CASE FindAsk
  BY <1>14 DEF FindAsk
<1>15. CASE FindSkip
  BY <1>15 DEF FindSkip
<1>16. CASE FindEnd
  BY <1>16 DEF FindEnd
<1>17. CASE ArxivFallback
  BY <1>17 DEF ArxivFallback, Applies
<1>18. CASE Copy
  BY <1>18 DEF Copy, Applies, CopyFailed
<1>19. CASE Content
  <2>1. PICK s \in SetOf(TdmChain) :
          /\ pc = "content" /\ i >= 1 /\ UNCHANGED <<cfg, entryVars, outcome>>
          /\ \/ /\ s \in ContentSources /\ bytes' = s /\ leg' = "TdmFetched"
                /\ pc' = "pdoi" /\ i' = 0
             \/ i' = i + 1 /\ pc' = pc /\ leg' = leg /\ bytes' = bytes
    BY <1>19 DEF Content, SetOf
  <2>2. s # "none"
    BY ChainAssumption DEF Sources, NoOne
  <2> QED
    BY <2>1, <2>2
<1>20. CASE ContentEnd
  BY <1>20 DEF ContentEnd
<1>21. CASE PreprintRelation
  BY <1>21 DEF PreprintRelation, Applies
<1>22. CASE BiorxivPubs
  BY <1>22 DEF BiorxivPubs
<1>23. CASE PreprintLocate
  BY <1>23 DEF PreprintLocate
<1>24. CASE PreprintCandidate
  BY <1>24 DEF PreprintCandidate
<1>25. CASE Guard
  BY <1>25 DEF Guard
<1>26. CASE Stage
  BY <1>26 DEF Stage
<1>27. CASE Repair
  BY <1>27 DEF Repair
<1>28. CASE RepairEnd
  BY <1>28 DEF RepairEnd
<1>29. CASE StorePdf
  BY <1>29 DEF StorePdf
<1>30. CASE StoreMetadata
  BY <1>30 DEF StoreMetadata, Entry, Label
<1>31. CASE StoreFailed
  <2>1. outcome' = [result |-> "err", code |-> "INTERNAL_ERROR"] /\ write_row' \in {"err", "lost"}
    BY <1>31 DEF StoreFailed
  <2>2. UNCHANGED <<store, file, bytes>> /\ store = NoEntry /\ file \in {"none", bytes}
    BY <1>31 DEF StoreFailed
  <2>3. Unwritten' \/ HalfWritten'
    BY <2>1, <2>2 DEF HalfWritten
  <2> HIDE DEF Unwritten, NoEntry
  <2> QED
    BY <1>31, <2>3 DEF StoreFailed
<1>32. CASE StoreRow
  <2>1. Entry' = Entry /\ Reported' = Reported /\ leg # "none"
    BY <1>32 DEF StoreRow, Entry, Label, Reported, Code
  <2>2. Written'
    BY <1>32, <2>1 DEF StoreRow, Succeed, Written
  <2> HIDE DEF Unwritten, NoEntry
  <2> QED
    BY <1>32, <2>2 DEF StoreRow, Succeed
<1>33. CASE UNCHANGED vars
  <2>1. (Written => Written') /\ (HalfWritten => HalfWritten') /\ Entry' = Entry
    BY <1>33 DEF vars, Written, HalfWritten, Entry, Label, Reported, Code
  <2> QED
    BY <1>33, <2>1 DEF vars
<1> QED
  BY <1>1, <1>2, <1>3, <1>4, <1>5, <1>6, <1>7, <1>8, <1>9, <1>10, <1>11, <1>12,
     <1>13, <1>14, <1>15, <1>16, <1>17, <1>18, <1>19, <1>20, <1>21, <1>22, <1>23, <1>24,
     <1>25, <1>26, <1>27, <1>28, <1>29, <1>30, <1>31, <1>32, <1>33 DEF Next

-----------------------------------------------------------------------------
(* What the requests sent so far tell.                                     *)

\* No OA location is tried before the leg is settled, and none on the way to
\* NoOaUrl.
Refusals ==
  pc \in Early \ {"oa"} \/ leg = "NoOaUrl" =>
    \A q \in sent : ~(q.why = "oa" /\ q.source = "oa-publisher")

\* A lost row about a preprint lookup is the last thing that happened.
Lost(q) == q.why \in {"find", "preprint"} /\ q.source # "oa-publisher" /\ q.row = "lost"
Lookups == (\E q \in sent : Lost(q)) =>
  pc = "done" /\ outcome.code = "LOG_ERROR" /\ store = NoEntry /\ file = "none"

\* Each action keeps Refusals.
LEMMA RefusalsStep == Flow /\ Refusals /\ [Next]_vars => Refusals'
<1> SUFFICES ASSUME Flow, Refusals, [Next]_vars PROVE Refusals'
  OBVIOUS
<1> USE DEF Flow, Early, Late, WithBytes, Legs, Failed, Untold, NoEntry, metaVars, legVars, entryVars, Fail,
     Refusals, Request, Asked, OaFetched, Looked
<1>1. CASE SessionStart
  BY <1>1 DEF SessionStart
<1>2. CASE Check
  BY <1>2 DEF Check
<1>3. CASE ArxivRef
  BY <1>3 DEF ArxivRef
<1>4. CASE Crossref
  BY <1>4 DEF Crossref
<1>5. CASE Tdm
  BY <1>5 DEF Tdm
<1>6. CASE TdmEnd
  BY <1>6 DEF TdmEnd
<1>7. CASE Optional
  BY <1>7 DEF Optional
<1>8. CASE OptionalEnd
  BY <1>8 DEF OptionalEnd
<1>9. CASE Unpaywall
  BY <1>9 DEF Unpaywall
<1>10. CASE OaCandidate
  BY <1>10 DEF OaCandidate
<1>11. CASE PassOver
  BY <1>11 DEF PassOver, Applies, After
<1>12. CASE Begin
  BY <1>12 DEF Begin, Applies
<1>13. CASE FindRelation
  BY <1>13 DEF FindRelation, Applies
<1>14. CASE FindAsk
  BY <1>14 DEF FindAsk
<1>15. CASE FindSkip
  BY <1>15 DEF FindSkip
<1>16. CASE FindEnd
  BY <1>16 DEF FindEnd
<1>17. CASE ArxivFallback
  BY <1>17 DEF ArxivFallback, Applies
<1>18. CASE Copy
  BY <1>18 DEF Copy, Applies, CopyFailed
<1>19. CASE Content
  BY <1>19 DEF Content
<1>20. CASE ContentEnd
  BY <1>20 DEF ContentEnd
<1>21. CASE PreprintRelation
  BY <1>21 DEF PreprintRelation, Applies
<1>22. CASE BiorxivPubs
  BY <1>22 DEF BiorxivPubs
<1>23. CASE PreprintLocate
  BY <1>23 DEF PreprintLocate
<1>24. CASE PreprintCandidate
  BY <1>24 DEF PreprintCandidate
<1>25. CASE Guard
  BY <1>25 DEF Guard
<1>26. CASE Stage
  BY <1>26 DEF Stage
<1>27. CASE Repair
  BY <1>27 DEF Repair
<1>28. CASE RepairEnd
  BY <1>28 DEF RepairEnd
<1>29. CASE StorePdf
  BY <1>29 DEF StorePdf
<1>30. CASE StoreMetadata
  BY <1>30 DEF StoreMetadata
<1>31. CASE StoreFailed
  BY <1>31 DEF StoreFailed
<1>32. CASE StoreRow
  BY <1>32 DEF StoreRow, Succeed
<1>33. CASE UNCHANGED vars
  BY <1>33 DEF vars
<1> QED
  BY <1>1, <1>2, <1>3, <1>4, <1>5, <1>6, <1>7, <1>8, <1>9, <1>10, <1>11, <1>12,
     <1>13, <1>14, <1>15, <1>16, <1>17, <1>18, <1>19, <1>20, <1>21, <1>22, <1>23, <1>24,
     <1>25, <1>26, <1>27, <1>28, <1>29, <1>30, <1>31, <1>32, <1>33 DEF Next

\* Each action keeps Lookups.
LEMMA LookupsStep == Flow /\ Lookups /\ [Next]_vars => Lookups'
<1> SUFFICES ASSUME Flow, Lookups, [Next]_vars PROVE Lookups'
  OBVIOUS
<1> USE DEF Flow, Early, Late, Untold, NoEntry, metaVars, legVars, entryVars, Fail,
     Lookups, Lost, Request, Asked, OaFetched, Looked
<1>1. CASE SessionStart
  BY <1>1 DEF SessionStart
<1>2. CASE Check
  BY <1>2 DEF Check
<1>3. CASE ArxivRef
  BY <1>3 DEF ArxivRef
<1>4. CASE Crossref
  BY <1>4 DEF Crossref
<1>5. CASE Tdm
  BY <1>5 DEF Tdm
<1>6. CASE TdmEnd
  BY <1>6 DEF TdmEnd
<1>7. CASE Optional
  BY <1>7 DEF Optional
<1>8. CASE OptionalEnd
  BY <1>8 DEF OptionalEnd
<1>9. CASE Unpaywall
  BY <1>9 DEF Unpaywall
<1>10. CASE OaCandidate
  BY <1>10 DEF OaCandidate
<1>11. CASE PassOver
  BY <1>11 DEF PassOver, Applies, After
<1>12. CASE Begin
  BY <1>12 DEF Begin, Applies
<1>13. CASE FindRelation
  BY <1>13 DEF FindRelation, Applies
<1>14. CASE FindAsk
  BY <1>14 DEF FindAsk
<1>15. CASE FindSkip
  BY <1>15 DEF FindSkip
<1>16. CASE FindEnd
  BY <1>16 DEF FindEnd
<1>17. CASE ArxivFallback
  BY <1>17 DEF ArxivFallback, Applies
<1>18. CASE Copy
  BY <1>18 DEF Copy, Applies, CopyFailed
<1>19. CASE Content
  BY <1>19 DEF Content
<1>20. CASE ContentEnd
  BY <1>20 DEF ContentEnd
<1>21. CASE PreprintRelation
  BY <1>21 DEF PreprintRelation, Applies
<1>22. CASE BiorxivPubs
  BY <1>22 DEF BiorxivPubs
<1>23. CASE PreprintLocate
  BY <1>23 DEF PreprintLocate
<1>24. CASE PreprintCandidate
  BY <1>24 DEF PreprintCandidate
<1>25. CASE Guard
  BY <1>25 DEF Guard
<1>26. CASE Stage
  BY <1>26 DEF Stage
<1>27. CASE Repair
  BY <1>27 DEF Repair
<1>28. CASE RepairEnd
  BY <1>28 DEF RepairEnd
<1>29. CASE StorePdf
  BY <1>29 DEF StorePdf
<1>30. CASE StoreMetadata
  BY <1>30 DEF StoreMetadata
<1>31. CASE StoreFailed
  BY <1>31 DEF StoreFailed
<1>32. CASE StoreRow
  BY <1>32 DEF StoreRow, Succeed
<1>33. CASE UNCHANGED vars
  BY <1>33 DEF vars
<1> QED
  BY <1>1, <1>2, <1>3, <1>4, <1>5, <1>6, <1>7, <1>8, <1>9, <1>10, <1>11, <1>12,
     <1>13, <1>14, <1>15, <1>16, <1>17, <1>18, <1>19, <1>20, <1>21, <1>22, <1>23, <1>24,
     <1>25, <1>26, <1>27, <1>28, <1>29, <1>30, <1>31, <1>32, <1>33 DEF Next

\* Nothing is asked before Crossref, no source is asked before the OA leg once
\* Crossref answered, and what was asked might be.
Disclosure ==
  /\ pc \in {"start", "check", "arxivref", "crossref"} => sent = {}
  /\ pc \in {"tdm", "optional", "unpaywall", "oa"} /\ cross = "ok" =>
       \A q \in sent : q.source \notin Sources
  /\ pc = "pdoi" /\ i >= 1 => "biorxiv" \in cfg.enabled
  /\ AskedOnlyWhenNeeded

\* The names the steps below tell apart.
LEMMA Names ==
  /\ \A s \in {"crossref", "unpaywall", "arxiv", "oa-publisher", "oa", "repository",
               "preprint", "none"} :
       s \notin Sources /\ s \notin SetOf(TdmChain) /\ s \notin ContentSources
  /\ SetOf(TdmChain) \cap (SetOf(OptionalChain) \cup SetOf(Finders)
                            \cup SetOf(RepairChain) \cup {"biorxiv"}) = {}
  /\ \A c \in {TdmChain, OptionalChain, Finders, RepairChain} :
       \A k \in 1..Len(c) : c[k] \in Sources /\ c[k] \in SetOf(c)
  /\ "biorxiv" \in Sources /\ ContentSources \subseteq SetOf(TdmChain)
<1>1. \A c \in {TdmChain, OptionalChain, Finders, RepairChain} :
        \A k \in 1..Len(c) : c[k] \in SetOf(c)
  BY DEF SetOf
<1>2. \A c \in {TdmChain, OptionalChain, Finders, RepairChain} : SetOf(c) \subseteq Sources
  BY DEF Sources
<1>3. "biorxiv" \in Sources
  BY DEF Sources
<1>4. \A s \in {"crossref", "unpaywall", "arxiv", "oa-publisher", "oa", "repository",
                "preprint", "none"} : s \notin Sources
  BY ChainAssumption DEF NoOne
<1>5. ContentSources \subseteq SetOf(TdmChain)
  BY ChainAssumption
<1>6. SetOf(TdmChain) \cap (SetOf(OptionalChain) \cup SetOf(Finders)
                            \cup SetOf(RepairChain) \cup {"biorxiv"}) = {}
  BY ChainAssumption
<1> QED
  BY <1>1, <1>2, <1>3, <1>4, <1>5, <1>6

\* Each action keeps Disclosure.
LEMMA DisclosureStep == Flow /\ Disclosure /\ [Next]_vars => Disclosure'
<1> SUFFICES ASSUME Flow, Disclosure, [Next]_vars PROVE Disclosure'
  OBVIOUS
<1> USE Names DEF Flow, Early, Late, WithBytes, Failed, metaVars, legVars, entryVars, Fail, Disclosure,
     AskedOnlyWhenNeeded, Request, Asked, OaFetched, Looked
<1>1. CASE SessionStart
  BY <1>1 DEF SessionStart
<1>2. CASE Check
  BY <1>2 DEF Check
<1>3. CASE ArxivRef
  BY <1>3 DEF ArxivRef
<1>4. CASE Crossref
  BY <1>4 DEF Crossref
<1>5. CASE Tdm
  BY <1>5 DEF Tdm, TdmSkip
<1>6. CASE TdmEnd
  BY <1>6 DEF TdmEnd
<1>7. CASE Optional
  BY <1>7 DEF Optional, OptionalSkip, Answered
<1>8. CASE OptionalEnd
  BY <1>8 DEF OptionalEnd
<1>9. CASE Unpaywall
  BY <1>9 DEF Unpaywall
<1>10. CASE OaCandidate
  BY <1>10 DEF OaCandidate
<1>11. CASE PassOver
  BY <1>11 DEF PassOver, Applies, After
<1>12. CASE Begin
  BY <1>12 DEF Begin, Applies
<1>13. CASE FindRelation
  BY <1>13 DEF FindRelation, Applies
<1>14. CASE FindAsk
  BY <1>14 DEF FindAsk, FinderAt
<1>15. CASE FindSkip
  BY <1>15 DEF FindSkip
<1>16. CASE FindEnd
  BY <1>16 DEF FindEnd
<1>17. CASE ArxivFallback
  BY <1>17 DEF ArxivFallback, Applies
<1>18. CASE Copy
  BY <1>18 DEF Copy, Applies, CopyFailed
<1>19. CASE Content
  BY <1>19 DEF Content
<1>20. CASE ContentEnd
  BY <1>20 DEF ContentEnd
<1>21. CASE PreprintRelation
  BY <1>21 DEF PreprintRelation, Applies
<1>22. CASE BiorxivPubs
  BY <1>22 DEF BiorxivPubs
<1>23. CASE PreprintLocate
  BY <1>23 DEF PreprintLocate
<1>24. CASE PreprintCandidate
  BY <1>24 DEF PreprintCandidate
<1>25. CASE Guard
  BY <1>25 DEF Guard
<1>26. CASE Stage
  BY <1>26 DEF Stage
<1>27. CASE Repair
  BY <1>27 DEF Repair
<1>28. CASE RepairEnd
  BY <1>28 DEF RepairEnd
<1>29. CASE StorePdf
  BY <1>29 DEF StorePdf
<1>30. CASE StoreMetadata
  BY <1>30 DEF StoreMetadata
<1>31. CASE StoreFailed
  BY <1>31 DEF StoreFailed
<1>32. CASE StoreRow
  BY <1>32 DEF StoreRow, Succeed
<1>33. CASE UNCHANGED vars
  BY <1>33 DEF vars
<1> QED
  BY <1>1, <1>2, <1>3, <1>4, <1>5, <1>6, <1>7, <1>8, <1>9, <1>10, <1>11, <1>12,
     <1>13, <1>14, <1>15, <1>16, <1>17, <1>18, <1>19, <1>20, <1>21, <1>22, <1>23, <1>24,
     <1>25, <1>26, <1>27, <1>28, <1>29, <1>30, <1>31, <1>32, <1>33 DEF Next

\* A PDF from arXiv or a TDM source has its row, and so has a metadata answer
\* behind every record the later steps rely on.
MetadataLogged == \E q \in sent : q.why = "metadata" /\ q.row = "ok"
Logged ==
  /\ bytes \in ContentSources \cup {"arxiv"} =>
       \E q \in sent : q.source = bytes /\ q.why = "content" /\ q.row = "ok"
  /\ cross = "ok" \/ tdmMeta \/ resolved # NoOne => MetadataLogged
  /\ pc \in {"start", "check", "arxivref", "crossref", "tdm"} => holder = NoOne
  /\ pc = "optional" /\ holder # NoOne => MetadataLogged
  /\ pc \in {"stage", "repair", "store", "metadata", "unstored", "row"} /\ bytes = "none" => MetadataLogged
  /\ pc = "done" /\ store # NoEntry /\ bytes = "none" => MetadataLogged

\* An answer from a Source is kept only with its row.
LEMMA AskedAdds ==
  ASSUME NEW s, NEW why, NEW r, Asked(s, why, r)
  PROVE  /\ sent \subseteq sent'
         /\ r = "ok" => \E q \in sent' : q.source = s /\ q.why = why /\ q.row = "ok"
<1>1. sent \subseteq sent' /\ (r = "ok" => Request(s, why, "ok") \in sent')
  BY DEF Asked
<1>2. /\ Request(s, why, "ok").source = s /\ Request(s, why, "ok").why = why
      /\ Request(s, why, "ok").row = "ok"
  BY DEF Request
<1> QED
  BY <1>1, <1>2

\* Each action keeps Logged.
LEMMA LoggedStep == Flow /\ Logged /\ [Next]_vars => Logged'
<1> SUFFICES ASSUME Flow, Logged, [Next]_vars PROVE Logged'
  OBVIOUS
<1> USE Names, AskedAdds DEF Flow, Early, Late, WithBytes, Legs, Failed, Untold,
     NoEntry, metaVars, legVars, entryVars, Fail,
     Logged, MetadataLogged, Request, OaFetched, Looked, NoOne
<1>1. CASE SessionStart
  BY <1>1 DEF SessionStart
<1>2. CASE Check
  BY <1>2 DEF Check
<1>3. CASE ArxivRef
  BY <1>3 DEF ArxivRef
<1>4. CASE Crossref
  BY <1>4 DEF Crossref
<1>5. CASE Tdm
  <2>1. pc = "tdm" /\ UNCHANGED <<pc, cross, resolved, holder, bytes, store>>
    BY <1>5 DEF Tdm
  <2>2. sent \subseteq sent' /\ (tdmMeta' => MetadataLogged \/ MetadataLogged')
    <3>1. CASE UNCHANGED <<tdmMeta, sent>>
      BY <3>1
    <3>2. CASE \E s, r : Asked(s, "metadata", r) /\ tdmMeta' = (r = "ok")
      <4>1. PICK s, r : Asked(s, "metadata", r) /\ tdmMeta' = (r = "ok")
        BY <3>2
      <4>2. sent \subseteq sent' /\ (r = "ok" => MetadataLogged')
        BY <4>1
      <4>3. r # "ok" => ~tdmMeta'
        BY <4>1
      <4> HIDE DEF MetadataLogged
      <4> QED
        BY <4>2, <4>3
    <3> QED
      BY <1>5, <3>1, <3>2 DEF Tdm
  <2>3. MetadataLogged => MetadataLogged'
    BY <2>2
  <2> QED
    BY <2>1, <2>2, <2>3
<1>6. CASE TdmEnd
  BY <1>6 DEF TdmEnd
<1>7. CASE Optional
  BY <1>7 DEF Optional, OptionalSkip, Answered
<1>8. CASE OptionalEnd
  BY <1>8 DEF OptionalEnd, MergeFresh
<1>9. CASE Unpaywall
  BY <1>9 DEF Unpaywall
<1>10. CASE OaCandidate
  BY <1>10 DEF OaCandidate
<1>11. CASE PassOver
  BY <1>11 DEF PassOver, Applies, After
<1>12. CASE Begin
  BY <1>12 DEF Begin, Applies
<1>13. CASE FindRelation
  BY <1>13 DEF FindRelation, Applies
<1>14. CASE FindAsk
  BY <1>14 DEF FindAsk
<1>15. CASE FindSkip
  BY <1>15 DEF FindSkip
<1>16. CASE FindEnd
  BY <1>16 DEF FindEnd
<1>17. CASE ArxivFallback
  BY <1>17 DEF ArxivFallback, Applies
<1>18. CASE Copy
  BY <1>18 DEF Copy, Applies, CopyFailed
<1>19. CASE Content
  BY <1>19 DEF Content
<1>20. CASE ContentEnd
  BY <1>20 DEF ContentEnd
<1>21. CASE PreprintRelation
  BY <1>21 DEF PreprintRelation, Applies
<1>22. CASE BiorxivPubs
  BY <1>22 DEF BiorxivPubs
<1>23. CASE PreprintLocate
  BY <1>23 DEF PreprintLocate
<1>24. CASE PreprintCandidate
  BY <1>24 DEF PreprintCandidate
<1>25. CASE Guard
  BY <1>25 DEF Guard
<1>26. CASE Stage
  BY <1>26 DEF Stage
<1>27. CASE Repair
  BY <1>27 DEF Repair
<1>28. CASE RepairEnd
  BY <1>28 DEF RepairEnd
<1>29. CASE StorePdf
  BY <1>29 DEF StorePdf
<1>30. CASE StoreMetadata
  BY <1>30 DEF StoreMetadata
<1>31. CASE StoreFailed
  BY <1>31 DEF StoreFailed
<1>32. CASE StoreRow
  BY <1>32 DEF StoreRow, Succeed
<1>33. CASE UNCHANGED vars
  BY <1>33 DEF vars
<1> QED
  BY <1>1, <1>2, <1>3, <1>4, <1>5, <1>6, <1>7, <1>8, <1>9, <1>10, <1>11, <1>12,
     <1>13, <1>14, <1>15, <1>16, <1>17, <1>18, <1>19, <1>20, <1>21, <1>22, <1>23, <1>24,
     <1>25, <1>26, <1>27, <1>28, <1>29, <1>30, <1>31, <1>32, <1>33 DEF Next

-----------------------------------------------------------------------------
(* What the licence and the leg say of the bytes.                          *)

Labels ==
  /\ cfg.kind = "arxiv" =>
       /\ pc \in {"start", "check", "arxivref", "stage", "store", "metadata", "unstored", "row", "done"}
       /\ leg \in {"none", "Fetched"}
  /\ cfg.kind # "arxiv" => pc # "arxivref"
  /\ bytes \in {"none", "oa", "repository"} => license \in {"unknown", "work"}
  /\ bytes = "arxiv" => license = "arxiv"
  /\ bytes = "preprint" => license = "preprint"
  /\ leg = "Fetched" =>
       bytes \in IF cfg.kind = "arxiv" THEN {"arxiv"} ELSE {"oa", "repository"}
  /\ leg = "PreprintFallback" => bytes = "arxiv"
  /\ leg = "PreprintDoiFallback" => bytes = "preprint"
  /\ leg = "TdmFetched" => bytes \in ContentSources
  /\ leg = "TdmFetched" /\ pc \in {"stage", "repair", "store", "metadata", "unstored", "row", "done"} =>
       license = "unknown"

\* Each action keeps Labels.
LEMMA LabelsStep == Flow /\ Labels /\ [Next]_vars => Labels'
<1> SUFFICES ASSUME Flow, Labels, [Next]_vars PROVE Labels'
  OBVIOUS
<1> USE Names DEF Flow, Early, Late, WithBytes, Legs, Failed, metaVars, legVars, entryVars, Fail, Labels
<1>1. CASE SessionStart
  BY <1>1 DEF SessionStart
<1>2. CASE Check
  <2>1. cfg.kind \in {"doi", "arxiv"}
    BY ChainAssumption
  <2> QED
    BY <1>2, <2>1 DEF Check
<1>3. CASE ArxivRef
  BY <1>3 DEF ArxivRef
<1>4. CASE Crossref
  BY <1>4 DEF Crossref
<1>5. CASE Tdm
  BY <1>5 DEF Tdm
<1>6. CASE TdmEnd
  BY <1>6 DEF TdmEnd
<1>7. CASE Optional
  BY <1>7 DEF Optional
<1>8. CASE OptionalEnd
  BY <1>8 DEF OptionalEnd
<1>9. CASE Unpaywall
  BY <1>9 DEF Unpaywall
<1>10. CASE OaCandidate
  BY <1>10 DEF OaCandidate
<1>11. CASE PassOver
  BY <1>11 DEF PassOver, Applies, After
<1>12. CASE Begin
  BY <1>12 DEF Begin, Applies
<1>13. CASE FindRelation
  BY <1>13 DEF FindRelation, Applies
<1>14. CASE FindAsk
  BY <1>14 DEF FindAsk
<1>15. CASE FindSkip
  BY <1>15 DEF FindSkip
<1>16. CASE FindEnd
  BY <1>16 DEF FindEnd
<1>17. CASE ArxivFallback
  BY <1>17 DEF ArxivFallback, Applies
<1>18. CASE Copy
  BY <1>18 DEF Copy, Applies, CopyFailed
<1>19. CASE Content
  BY <1>19 DEF Content
<1>20. CASE ContentEnd
  BY <1>20 DEF ContentEnd
<1>21. CASE PreprintRelation
  BY <1>21 DEF PreprintRelation, Applies
<1>22. CASE BiorxivPubs
  BY <1>22 DEF BiorxivPubs
<1>23. CASE PreprintLocate
  BY <1>23 DEF PreprintLocate
<1>24. CASE PreprintCandidate
  BY <1>24 DEF PreprintCandidate
<1>25. CASE Guard
  BY <1>25 DEF Guard, LicenseOf
<1>26. CASE Stage
  BY <1>26 DEF Stage
<1>27. CASE Repair
  BY <1>27 DEF Repair
<1>28. CASE RepairEnd
  BY <1>28 DEF RepairEnd
<1>29. CASE StorePdf
  BY <1>29 DEF StorePdf
<1>30. CASE StoreMetadata
  BY <1>30 DEF StoreMetadata
<1>31. CASE StoreFailed
  BY <1>31 DEF StoreFailed
<1>32. CASE StoreRow
  BY <1>32 DEF StoreRow, Succeed
<1>33. CASE UNCHANGED vars
  BY <1>33 DEF vars
<1> QED
  BY <1>1, <1>2, <1>3, <1>4, <1>5, <1>6, <1>7, <1>8, <1>9, <1>10, <1>11, <1>12,
     <1>13, <1>14, <1>15, <1>16, <1>17, <1>18, <1>19, <1>20, <1>21, <1>22, <1>23, <1>24,
     <1>25, <1>26, <1>27, <1>28, <1>29, <1>30, <1>31, <1>32, <1>33 DEF Next

-----------------------------------------------------------------------------
IInv == Flow /\ Refusals /\ Lookups /\ Disclosure /\ Logged /\ Labels

\* The six parts hold in every state of a fetch.
LEMMA Inductive == Spec => []IInv
<1>1. Init => IInv
  <2> SUFFICES ASSUME Init PROVE IInv
    OBVIOUS
  <2>1. Flow
    BY FlowInit
  <2>2. Refusals /\ Lookups /\ Disclosure
    BY DEF Init, Refusals, Lookups, Disclosure, AskedOnlyWhenNeeded
  <2>3. Logged /\ Labels
    BY Names DEF Init, Logged, Labels, NoOne, NoEntry
  <2> QED
    BY <2>1, <2>2, <2>3 DEF IInv
<1>2. IInv /\ [Next]_vars => IInv'
  BY FlowStep, RefusalsStep, LookupsStep, DisclosureStep, LoggedStep, LabelsStep DEF IInv
<1> QED
  BY <1>1, <1>2, PTL DEF Spec

\* What an entry holds, wherever the store has one.
LEMMA StoredEntry ==
  Flow /\ store # NoEntry =>
    /\ pc \in {"row", "done"} /\ leg # "none" /\ file = bytes
    /\ store.pdf = bytes /\ store.license = license /\ store.label = Label
<1> SUFFICES ASSUME Flow, store # NoEntry
             PROVE  pc \in {"row", "done"} /\ leg # "none" /\ file = bytes /\ store = Entry
  BY DEF Entry
<1>1. pc \in {"row", "done"}
  BY DEF Flow
<1>2. CASE pc = "row"
  BY <1>2 DEF Flow, Late
<1>3. CASE pc = "done"
  BY <1>3 DEF Flow, Unwritten, HalfWritten, Written
<1> QED
  BY <1>1, <1>2, <1>3

\* What a fetch tells its caller, it tells at its end.
LEMMA Told ==
  Flow /\ outcome.result \in {"ok", "err"} => pc = "done" /\ (Unwritten \/ HalfWritten \/ Written)
<1>1. Untold.result = "none"
  BY DEF Untold
<1> QED
  BY <1>1 DEF Flow

\* What final_source_label returns.
LEMMA LabelCases ==
  Flow /\ Labels /\ leg # "none" =>
    /\ Label = "arxiv" <=> bytes = "arxiv"
    /\ bytes \in ContentSources => Label = bytes
    /\ Label # "none"
<1> SUFFICES ASSUME Flow, Labels, leg # "none"
             PROVE  /\ Label = "arxiv" <=> bytes = "arxiv"
                    /\ bytes \in ContentSources => Label = bytes
                    /\ Label # "none"
  OBVIOUS
<1> USE Names DEF Flow, Labels, WithBytes, Legs
<1>1. CASE bytes = "none"
  BY <1>1 DEF Label
<1>2. CASE leg = "PreprintFallback"
  BY <1>2 DEF Label
<1>3. CASE leg = "TdmFetched"
  BY <1>3 DEF Label
<1>4. CASE leg = "PreprintDoiFallback"
  BY <1>4 DEF Label
<1>5. CASE leg = "Fetched"
  BY <1>5 DEF Label
<1> QED
  BY <1>1, <1>2, <1>3, <1>4, <1>5

\* For any sources and any answers, and a store that may fail before, between or
\* after its two files: the outcome and the row about the write agree with what
\* is in place (write_metadata_and_pdf, FsStore::write, FetchPaperOutcome).
THEOREM OutcomeAgrees == Spec => []StoreAgreesWithOutcome
<1>1. IInv => StoreAgreesWithOutcome
  <2> SUFFICES ASSUME IInv PROVE StoreAgreesWithOutcome
    OBVIOUS
  <2>1. store.pdf \in {"none", file}
    <3>1. CASE store = NoEntry
      BY <3>1 DEF NoEntry
    <3>2. CASE store # NoEntry
      BY <3>2, StoredEntry DEF IInv
    <3> QED
      BY <3>1, <3>2
  <2>2. CASE outcome.result \notin {"ok", "err"}
    <3>1. write_row # "ok"
      BY <2>2 DEF IInv, Flow, Unwritten, HalfWritten, Written
    <3> QED
      BY <2>1, <2>2, <3>1 DEF StoreAgreesWithOutcome
  <2>3. CASE outcome.result \in {"ok", "err"}
    <3>1. CASE Unwritten
      BY <2>1, <3>1 DEF Unwritten, StoreAgreesWithOutcome
    <3>2. CASE HalfWritten
      BY <2>1, <3>2 DEF HalfWritten, StoreAgreesWithOutcome
    <3>3. CASE Written
      <4>1. Entry.pdf = bytes /\ (Entry = NoEntry => Label = "none")
        BY DEF Entry, NoEntry
      <4>2. store # NoEntry /\ store.pdf = bytes
        BY <3>3, <4>1, LabelCases DEF IInv, Written
      <4>3. bytes # "none" <=> leg \notin {"Blocked", "NoOaUrl"}
        BY <3>3 DEF IInv, Flow, Written, WithBytes, Legs
      <4> QED
        BY <2>1, <3>3, <4>2, <4>3 DEF Written, StoreAgreesWithOutcome
    <3> QED
      BY <2>3, <3>1, <3>2, <3>3, Told DEF IInv
  <2> QED
    BY <2>2, <2>3
<1> QED
  BY <1>1, Inductive, PTL

\* Issue #118, for any sources and any answers: a refused open-access copy is
\* never reported as a clean metadata-only success (PdfLegStatus::Blocked).
THEOREM RefusalReported == Spec => []BlockedIsReported
<1>1. IInv => BlockedIsReported
  <2> SUFFICES ASSUME IInv, outcome.result = "ok", store.pdf = "none",
                      NEW q \in sent, q.why = "oa" /\ q.source = "oa-publisher"
               PROVE  outcome.code = Code(block)
    BY DEF BlockedIsReported
  <2>1. store = Entry /\ outcome.code = Reported /\ leg # "none"
    BY Told DEF IInv, Unwritten, HalfWritten, Written
  <2>2. bytes = "none"
    BY <2>1 DEF Entry
  <2>3. leg # "NoOaUrl"
    BY DEF IInv, Refusals
  <2> QED
    BY <2>1, <2>2, <2>3 DEF IInv, Flow, WithBytes, Legs, Reported
<1> QED
  BY <1>1, Inductive, PTL

\* ADR-0006, for any finders: a preprint lookup that could not be logged ends
\* the fetch with a log error, an untouched entry and an untouched PDF (preprint::logged_get).
THEOREM LookupsFailClosed == Spec => []LookupFailsClosed
<1>1. IInv => LookupFailsClosed
  BY DEF IInv, Lookups, Lost, LookupFailsClosed
<1> QED
  BY <1>1, Inductive, PTL

\* ADR-0040, ADR-0041, for any chains and any configuration: which sources hear
\* of a DOI (resolve_tdm_chain, resolve_optional_chain and the fallbacks).
THEOREM DisclosureBounded == Spec => []AskedOnlyWhenNeeded
<1>1. IInv => AskedOnlyWhenNeeded
  BY DEF IInv, Disclosure
<1> QED
  BY <1>1, Inductive, PTL

\* For any sources: what reaches the store came from an answer that is in the
\* log, for every source but oa-publisher (Source::fetch).
THEOREM StoredFromLog == Spec => []StoredIsLogged
<1>1. IInv => StoredIsLogged
  <2> SUFFICES ASSUME IInv, store # NoEntry
               PROVE  /\ store.pdf \in ContentSources \cup {"arxiv"} =>
                           \E q \in sent : q.source = store.pdf /\ q.why = "content" /\ q.row = "ok"
                      /\ store.pdf = "none" => MetadataLogged
    BY DEF StoredIsLogged, MetadataLogged
  <2>1. store.pdf = bytes /\ pc \in {"row", "done"}
    BY StoredEntry DEF IInv
  <2> QED
    BY <2>1 DEF IInv, Logged
<1> QED
  BY <1>1, Inductive, PTL

\* #458, #640, for any sources: the licence and the source of an entry are those
\* of its file (final_source_label, the TDM licence reset).
THEOREM EntryLabelled == Spec => []ArtifactIsLabelled
<1>1. IInv => ArtifactIsLabelled
  <2> SUFFICES ASSUME IInv, store # NoEntry PROVE ArtifactIsLabelled
    BY DEF ArtifactIsLabelled
  <2>1. store.pdf = bytes /\ store.license = license /\ store.label = Label /\ leg # "none"
    BY StoredEntry DEF IInv
  <2>2. pc \in {"row", "done"}
    BY StoredEntry DEF IInv
  <2>3. bytes \in ContentSources => leg = "TdmFetched"
    BY <2>1, Names DEF IInv, Flow, Labels, WithBytes, Legs
  <2> QED
    BY <2>1, <2>2, <2>3, LabelCases DEF IInv, Labels, ArtifactIsLabelled
<1> QED
  BY <1>1, Inductive, PTL
=============================================================================
