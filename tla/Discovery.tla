----------------------------- MODULE Discovery -----------------------------
(***************************************************************************)
(* Search in OpenAlex (discovery.rs): paper_search turns the names of an   *)
(* author, a venue and a publisher into identifiers, one request each, and *)
(* asks for the works that match them; frontier_view asks for a seed and   *)
(* then for the works citing it; resolve_links_for_doi asks for one work.  *)
(* A request that fails, an answer of another shape, a name that is no     *)
(* one's or anyone's, and a log that cannot be written end the call.       *)
(***************************************************************************)
EXTENDS Integers, Sequences, FiniteSets

CONSTANTS
  Corpus,          \* works: [id, year, cites, fwci, pct, oa, by, rel, refs, arxiv]; year, fwci, pct 0: unknown
  NameAnswers,     \* what a search for a name may find: sets of [id, exact, relevance]
  Searches,        \* queries: [terms, limit, from, to, oa_only, min_citations, min_fwci, min_percentile, names]
  Frontiers,       \* queries: [seed, limit, min_year]
  MAX_PER_PAGE, DEGRADES_PAST

\* A page of entities is finite; a year is a number, 0 when it is not given.
ASSUME DiscoveryAssumption ==
  /\ MAX_PER_PAGE \in Nat \ {0} /\ DEGRADES_PAST \in Nat /\ IsFiniteSet(Corpus)
  /\ \A found \in NameAnswers : IsFiniteSet(found) /\ \A c \in found : c.relevance \in Nat
  /\ \A q \in Searches :
       /\ q.limit \in Nat /\ q.from \in Nat /\ q.to \in Nat
       /\ q.names \in Seq({"author", "venue", "publisher"})

VARIABLES
  phase,      \* "idle", what is asked for next, "answered", or the error
  asked,      \* the query
  names,      \* the names still to be resolved
  ids,        \* the kinds resolved so far, each with its identifier
  answers,    \* history: what each name's search found
  hits, total, hint,
  requests, rows

discoveryVars == <<phase, asked, names, ids, answers, hits, total, hint, requests, rows>>

NoQuery == [kind |-> "none"]
Unknown == 0

DiscoveryInit ==
  /\ phase = "idle" /\ asked = NoQuery /\ names = <<>> /\ ids = {} /\ answers = {}
  /\ hits = <<>> /\ total = 0 /\ hint = FALSE /\ requests = 0 /\ rows = 0

\* PaperSearchQuery::validate, by the caller.
validate(q) ==
  /\ q.terms > 0 /\ q.limit \in 1..MAX_PER_PAGE
  /\ q.from # Unknown /\ q.to # Unknown => q.from <= q.to
  /\ q.min_percentile <= 100

StartSearch(q) ==
  /\ phase = "idle" /\ asked' = [kind |-> "search", q |-> q]
  /\ IF validate(q)
     THEN phase' = (IF q.names = <<>> THEN "works" ELSE "names") /\ names' = q.names
     ELSE phase' = "invalid" /\ names' = <<>>
  /\ UNCHANGED <<ids, answers, hits, total, hint, requests, rows>>

\* openalex_get: an answer that is JSON has a row, or is not given.
Get(Then) ==
  /\ requests' = requests + 1
  /\ \/ phase' = "Http" /\ rows' = rows /\ UNCHANGED <<names, ids, answers, hits, total, hint>>
     \/ phase' = "Log" /\ rows' = rows /\ UNCHANGED <<names, ids, answers, hits, total, hint>>
     \/ phase' = "SourceSchema" /\ rows' \in {rows, rows + 1} /\ UNCHANGED <<names, ids, answers, hits, total, hint>>
     \/ rows' = rows + 1 /\ Then

DOMINANCE_RATIO == 2

\* select_entity.
select_entity(found) ==
  LET exact == {c \in found : c.exact}
      top == CHOOSE c \in found : \A d \in found : d.relevance <= c.relevance
      second == CHOOSE c \in found \ {top} : \A d \in found \ {top} : d.relevance <= c.relevance
  IN IF found = {} THEN "NotFound"
     ELSE IF Cardinality(found) = 1 THEN top.id
     ELSE IF Cardinality(exact) = 1 THEN (CHOOSE c \in exact : TRUE).id
     ELSE IF exact = {} /\ second.relevance > 0 /\ top.relevance >= DOMINANCE_RATIO * second.relevance THEN top.id
     ELSE "Ambiguous"

Failures == {"NotFound", "Ambiguous"}

\* Mutant: a name that is not found is left out of the search.
ResolveNameDropping ==
  /\ phase = "names"
  /\ Get(\E found \in NameAnswers :
           LET kind == Head(names)
               id == select_entity(found)
           IN /\ answers' = answers \cup {[kind |-> kind, found |-> found]}
              /\ IF id = "Ambiguous" THEN phase' = id /\ UNCHANGED <<names, ids>>
                 ELSE /\ names' = Tail(names) /\ ids' = ids \cup (IF id = "NotFound" THEN {} ELSE {[kind |-> kind, id |-> id]})
                      /\ phase' = IF Tail(names) = <<>> THEN "works" ELSE "names"
              /\ UNCHANGED <<hits, total, hint>>)
  /\ UNCHANGED asked

\* resolve_optional, resolve_entity_id: authors, then sources, then publishers.
ResolveName ==
  /\ phase = "names"
  /\ Get(\E found \in NameAnswers :
           LET kind == Head(names)
               id == select_entity(found)
           IN /\ answers' = answers \cup {[kind |-> kind, found |-> found]}
              /\ IF id \in Failures THEN phase' = id /\ UNCHANGED <<names, ids>>
                 ELSE /\ names' = Tail(names) /\ ids' = ids \cup {[kind |-> kind, id |-> id]}
                      /\ phase' = IF Tail(names) = <<>> THEN "works" ELSE "names"
              /\ UNCHANGED <<hits, total, hint>>)
  /\ UNCHANGED asked

AsMost(a, b) == IF a < b THEN a ELSE b

\* The first n works of a set by a key: what OpenAlex puts on a page.
FirstBy(ws, n, key(_)) ==
  {page \in SUBSET ws : Cardinality(page) = AsMost(n, Cardinality(ws))
                        /\ \A w \in page : \A v \in ws \ page : key(v) <= key(w)}
\* In what order the page's works come is the service's.
Orders(page) == {s \in [1..Cardinality(page) -> page] : \A i, j \in DOMAIN s : s[i] = s[j] => i = j}

\* build_search_url: every condition of the query is a filter of the request.
\* "min" is strict for citations and fwci, as OpenAlex's ">" is.
Filtered(q) ==
  {w \in Corpus :
     /\ q.from # Unknown => w.year >= q.from
     /\ q.to # Unknown => w.year \in 1..q.to
     /\ q.oa_only => w.oa
     /\ q.min_citations # Unknown => w.cites > q.min_citations
     /\ q.min_fwci # Unknown => w.fwci > q.min_fwci
     /\ q.min_percentile # Unknown => w.pct >= q.min_percentile
     /\ \A n \in ids : n.id \in w.by}

\* zero_result_hint.
zero_result_hint(q) == q.terms > DEGRADES_PAST

SearchWorks ==
  /\ phase = "works"
  /\ Get(/\ \E page \in FirstBy(Filtered(asked.q), asked.q.limit, LAMBDA w : w.rel) : hits' \in Orders(page)
         /\ total' = Cardinality(Filtered(asked.q))
         /\ hint' = (hits' = <<>> /\ zero_result_hint(asked.q))
         /\ phase' = "answered" /\ UNCHANGED <<names, ids, answers>>)
  /\ UNCHANGED asked

StartFrontier(q) ==
  /\ phase = "idle" /\ asked' = [kind |-> "frontier", q |-> q] /\ phase' = "seed"
  /\ UNCHANGED <<names, ids, answers, hits, total, hint, requests, rows>>

Seeds(doi) == {w \in Corpus : w.id = doi}

\* The seed is looked up by its DOI; OpenAlex may not have it.
LookUpSeed ==
  /\ phase = "seed"
  /\ Get(/\ IF Seeds(asked.q.seed) = {} THEN phase' = "NotFound" /\ ids' = ids
            ELSE phase' = "citing" /\ ids' = {[kind |-> "seed", id |-> asked.q.seed]}
         /\ UNCHANGED <<names, answers, hits, total, hint>>)
  /\ UNCHANGED asked

\* The order of the hits: by fwci, unknown last; then by year, then by citations.
Before(a, b) ==
  \/ a.fwci > b.fwci
  \/ a.fwci = b.fwci /\ a.year > b.year
  \/ a.fwci = b.fwci /\ a.year = b.year /\ a.cites >= b.cites

\* The citing works, the page first and the years after; a work whose year is not
\* known is in no year.
CitingWorks ==
  /\ phase = "citing"
  /\ LET q == asked.q
         citing == {w \in Corpus : \E s \in ids : s.id \in w.refs}
         limit == IF q.limit = 0 THEN 1 ELSE AsMost(q.limit, MAX_PER_PAGE)
     IN Get(/\ \E page \in FirstBy(citing, limit, LAMBDA w : w.fwci) :
                 LET new == {w \in page : q.min_year # Unknown => w.year >= q.min_year} IN
                 hits' \in {s \in Orders(new) : \A i, j \in DOMAIN s : i < j => Before(s[i], s[j])}
            /\ total' = Cardinality(citing) /\ phase' = "answered"
            /\ UNCHANGED <<names, ids, answers, hint>>)
  /\ UNCHANGED asked

StartLink(doi) ==
  /\ phase = "idle" /\ asked' = [kind |-> "link", q |-> doi] /\ phase' = "link"
  /\ UNCHANGED <<names, ids, answers, hits, total, hint, requests, rows>>

\* resolve_links_for_doi: one work, with the arXiv identifier of its locations.
LookUpLinks ==
  /\ phase = "link"
  /\ Get(/\ IF Seeds(asked.q) = {} THEN phase' = "NotFound" /\ hits' = hits
            ELSE phase' = "answered" /\ \E w \in Seeds(asked.q) : hits' = <<w>>
         /\ UNCHANGED <<names, ids, answers, total, hint>>)
  /\ UNCHANGED asked

DiscoveryStep == ResolveName \/ SearchWorks \/ LookUpSeed \/ CitingWorks \/ LookUpLinks

DiscoveryNext ==
  \/ \E q \in Searches : StartSearch(q)
  \/ \E q \in Frontiers : StartFrontier(q)
  \/ \E id \in {w.id : w \in Corpus} \cup {"unlisted"} : StartLink(id)
  \/ DiscoveryStep

DiscoverySpec == DiscoveryInit /\ [][DiscoveryNext]_discoveryVars

-----------------------------------------------------------------------------
(* Properties.                                                             *)

\* Nothing else on the page can have been meant: c is alone on it, or the only one
\* with the very name, or, when none has it, scored, and twice as relevant as each
\* other, one of which is scored too.
Unmistakable(c, found) ==
  \/ found = {c}
  \/ c.exact /\ \A d \in found : d.exact => d = c
  \/ /\ \A d \in found : ~d.exact
     /\ \E d \in found \ {c} : d.relevance > 0
     /\ \A d \in found \ {c} : c.relevance >= 2 * d.relevance

\* "The filter is never silently dropped": every hit is within the years, open and
\* above the citations, fwci and percentile asked for, and of the entity that each
\* name meant; and a search is answered only when what was found under each name that
\* was looked up leaves no doubt which it meant.
SearchKeepsFilters ==
  phase = "answered" /\ asked.kind = "search" =>
    LET q == asked.q IN
    /\ \A i \in DOMAIN hits :
         /\ q.from # Unknown => hits[i].year >= q.from
         /\ q.to # Unknown => hits[i].year <= q.to
         /\ q.oa_only => hits[i].oa
         /\ q.min_citations # Unknown => hits[i].cites > q.min_citations
         /\ q.min_fwci # Unknown => hits[i].fwci > q.min_fwci
         /\ q.min_percentile # Unknown => hits[i].pct >= q.min_percentile
         /\ \A n \in 1..Len(q.names) : \E a \in answers :
              /\ a.kind = q.names[n]
              /\ \E c \in a.found : Unmistakable(c, a.found) /\ c.id \in hits[i].by
    /\ \A a \in answers : \E c \in a.found : Unmistakable(c, a.found)
    /\ Len(hits) <= q.limit /\ (total > 0 => hits # <<>>)

\* A frontier is the best of its years: every hit cites the seed, no hit is out of
\* order, and no citing work of those years that is left out has a greater fwci
\* than one that is there.
FrontierRanked ==
  phase = "answered" /\ asked.kind = "frontier" =>
    LET q == asked.q
        there == {hits[i] : i \in DOMAIN hits}
        due == {w \in Corpus : q.seed \in w.refs /\ (q.min_year # Unknown => w.year >= q.min_year)}
    IN /\ there \subseteq due
       /\ \A i \in 1..(Len(hits) - 1) : Before(hits[i], hits[i + 1])
       /\ \A w \in due \ there, h \in there : w.fwci <= h.fwci

\* "one Metadata/Fetch provenance row per request".
OneRowPerRequest == rows = requests
=============================================================================
