--------------------------- MODULE SourcesProofs ---------------------------
(***************************************************************************)
(* Proofs about Sources for any askers, permits, retry and redirect        *)
(* limits and every function of SourceTable.  A step of a fetch changes    *)
(* only what is its asker's own (Local), but for the permits: the          *)
(* invariant is Shape, what one asker may be at (Fine) and Permits.        *)
(***************************************************************************)
EXTENDS Sources, FiniteSetTheorems, TLAPS

\* What the skeleton relies on of a fetch function.
BadErrors == {"SourceSchema", "NotFound", "NotRetrievable", "TextUnavailable", "SourceUnavailable"}
WellFormed(s) ==
  /\ s.rows \in {"success", "always", "never", "best_effort"}
  /\ s.none404 \in BOOLEAN /\ (s.none404 => s.rows = "always")
  /\ s.legs \in Seq([pdf : BOOLEAN, needed : BOOLEAN]) /\ s.legs # <<>>
  /\ \A b \in DOMAIN s.bad : s.bad[b] \in BadErrors /\ (s.rows = "always" => s.bad[b] = "SourceSchema")

\* The forms a definition of the table takes.
LEMMA AskedIsWellFormed ==
  ASSUME NEW key, NEW serves, NEW gate, NEW bad,
         \A b \in DOMAIN bad : bad[b] \in BadErrors
  PROVE  LET s == Asked(key, serves, gate, bad) IN
         /\ WellFormed(s)
         /\ WellFormed([s EXCEPT !.rows = "never"])
         /\ \A ls \in Seq([pdf : BOOLEAN, needed : BOOLEAN]) : ls # <<>> =>
              /\ WellFormed([s EXCEPT !.legs = ls])
              /\ WellFormed([s EXCEPT !.rows = "best_effort", !.legs = ls])
         /\ (\A b \in DOMAIN bad : bad[b] = "SourceSchema") =>
              /\ WellFormed([s EXCEPT !.rows = "always"])
              /\ WellFormed([s EXCEPT !.rows = "always", !.none404 = TRUE])
  BY DEF WellFormed, Asked, Document, Leg

\* Every function of the table fills the skeleton in.
LEMMA TableIsWellFormed == \A s \in SourceTable : WellFormed(s)
<1>1. \A bs : /\ DOMAIN Schema(bs) = bs
              /\ \A b \in bs : Schema(bs)[b] = "SourceSchema" /\ Schema(bs)[b] \in BadErrors
  BY DEF Schema, BadErrors
<1>2. \A x, y \in BadErrors : \A b \in DOMAIN Found(x, y) : Found(x, y)[b] \in BadErrors
  BY DEF Found, BadErrors
<1>3. \A b \in DOMAIN Atom : Atom[b] \in BadErrors
  BY DEF Atom, BadErrors
<1>4. /\ <<Leg(FALSE, FALSE), Pdf>> \in Seq([pdf : BOOLEAN, needed : BOOLEAN]) /\ <<Leg(FALSE, FALSE), Pdf>> # <<>>
      /\ <<Pdf>> \in Seq([pdf : BOOLEAN, needed : BOOLEAN]) /\ <<Pdf>> # <<>>
  BY DEF Leg, Pdf
<1>5. /\ WellFormed(crossref) /\ WellFormed(resolve_citation) /\ WellFormed(unpaywall)
      /\ WellFormed(arxiv) /\ WellFormed(fetch_metadata_only)
  BY <1>1, <1>3, <1>4, AskedIsWellFormed DEF crossref, resolve_citation, unpaywall, arxiv, fetch_metadata_only
<1>6. /\ WellFormed(openalex) /\ WellFormed(semantic_scholar) /\ WellFormed(datacite) /\ WellFormed(doaj)
  BY <1>1, AskedIsWellFormed DEF openalex, semantic_scholar, datacite, doaj
<1>7. WellFormed(core) /\ WellFormed(europe_pmc) /\ WellFormed(hal) /\ WellFormed(openaire)
  BY <1>2, AskedIsWellFormed DEF core, europe_pmc, hal, openaire, BadErrors
<1>8. /\ WellFormed(tdm_aps) /\ WellFormed(tdm_elsevier)
      /\ WellFormed(tdm_springer) /\ WellFormed(tdm_ieee) /\ WellFormed(openalex_get)
  BY <1>1, AskedIsWellFormed DEF tdm_aps, tdm_elsevier, tdm_springer, tdm_ieee, openalex_get
<1>9. WellFormed(tdm_aps_content) /\ WellFormed(try_fetch_oa_pdf)
  <2>1. \A b \in DOMAIN Schema({}) : Schema({})[b] \in BadErrors
    BY <1>1
  <2> QED
    BY <2>1, <1>4, AskedIsWellFormed DEF tdm_aps_content, try_fetch_oa_pdf
<1>10. WellFormed(paper_text) /\ WellFormed(paper_tex_source) /\ WellFormed(paper_source_bundle)
  BY AskedIsWellFormed DEF paper_text, paper_tex_source, paper_source_bundle, BadErrors
<1>11. WellFormed(ncbi_lookup)
  <2>1. \A b \in DOMAIN Schema({"garbled"}) : Schema({"garbled"})[b] \in BadErrors /\ Schema({"garbled"})[b] = "SourceSchema"
    BY <1>1
  <2> QED
    BY <2>1, AskedIsWellFormed DEF ncbi_lookup
<1>12. WellFormed(github_get) /\ WellFormed(logged_get)
  <2>1. \A b \in DOMAIN Schema({}) : Schema({})[b] \in BadErrors /\ Schema({})[b] = "SourceSchema"
    BY <1>1
  <2> QED
    BY <2>1, AskedIsWellFormed DEF github_get, logged_get
<1> QED
  BY <1>5, <1>6, <1>7, <1>8, <1>9, <1>10, <1>11, <1>12 DEF SourceTable

-----------------------------------------------------------------------------
(* The invariant.  All of it but Permits is about one asker.               *)

Places == {"gate", "permit", "ask", "send", "wait", "sleep", "body", "failed", "row", "done"}
Asking == {"ask", "send", "wait", "sleep", "body", "failed", "row"}

\* How an attempt or a fetch may have gone.
Words ==
  {"none", "NotEligible", "RedirectDenied", "builder", "timeout", "connect", "tls", "insecure_hop", "302",
   "refused_hop", "403", "404", "429", "503", "OversizedBody", "body", "read", "NotAPdf", "Log",
   "SourceSchema", "NotFound", "NotRetrievable", "TextUnavailable", "SourceUnavailable"}

Shape ==
  /\ ask \in Asks
  /\ pc \in [Askers -> Places] /\ leg \in [Askers -> Nat] /\ hops \in [Askers -> Nat]
  /\ url \in [Askers -> [host : Hosts, scheme : {"https", "http"}]]
  /\ tries \in [Askers -> Seq(Words)] /\ status \in [Askers -> Words]
  /\ rows \in [Askers -> Seq({"Ok", "Err"})] /\ visited = [a \in Askers |-> visited[a]]
  /\ \A a \in Askers : leg[a] \in 1..Len(S(a).legs)

\* The permits that are out are those of the functions past their gate.
Permits ==
  /\ held \subseteq Askers /\ IsFiniteSet(held)
  /\ \A a \in Askers : a \in held <=> pc[a] \in Asking
  /\ \A a \in held : Cardinality({b \in held : Key(b) = Key(a)}) <= Slots

\* A URL that may be sent a request: what was asked for, or a listed host.
MayAsk(a, u) == permits(u.host) \/ (u.host = ask[a].url.host /\ Key(a) # "oa-publisher")

Addressed(a) ==
  /\ pc[a] \in {"send", "wait"} => MayAsk(a, url[a])
  /\ pc[a] \in {"send", "wait", "sleep", "body"} /\ leg[a] = 1 => MayAsk(a, ask[a].url)
  /\ \A u \in visited[a] : u.scheme = "https" /\ MayAsk(a, u)

\* A leg goes on as long as its failures may be transient and retries are left.
Earned(a) ==
  LET n == Len(tries[a]) IN
  /\ n <= MAX_FETCH_RETRIES + 1
  /\ \A k \in 1..(n - 1) : is_transient(tries[a][k])
  /\ pc[a] \in {"send", "wait", "sleep", "body"} =>
       n <= MAX_FETCH_RETRIES /\ \A k \in 1..n : is_transient(tries[a][k])
  /\ pc[a] \in {"failed", "row", "done"} /\ is_transient(status[a]) => n = MAX_FETCH_RETRIES + 1

\* A row is the last thing a function does, and it is about what happened.
Logged(a) ==
  /\ pc[a] \in {"gate", "permit"} => visited[a] = {}
  /\ pc[a] # "done" => rows[a] = <<>>
  /\ pc[a] = "failed" => status[a] \notin {"none", "Log", "SourceSchema"}
  /\ pc[a] = "row" => /\ status[a] \notin {"Log", "SourceSchema"}
                      /\ S(a).rows \in {"never", "success"} => status[a] = "none"
  /\ Done(a) /\ visited[a] # {} => RowTells(a)

Fine(a) == Addressed(a) /\ Earned(a) /\ Logged(a)
IInv == Shape /\ Permits /\ \A a \in Askers : Fine(a)

-----------------------------------------------------------------------------
\* An element of a sequence.
LEMMA ElementOf == \A T : \A q \in Seq(T) : \A i \in 1..Len(q) : q[i] \in T
  OBVIOUS

\* What Append does.
LEMMA Appended ==
  ASSUME NEW T, NEW q \in Seq(T), NEW x \in T
  PROVE  /\ Append(q, x) \in Seq(T) /\ Len(Append(q, x)) = Len(q) + 1 /\ Len(q) \in Nat
         /\ \A k \in 1..Len(q) : Append(q, x)[k] = q[k]
         /\ Append(q, x)[Len(q) + 1] = x
  OBVIOUS

\* The function an asker runs is one of the table.
LEMMA AskedFunction ==
  ASSUME Shape, NEW a \in Askers
  PROVE  /\ WellFormed(S(a)) /\ ask[a].url \in [host : Hosts, scheme : {"https", "http"}]
         /\ CurrentLeg(a).pdf \in BOOLEAN /\ CurrentLeg(a).needed \in BOOLEAN
         /\ Len(S(a).legs) \in Nat
<1>1. ask[a] \in [source : SourceTable, ref : STRING, profile : {"on", "off", "nokey"},
                  url : [host : Hosts, scheme : {"https", "http"}]]
  BY AskAssumption DEF Shape
<1>2. WellFormed(S(a))
  BY <1>1, TableIsWellFormed DEF S
<1>3. S(a).legs \in Seq([pdf : BOOLEAN, needed : BOOLEAN]) /\ leg[a] \in 1..Len(S(a).legs)
  BY <1>2 DEF WellFormed, Shape
<1> QED
  <2>1. CurrentLeg(a) \in [pdf : BOOLEAN, needed : BOOLEAN]
    BY <1>3, ElementOf DEF CurrentLeg
  <2>2. Len(S(a).legs) \in Nat
    BY <1>3
  <2>3. CurrentLeg(a).pdf \in BOOLEAN /\ CurrentLeg(a).needed \in BOOLEAN
    BY <2>1
  <2>4. ask[a].url \in [host : Hosts, scheme : {"https", "http"}]
    BY <1>1
  <2> QED
    BY <1>2, <2>2, <2>3, <2>4

\* Where a request goes is a URL.
LEMMA Upgraded ==
  ASSUME NEW u \in [host : Hosts, scheme : {"https", "http"}]
  PROVE  /\ upgrade_http_to_https(u) \in [host : Hosts, scheme : {"https", "http"}]
         /\ upgrade_http_to_https(u).host = u.host
  BY DEF upgrade_http_to_https

\* The fields of the URL of the legs after the first.
LEMMA OwnUrl ==
  /\ Url("own", "https") \in [host : Hosts, scheme : {"https", "http"}] /\ permits(Url("own", "https").host)
  BY DEF Url, Hosts, permits, host_matches

\* One attempt that went wrong.
LEMMA AttemptEffect ==
  ASSUME Shape, NEW a \in Askers, NEW how \in Words, Attempt(a, how)
  PROVE  /\ pc' = [pc EXCEPT ![a] = pc'[a]] /\ pc'[a] \in {"sleep", "failed"}
         /\ tries' = [tries EXCEPT ![a] = Append(@, how)]
         /\ status' = [status EXCEPT ![a] = status'[a]]
         /\ pc'[a] = "sleep" => status'[a] = status[a] /\ is_transient(how) /\ Len(tries[a]) < MAX_FETCH_RETRIES
         /\ pc'[a] = "failed" => status'[a] = how /\ (is_transient(how) => ~(Len(tries[a]) < MAX_FETCH_RETRIES))
  BY DEF Attempt, Shape, Go

\* The variables change for one asker only.
Local(a) ==
  /\ ask' = ask
  /\ pc' = [pc EXCEPT ![a] = pc'[a]] /\ leg' = [leg EXCEPT ![a] = leg'[a]]
  /\ hops' = [hops EXCEPT ![a] = hops'[a]] /\ hops'[a] \in Nat
  /\ url' = [url EXCEPT ![a] = url'[a]] /\ tries' = [tries EXCEPT ![a] = tries'[a]]
  /\ status' = [status EXCEPT ![a] = status'[a]] /\ rows' = [rows EXCEPT ![a] = rows'[a]]
  /\ visited' = [visited EXCEPT ![a] = visited'[a]]
  /\ held' \in {held, held \cup {a}, held \ {a}}

\* A step of one asker that leaves it in a possible state is a possible step.
LEMMA LocalShape ==
  ASSUME Shape, NEW a \in Askers, Local(a),
         pc'[a] \in Places, leg'[a] \in 1..Len(S(a).legs), url'[a] \in [host : Hosts, scheme : {"https", "http"}],
         tries'[a] \in Seq(Words), status'[a] \in Words, rows'[a] \in Seq({"Ok", "Err"})
  PROVE  Shape'
<1>0. Len(S(a).legs) \in Nat /\ S(a)' = S(a)
  BY AskedFunction DEF S, Local
<1>1. leg'[a] \in Nat
  BY <1>0
<1>2. /\ pc' \in [Askers -> Places] /\ leg' \in [Askers -> Nat] /\ hops' \in [Askers -> Nat]
      /\ url' \in [Askers -> [host : Hosts, scheme : {"https", "http"}]]
  BY <1>1 DEF Shape, Local
<1>3. tries' \in [Askers -> Seq(Words)] /\ status' \in [Askers -> Words]
  BY DEF Shape, Local
<1>4. rows' \in [Askers -> Seq({"Ok", "Err"})] /\ visited' = [b \in Askers |-> visited'[b]]
  BY DEF Shape, Local
<1>5. \A b \in Askers : leg'[b] \in 1..Len(S(b)'.legs)
  BY DEF Shape, Local, S
<1> QED
  BY <1>2, <1>3, <1>4, <1>5 DEF Shape, Local

\* The other askers do not notice.
LEMMA OthersFine ==
  ASSUME Shape, NEW a \in Askers, Local(a), NEW b \in Askers, b # a, Fine(b)
  PROVE  Fine(b)'
<1>1. /\ pc'[b] = pc[b] /\ leg'[b] = leg[b] /\ url'[b] = url[b] /\ tries'[b] = tries[b]
      /\ status'[b] = status[b] /\ rows'[b] = rows[b] /\ visited'[b] = visited[b] /\ ask' = ask
  BY DEF Shape, Local
<1>2. Addressed(b)'
  BY <1>1 DEF Fine, Addressed, MayAsk, Key, S
<1>3. Earned(b)'
  BY <1>1 DEF Fine, Earned
<1>4. Logged(b)'
  BY <1>1 DEF Fine, Logged, RowTells, Done, S
<1> QED
  BY <1>2, <1>3, <1>4 DEF Fine

\* The gate, and waiting for the permit.
LEMMA GateStep ==
  ASSUME Shape, NEW a \in Askers, Fine(a), Gate(a) \/ Acquire(a)
  PROVE  /\ Local(a) /\ Shape' /\ Fine(a)'
<1>1. /\ pc[a] \in {"gate", "permit"} /\ pc'[a] \in {"permit", "ask", "done"}
      /\ pc' = [pc EXCEPT ![a] = pc'[a]] /\ held' \in {held, held \cup {a}}
      /\ ask' = ask /\ leg' = leg /\ url' = url /\ hops' = hops /\ tries' = tries /\ rows' = rows /\ visited' = visited
  BY DEF Gate, Acquire, Go, Finish, request, Shape
<1>2. /\ status' = [status EXCEPT ![a] = status'[a]] /\ status'[a] \in {status[a], "none", "NotEligible"}
      /\ pc'[a] = "done" => status'[a] \in {"none", "NotEligible"}
  BY DEF Gate, Acquire, Go, Finish, request, Shape
<1>3. Local(a)
  BY <1>1, <1>2 DEF Local, Shape
<1>4. Shape'
  <2>1. pc'[a] \in Places /\ status'[a] \in Words
    BY <1>1, <1>2 DEF Places, Words, Shape
  <2> QED
    BY <1>1, <1>3, <2>1, LocalShape DEF Shape
<1>5. visited[a] = {} /\ rows[a] = <<>>
  BY <1>1 DEF Fine, Logged
<1>6. Addressed(a)' /\ Earned(a)' /\ Logged(a)'
  <2>1. Addressed(a)'
    BY <1>1, <1>5 DEF Addressed
  <2>2. Earned(a)'
    BY <1>1, <1>2 DEF Earned, Fine, is_transient
  <2>3. Logged(a)'
    BY <1>1, <1>2, <1>5 DEF Logged, Fine
  <2> QED
    BY <2>1, <2>2, <2>3
<1> QED
  BY <1>3, <1>4, <1>6 DEF Fine

\* The start of a leg.
LEMMA AskStep ==
  ASSUME Shape, NEW a \in Askers, Fine(a), Ask(a)
  PROVE  /\ Local(a) /\ Shape' /\ Fine(a)'
<1> DEFINE u == upgrade_http_to_https(IF leg[a] = 1 THEN ask[a].url ELSE Url("own", "https"))
<1>0. /\ u \in [host : Hosts, scheme : {"https", "http"}]
      /\ leg[a] = 1 => u.host = ask[a].url.host
      /\ leg[a] # 1 => permits(u.host)
  BY AskedFunction, Upgraded, OwnUrl
<1> HIDE DEF u
<1>1. /\ pc[a] = "ask" /\ pc'[a] \in {"send", "failed"} /\ pc' = [pc EXCEPT ![a] = pc'[a]]
      /\ held' = held /\ ask' = ask /\ leg' = leg /\ rows' = rows /\ visited' = visited
      /\ tries' = [tries EXCEPT ![a] = <<>>] /\ hops' = [hops EXCEPT ![a] = 0]
  BY DEF Ask, Go, Shape
<1>2. /\ pc'[a] = "send" => url' = [url EXCEPT ![a] = u] /\ status' = status
                            /\ (Key(a) # "oa-publisher" \/ permits(u.host))
      /\ pc'[a] = "failed" => url' = url /\ status' = [status EXCEPT ![a] = "RedirectDenied"]
  BY DEF Ask, Go, Shape, u
<1>3. Local(a)
  BY <1>1, <1>2 DEF Local, Shape
<1>4. Shape'
  <2>1. pc'[a] \in Places /\ status'[a] \in Words /\ url'[a] \in [host : Hosts, scheme : {"https", "http"}]
    BY <1>0, <1>1, <1>2 DEF Places, Words, Shape
  <2>2. tries'[a] = <<>> /\ tries'[a] \in Seq(Words)
    BY <1>1 DEF Shape
  <2> QED
    BY <1>1, <1>3, <2>1, <2>2, LocalShape DEF Shape
<1>5. Addressed(a)'
  <2>1. pc'[a] = "send" => MayAsk(a, u) /\ url'[a] = u
    BY <1>0, <1>2 DEF MayAsk, Shape
  <2>2. leg[a] = 1 /\ pc'[a] = "send" => MayAsk(a, ask[a].url)
    BY <1>0, <2>1 DEF MayAsk
  <2>3. \A v \in visited[a] : v.scheme = "https" /\ MayAsk(a, v)
    BY DEF Fine, Addressed
  <2> QED
    BY <1>1, <2>1, <2>2, <2>3 DEF Addressed, MayAsk, Key, S
<1>6. Earned(a)'
  <2>1. tries'[a] = <<>> /\ Len(<<>>) = 0
    BY <1>1 DEF Shape
  <2>2. pc'[a] = "failed" => ~is_transient(status'[a])
    BY <1>2 DEF Shape, is_transient
  <2> QED
    BY <1>1, <2>1, <2>2, SourceAssumption DEF Earned
<1>7. Logged(a)'
  BY <1>1, <1>2 DEF Logged, Fine, Shape, Done
<1> QED
  BY <1>3, <1>4, <1>5, <1>6, <1>7 DEF Fine

\* How an attempt may go wrong.
Hows == Words \ {"none", "Log", "SourceSchema", "read", "NotEligible"}

\* A failed attempt is tried again, or is the failure of the leg.
LEMMA AttemptStep ==
  ASSUME Shape, NEW a \in Askers, Fine(a), pc[a] \in {"send", "wait", "body"},
         NEW how \in Hows, Attempt(a, how),
         UNCHANGED <<ask, leg, url, hops, held, rows, visited>>
  PROVE  /\ Local(a) /\ Shape' /\ Fine(a)'
<1>1. /\ pc' = [pc EXCEPT ![a] = pc'[a]] /\ pc'[a] \in {"sleep", "failed"}
      /\ tries' = [tries EXCEPT ![a] = Append(@, how)]
      /\ status' = [status EXCEPT ![a] = status'[a]]
      /\ pc'[a] = "sleep" => status'[a] = status[a] /\ is_transient(how) /\ Len(tries[a]) < MAX_FETCH_RETRIES
      /\ pc'[a] = "failed" => status'[a] = how /\ (is_transient(how) => ~(Len(tries[a]) < MAX_FETCH_RETRIES))
  BY AttemptEffect DEF Hows
<1>2. /\ tries'[a] = Append(tries[a], how) /\ tries'[a] \in Seq(Words) /\ Len(tries'[a]) = Len(tries[a]) + 1
      /\ \A k \in 1..Len(tries[a]) : tries'[a][k] = tries[a][k]
      /\ tries'[a][Len(tries[a]) + 1] = how /\ Len(tries[a]) \in Nat
  <2>1. tries[a] \in Seq(Words) /\ how \in Words
    BY DEF Shape, Hows
  <2>2. tries'[a] = Append(tries[a], how)
    BY <1>1 DEF Shape
  <2> QED
    BY <2>1, <2>2, Appended
<1>3. Local(a)
  BY <1>1 DEF Local, Shape
<1>4. Shape'
  <2>1. pc'[a] \in Places /\ status'[a] \in Words
    BY <1>1 DEF Places, Hows, Shape
  <2> QED
    BY <1>1, <1>2, <1>3, <2>1, LocalShape DEF Shape
<1>5. Addressed(a)'
  BY <1>1 DEF Addressed, MayAsk, Key, S, Fine
<1>6. Earned(a)'
  <2>1. Len(tries[a]) <= MAX_FETCH_RETRIES /\ \A k \in 1..Len(tries[a]) : is_transient(tries[a][k])
    BY DEF Fine, Earned
  <2>2. \A k \in 1..Len(tries[a]) : is_transient(tries'[a][k])
    BY <1>2, <2>1
  <2>3. pc'[a] = "sleep" => \A k \in 1..Len(tries'[a]) : is_transient(tries'[a][k])
    BY <1>1, <1>2, <2>2
  <2> QED
    BY <1>1, <1>2, <2>1, <2>2, <2>3, SourceAssumption DEF Earned
<1>7. Logged(a)'
  BY <1>1 DEF Logged, Fine, Done, Hows
<1> QED
  BY <1>3, <1>4, <1>5, <1>6, <1>7 DEF Fine

\* A request goes out, and is redirected.
LEMMA SendStep ==
  ASSUME Shape, NEW a \in Askers, Fine(a), Send(a) \/ Redirect(a)
  PROVE  /\ Local(a) /\ Shape' /\ Fine(a)' /\ held' = held /\ pc[a] \in Asking /\ pc'[a] \in Asking
<1>1. CASE \E how \in Hows : Attempt(a, how) /\ UNCHANGED <<ask, leg, url, hops, held, rows, visited>>
  <2>1. pc[a] \in {"send", "wait"}
    BY DEF Send, Redirect
  <2>2. PICK how \in Hows : Attempt(a, how) /\ UNCHANGED <<ask, leg, url, hops, held, rows, visited>>
    BY <1>1
  <2>3. pc'[a] \in {"sleep", "failed"}
    BY <2>2, AttemptEffect DEF Hows
  <2> QED
    BY <2>1, <2>2, <2>3, AttemptStep DEF Asking
<1>2. CASE \E u \in [host : Hosts, scheme : {"https", "http"}] :
             /\ u.scheme = "https" /\ MayAsk(a, u)
             /\ pc[a] \in {"send", "wait"} /\ pc' = [pc EXCEPT ![a] = "wait"]
             /\ url' = [url EXCEPT ![a] = u] /\ visited' = [visited EXCEPT ![a] = @ \cup {u}]
             /\ hops' \in {hops, [hops EXCEPT ![a] = @ + 1]} /\ UNCHANGED <<ask, leg, tries, status, held, rows>>
  <2>1. PICK u \in [host : Hosts, scheme : {"https", "http"}] :
             /\ u.scheme = "https" /\ MayAsk(a, u)
             /\ pc[a] \in {"send", "wait"} /\ pc' = [pc EXCEPT ![a] = "wait"]
             /\ url' = [url EXCEPT ![a] = u] /\ visited' = [visited EXCEPT ![a] = @ \cup {u}]
             /\ hops' \in {hops, [hops EXCEPT ![a] = @ + 1]} /\ UNCHANGED <<ask, leg, tries, status, held, rows>>
    BY <1>2
  <2>2. pc'[a] = "wait" /\ url'[a] = u /\ visited'[a] = visited[a] \cup {u}
    BY <2>1 DEF Shape
  <2>3. Local(a)
    BY <2>1 DEF Local, Shape
  <2>4. Shape'
    BY <2>1, <2>2, <2>3, LocalShape DEF Shape, Places
  <2>5. Addressed(a)'
    BY <2>1, <2>2 DEF Addressed, MayAsk, Key, S, Fine
  <2>6. Earned(a)'
    BY <2>1, <2>2 DEF Earned, Fine
  <2>7. Logged(a)'
    BY <2>1, <2>2 DEF Logged, Fine, Done
  <2> QED
    BY <2>1, <2>2, <2>3, <2>4, <2>5, <2>6, <2>7 DEF Fine, Asking
<1>3. CASE Send(a)
  <2>1. CASE url[a].scheme = "https"
    <3>1. /\ pc[a] = "send" /\ pc' = [pc EXCEPT ![a] = "wait"] /\ visited' = [visited EXCEPT ![a] = @ \cup {url[a]}]
          /\ UNCHANGED <<ask, leg, url, hops, tries, status, held, rows>>
      BY <1>3, <2>1 DEF Send, Go
    <3>2. MayAsk(a, url[a]) /\ url[a] \in [host : Hosts, scheme : {"https", "http"}] /\ url' = [url EXCEPT ![a] = url[a]]
      BY <3>1 DEF Fine, Addressed, Shape
    <3> QED
      BY <1>2, <2>1, <3>1, <3>2
  <2>2. CASE url[a].scheme # "https"
    BY <1>1, <1>3, <2>2 DEF Send, Hows, Words
  <2> QED
    BY <2>1, <2>2
<1>4. CASE Redirect(a)
  <2>1. PICK u \in Target :
       CASE u.scheme # "https" -> Attempt(a, "insecure_hop") /\ UNCHANGED <<url, hops, visited>>
         [] u.scheme = "https" /\ previous(a) >= MAX_REDIRECTS
              -> Attempt(a, "302") /\ UNCHANGED <<url, hops, visited>>
         [] u.scheme = "https" /\ previous(a) < MAX_REDIRECTS /\ ~permits(u.host)
              -> Attempt(a, "refused_hop") /\ UNCHANGED <<url, hops, visited>>
         [] OTHER -> /\ url' = [url EXCEPT ![a] = u] /\ hops' = [hops EXCEPT ![a] = @ + 1]
                     /\ visited' = [visited EXCEPT ![a] = @ \cup {u}]
                     /\ Trouble /\ UNCHANGED <<pc, tries, status>>
    BY <1>4 DEF Redirect
  <2>2. pc[a] = "wait" /\ UNCHANGED <<ask, leg, buf, held, rows>>
    BY <1>4 DEF Redirect
  <2>3. u \in [host : Hosts, scheme : {"https", "http"}]
    BY DEF Target, Hosts
  <2>8. previous(a) \in Nat /\ MAX_REDIRECTS \in Nat
    BY SourceAssumption DEF previous, Shape
  <2>4. CASE u.scheme # "https"
    BY <1>1, <2>1, <2>2, <2>4 DEF Hows, Words
  <2>5. CASE u.scheme = "https" /\ previous(a) >= MAX_REDIRECTS
    BY <1>1, <2>1, <2>2, <2>5 DEF Hows, Words
  <2>6. CASE u.scheme = "https" /\ ~(previous(a) >= MAX_REDIRECTS) /\ ~permits(u.host)
    <3>1. u.scheme = "https" /\ previous(a) < MAX_REDIRECTS /\ ~permits(u.host)
      BY <2>6, <2>8
    <3>2. Attempt(a, "refused_hop") /\ UNCHANGED <<url, hops, visited>>
      BY <2>1, <2>6, <3>1
    <3> QED
      BY <1>1, <2>2, <3>2 DEF Hows, Words
  <2>7. CASE u.scheme = "https" /\ ~(previous(a) >= MAX_REDIRECTS) /\ permits(u.host)
    <3>1. /\ url' = [url EXCEPT ![a] = u] /\ hops' = [hops EXCEPT ![a] = @ + 1] /\ visited' = [visited EXCEPT ![a] = @ \cup {u}]
          /\ UNCHANGED <<pc, tries, status>>
      BY <2>1, <2>7
    <3>2. pc' = [pc EXCEPT ![a] = "wait"] /\ MayAsk(a, u)
      BY <2>2, <2>7, <3>1 DEF Shape, MayAsk
    <3> QED
      BY <1>2, <2>2, <2>3, <2>7, <3>1, <3>2
  <2> QED
    BY <2>4, <2>5, <2>6, <2>7
<1> QED
  BY <1>3, <1>4

\* An answer, a pause or a chunk.
LEMMA WaitStep ==
  ASSUME Shape, NEW a \in Askers, Fine(a),
         NoAnswer(a) \/ Status(a) \/ Wake(a) \/ Chunk(a) \/ BodyBreaks(a)
  PROVE  /\ Local(a) /\ Shape' /\ Fine(a)' /\ held' = held /\ pc[a] \in Asking /\ pc'[a] \in Asking
<1>0. pc[a] \in {"wait", "sleep", "body"} /\ UNCHANGED <<ask, leg, held, rows, visited>>
  BY DEF NoAnswer, Status, Wake, Chunk, BodyBreaks
<1>1. CASE \E how \in Hows : Attempt(a, how) /\ UNCHANGED <<url, hops>> /\ pc[a] # "sleep"
  <2>1. PICK how \in Hows : Attempt(a, how) /\ UNCHANGED <<url, hops>> /\ pc[a] # "sleep"
    BY <1>1
  <2>2. pc'[a] \in {"sleep", "failed"}
    BY <2>1, AttemptEffect DEF Hows
  <2> QED
    BY <1>0, <2>1, <2>2, AttemptStep DEF Asking
<1>2. CASE /\ pc[a] \in {"wait", "body"} /\ pc' = [pc EXCEPT ![a] = "body"]
           /\ UNCHANGED <<url, hops, tries, status>>
  <2>1. pc'[a] = "body"
    BY <1>2 DEF Shape
  <2>2. Local(a)
    BY <1>0, <1>2 DEF Local, Shape
  <2>3. Shape'
    BY <1>0, <1>2, <2>1, <2>2, LocalShape DEF Shape, Places
  <2>4. Addressed(a)' /\ Earned(a)'
    BY <1>0, <1>2, <2>1 DEF Addressed, Earned, MayAsk, Key, S, Fine
  <2>5. Logged(a)'
    BY <1>0, <1>2, <2>1 DEF Logged, Fine, Done
  <2> QED
    BY <1>0, <1>2, <2>1, <2>2, <2>3, <2>4, <2>5 DEF Fine, Asking
<1>3. CASE Wake(a)
  <2> DEFINE u == upgrade_http_to_https(IF leg[a] = 1 THEN ask[a].url ELSE Url("own", "https"))
  <2>0. /\ u \in [host : Hosts, scheme : {"https", "http"}]
        /\ leg[a] = 1 => u.host = ask[a].url.host
        /\ leg[a] # 1 => permits(u.host)
    BY AskedFunction, Upgraded, OwnUrl
  <2> HIDE DEF u
  <2>1. /\ pc[a] = "sleep" /\ pc' = [pc EXCEPT ![a] = "send"] /\ url' = [url EXCEPT ![a] = u]
        /\ hops' = [hops EXCEPT ![a] = 0] /\ UNCHANGED <<tries, status>>
    BY <1>3 DEF Wake, Go, u
  <2>2. pc'[a] = "send" /\ url'[a] = u
    BY <2>1 DEF Shape
  <2>3. Local(a)
    BY <1>0, <2>1 DEF Local, Shape
  <2>4. Shape'
    BY <1>0, <2>0, <2>1, <2>2, <2>3, LocalShape DEF Shape, Places
  <2>5. MayAsk(a, u)
    BY <2>0, <2>1 DEF Fine, Addressed, MayAsk
  <2>6. Addressed(a)'
    BY <1>0, <2>1, <2>2, <2>5 DEF Addressed, MayAsk, Key, S, Fine
  <2>7. Earned(a)'
    BY <1>0, <2>1, <2>2 DEF Earned, Fine
  <2>8. Logged(a)'
    BY <1>0, <2>1, <2>2 DEF Logged, Fine, Done
  <2> QED
    BY <1>0, <2>1, <2>2, <2>3, <2>4, <2>6, <2>7, <2>8 DEF Fine, Asking
<1>4. CASE NoAnswer(a)
  BY <1>1, <1>4 DEF NoAnswer, Hows, Words
<1>5. CASE Status(a)
  BY <1>1, <1>2, <1>5 DEF Status, Go, Hows, Words
<1>6. CASE Chunk(a)
  <2>1. CASE Attempt(a, "OversizedBody")
    BY <1>1, <1>6, <2>1 DEF Chunk, Hows, Words
  <2>2. CASE UNCHANGED <<pc, tries, status>>
    <3>1. pc[a] = "body" /\ pc' = [pc EXCEPT ![a] = "body"]
      BY <1>6, <2>2 DEF Chunk, Shape
    <3> QED
      BY <1>2, <1>6, <2>2, <3>1 DEF Chunk
  <2> QED
    BY <1>6, <2>1, <2>2 DEF Chunk
<1>7. CASE BodyBreaks(a)
  BY <1>1, <1>7 DEF BodyBreaks, Hows, Words
<1> QED
  BY <1>3, <1>4, <1>5, <1>6, <1>7

\* On to the next leg, or to the row.
LEMMA NextLegEffect ==
  ASSUME Shape, NEW a \in Askers, NextLeg(a)
  PROVE  /\ pc' = [pc EXCEPT ![a] = pc'[a]] /\ pc'[a] \in {"ask", "row"}
         /\ leg' = [leg EXCEPT ![a] = leg'[a]] /\ leg'[a] \in 1..Len(S(a).legs)
<1>1. Len(S(a).legs) \in Nat /\ leg[a] \in 1..Len(S(a).legs)
  BY AskedFunction DEF Shape
<1> QED
  BY <1>1 DEF NextLeg, Go, Shape

\* A body that is read.
LEMMA BodyStep ==
  ASSUME Shape, NEW a \in Askers, Fine(a), Body(a)
  PROVE  /\ Local(a) /\ Shape' /\ Fine(a)' /\ pc[a] \in Asking
         /\ held' = IF pc'[a] = "done" THEN held \ {a} ELSE held
         /\ pc'[a] \in {"ask", "row", "failed", "done"}
<1>0. WellFormed(S(a)) /\ leg[a] \in 1..Len(S(a).legs)
  BY AskedFunction DEF Shape
<1>1. /\ pc[a] = "body" /\ UNCHANGED <<ask, url, hops, rows, visited>>
      /\ tries' = [tries EXCEPT ![a] = Append(@, "read")]
      /\ held' = IF pc'[a] = "done" THEN held \ {a} ELSE held
  BY DEF Body
<1>2. /\ pc' = [pc EXCEPT ![a] = pc'[a]] /\ status' = [status EXCEPT ![a] = status'[a]]
      /\ leg' = [leg EXCEPT ![a] = leg'[a]] /\ leg'[a] \in 1..Len(S(a).legs)
      /\ \/ pc'[a] \in {"ask", "row"} /\ status'[a] = "none"
         \/ pc'[a] = "failed" /\ status'[a] = "NotAPdf"
         \/ pc'[a] = "done" /\ status'[a] \in BadErrors /\ (S(a).rows = "always" => status'[a] = "SourceSchema")
  <2>1. CASE NextLeg(a) /\ status' = [status EXCEPT ![a] = "none"]
    BY <2>1, NextLegEffect DEF Shape
  <2>2. CASE Go(a, "failed") /\ status' = [status EXCEPT ![a] = "NotAPdf"] /\ UNCHANGED leg
    BY <1>0, <2>2 DEF Shape, Go
  <2>3. CASE (\E b \in DOMAIN S(a).bad : Finish(a, S(a).bad[b])) /\ UNCHANGED leg
    BY <1>0, <2>3 DEF Shape, Go, Finish, WellFormed
  <2> QED
    BY <2>1, <2>2, <2>3 DEF Body
<1>3. /\ tries'[a] = Append(tries[a], "read") /\ tries'[a] \in Seq(Words) /\ Len(tries'[a]) = Len(tries[a]) + 1
      /\ \A k \in 1..Len(tries[a]) : tries'[a][k] = tries[a][k]
      /\ Len(tries[a]) \in Nat
  <2>1. tries[a] \in Seq(Words) /\ "read" \in Words
    BY DEF Shape, Words
  <2>2. tries'[a] = Append(tries[a], "read")
    BY <1>1 DEF Shape
  <2> QED
    BY <2>1, <2>2, Appended
<1>4. Local(a)
  BY <1>1, <1>2 DEF Local, Shape
<1>5. Shape'
  <2>1. pc'[a] \in Places /\ status'[a] \in Words
    BY <1>2 DEF Places, Words, BadErrors
  <2> QED
    BY <1>1, <1>2, <1>3, <1>4, <2>1, LocalShape DEF Shape
<1>6. Addressed(a)'
  BY <1>1, <1>2 DEF Addressed, MayAsk, Key, S, Fine
<1>7. Earned(a)'
  <2>1. Len(tries[a]) <= MAX_FETCH_RETRIES /\ \A k \in 1..Len(tries[a]) : is_transient(tries[a][k])
    BY <1>1 DEF Fine, Earned
  <2>2. \A k \in 1..Len(tries[a]) : is_transient(tries'[a][k])
    BY <1>3, <2>1
  <2>3. ~is_transient(status'[a])
    BY <1>2 DEF is_transient, BadErrors
  <2> QED
    BY <1>2, <1>3, <2>1, <2>2, <2>3, SourceAssumption DEF Earned
<1>8. Logged(a)'
  <2>1. rows'[a] = <<>>
    BY <1>1 DEF Fine, Logged
  <2>2. pc'[a] = "done" => RowTells(a)'
    <3>1. CASE S(a).rows = "always"
      BY <1>1, <1>2, <2>1, <3>1 DEF RowTells, S, BadErrors
    <3>2. CASE S(a).rows = "success"
      BY <1>1, <1>2, <2>1, <3>2 DEF RowTells, S, BadErrors
    <3>3. CASE S(a).rows = "best_effort"
      BY <1>1, <1>2, <2>1, <3>3 DEF RowTells, S, BadErrors
    <3>4. CASE S(a).rows = "never"
      BY <1>1, <1>2, <2>1, <3>4 DEF RowTells, S, BadErrors
    <3> QED
      BY <1>0, <3>1, <3>2, <3>3, <3>4 DEF WellFormed
  <2> QED
    BY <1>1, <1>2, <2>1, <2>2 DEF Logged, Done, S
<1> QED
  BY <1>1, <1>2, <1>4, <1>5, <1>6, <1>7, <1>8 DEF Fine, Asking

\* A leg that failed.
LEMMA FailedStep ==
  ASSUME Shape, NEW a \in Askers, Fine(a), Failed(a)
  PROVE  /\ Local(a) /\ Shape' /\ Fine(a)' /\ pc[a] \in Asking
         /\ held' = IF pc'[a] = "done" THEN held \ {a} ELSE held
         /\ pc'[a] \in {"ask", "row", "failed", "done"}
<1>0. WellFormed(S(a)) /\ leg[a] \in 1..Len(S(a).legs) /\ CurrentLeg(a).needed \in BOOLEAN
  BY AskedFunction DEF Shape
<1>1. pc[a] = "failed" /\ UNCHANGED <<ask, url, hops, tries, rows, visited>>
  BY DEF Failed
<1>2. /\ pc' = [pc EXCEPT ![a] = pc'[a]] /\ status' = [status EXCEPT ![a] = status'[a]]
      /\ leg' = [leg EXCEPT ![a] = leg'[a]] /\ leg'[a] \in 1..Len(S(a).legs)
      /\ \/ pc'[a] \in {"ask", "row"} /\ status'[a] = "none" /\ held' = held
         \/ pc'[a] = "row" /\ status'[a] = status[a] /\ S(a).rows \in {"always", "best_effort"} /\ held' = held
         \/ pc'[a] = "done" /\ status'[a] = status[a] /\ S(a).rows \in {"success", "never"} /\ held' = held \ {a}
  <2>1. CASE ~CurrentLeg(a).needed
    <3>1. NextLeg(a) /\ status' = [status EXCEPT ![a] = "none"] /\ UNCHANGED held
      BY <2>1 DEF Failed
    <3> QED
      BY <3>1, NextLegEffect DEF Shape
  <2>2. CASE CurrentLeg(a).needed /\ S(a).rows \in {"always", "best_effort"}
    <3>1. Go(a, "row") /\ UNCHANGED <<leg, status, held>>
      BY <2>2 DEF Failed
    <3> QED
      BY <1>0, <2>2, <3>1 DEF Go, Shape
  <2>3. CASE CurrentLeg(a).needed /\ S(a).rows \notin {"always", "best_effort"}
    <3>1. Go(a, "done") /\ held' = held \ {a} /\ UNCHANGED <<leg, status>>
      BY <2>3 DEF Failed
    <3>2. S(a).rows \in {"success", "never"}
      BY <1>0, <2>3 DEF WellFormed
    <3> QED
      BY <1>0, <3>1, <3>2 DEF Go, Shape
  <2> QED
    BY <1>0, <2>1, <2>2, <2>3
<1>3. Local(a)
  BY <1>1, <1>2 DEF Local, Shape
<1>4. Shape'
  <2>1. pc'[a] \in Places /\ status'[a] \in Words
    BY <1>2 DEF Places, Words, Shape
  <2> QED
    BY <1>1, <1>2, <1>3, <2>1, LocalShape DEF Shape
<1>5. Addressed(a)' /\ Earned(a)'
  <2>1. Addressed(a)'
    BY <1>1, <1>2 DEF Addressed, MayAsk, Key, S, Fine
  <2>2. Earned(a)'
    BY <1>1, <1>2 DEF Earned, Fine, is_transient
  <2> QED
    BY <2>1, <2>2
<1>6. Logged(a)'
  <2>1. rows'[a] = <<>> /\ status[a] \notin {"none", "Log", "SourceSchema"}
    BY <1>1 DEF Fine, Logged
  <2>2. pc'[a] = "done" => RowTells(a)'
    <3>1. CASE S(a).rows = "success"
      BY <1>1, <1>2, <2>1, <3>1 DEF RowTells, S
    <3>2. CASE S(a).rows = "never"
      BY <1>1, <1>2, <2>1, <3>2 DEF RowTells, S
    <3> QED
      BY <1>2, <3>1, <3>2
  <2> QED
    BY <1>1, <1>2, <2>1, <2>2 DEF Logged, Done, S
<1> QED
  BY <1>1, <1>2, <1>3, <1>4, <1>5, <1>6 DEF Fine, Asking

\* The row, and the return without one.
LEMMA RowStep ==
  ASSUME Shape, NEW a \in Askers, Fine(a), Row(a) \/ NoRow(a)
  PROVE  /\ Local(a) /\ Shape' /\ Fine(a)' /\ pc[a] \in Asking /\ pc'[a] = "done" /\ held' = held \ {a}
<1>0. WellFormed(S(a)) /\ leg[a] \in 1..Len(S(a).legs)
  BY AskedFunction DEF Shape
<1>1. /\ pc[a] = "row" /\ UNCHANGED <<ask, leg, url, hops, tries, visited>>
      /\ pc' = [pc EXCEPT ![a] = "done"] /\ held' = held \ {a}
  BY DEF Row, NoRow, Go, request
<1>2. rows[a] = <<>> /\ status[a] \notin {"Log", "SourceSchema"}
      /\ (S(a).rows \in {"never", "success"} => status[a] = "none")
  BY <1>1 DEF Fine, Logged
<1>3. /\ rows' = [rows EXCEPT ![a] = rows'[a]] /\ status' = [status EXCEPT ![a] = status'[a]]
      /\ \/ /\ S(a).rows # "never" /\ rows'[a] = IF status[a] = "none" THEN <<"Ok">> ELSE <<"Err">>
            /\ status'[a] = IF status[a] = "404" /\ S(a).none404 THEN "none" ELSE status[a]
         \/ /\ S(a).rows # "never" /\ rows'[a] = <<>>
            /\ status'[a] = IF S(a).rows = "best_effort" THEN status[a] ELSE "Log"
         \/ S(a).rows = "never" /\ rows'[a] = <<>> /\ status'[a] = status[a]
  <2>1. CASE NoRow(a)
    BY <1>2, <2>1 DEF NoRow, Shape
  <2>2. CASE /\ S(a).rows # "never"
             /\ rows' = [rows EXCEPT ![a] = Append(@, IF status[a] = "none" THEN "Ok" ELSE "Err")]
             /\ status' = [status EXCEPT ![a] = IF @ = "404" /\ S(a).none404 THEN "none" ELSE @]
    <3>1. rows'[a] = Append(<<>>, IF status[a] = "none" THEN "Ok" ELSE "Err")
      BY <1>2, <2>2 DEF Shape
    <3>2. Append(<<>>, "Ok") = <<"Ok">> /\ Append(<<>>, "Err") = <<"Err">>
      OBVIOUS
    <3>3. rows'[a] = IF status[a] = "none" THEN <<"Ok">> ELSE <<"Err">>
      BY <3>1, <3>2
    <3>4. status'[a] = IF status[a] = "404" /\ S(a).none404 THEN "none" ELSE status[a]
      BY <2>2 DEF Shape
    <3>5. rows' = [rows EXCEPT ![a] = rows'[a]] /\ status' = [status EXCEPT ![a] = status'[a]]
      BY <2>2 DEF Shape
    <3> QED
      BY <2>2, <3>3, <3>4, <3>5
  <2>3. CASE /\ S(a).rows # "never" /\ UNCHANGED rows
             /\ status' = [status EXCEPT ![a] = IF S(a).rows = "best_effort" THEN @ ELSE "Log"]
    BY <1>2, <2>3 DEF Shape
  <2> QED
    BY <2>1, <2>2, <2>3 DEF Row
<1>4. Local(a)
  BY <1>1, <1>3 DEF Local, Shape
<1>5. Shape'
  <2>1. pc'[a] \in Places /\ status'[a] \in Words
    BY <1>1, <1>3 DEF Places, Words, Shape
  <2>2. rows'[a] \in Seq({"Ok", "Err"})
    <3>1. <<>> \in Seq({"Ok", "Err"}) /\ <<"Ok">> \in Seq({"Ok", "Err"}) /\ <<"Err">> \in Seq({"Ok", "Err"})
      OBVIOUS
    <3> QED
      BY <1>3, <3>1
  <2> QED
    BY <1>0, <1>1, <1>4, <2>1, <2>2, LocalShape DEF Shape
<1>6. Addressed(a)' /\ Earned(a)'
  <2>0. pc'[a] = "done"
    BY <1>1 DEF Shape
  <2>1. Addressed(a)'
    BY <1>1, <2>0 DEF Addressed, MayAsk, Key, S, Fine
  <2>2. Earned(a)'
    BY <1>1, <1>3, <2>0 DEF Earned, Fine, is_transient
  <2> QED
    BY <2>1, <2>2
<1>7. Logged(a)'
  <2>0. pc'[a] = "done"
    BY <1>1 DEF Shape
  <2>1. CASE S(a).rows = "success"
    BY <1>0, <1>1, <1>2, <1>3, <2>0, <2>1 DEF Logged, RowTells, S, WellFormed
  <2>2. CASE S(a).rows = "never"
    BY <1>1, <1>2, <1>3, <2>0, <2>2 DEF Logged, RowTells, S
  <2>3. CASE S(a).rows = "best_effort"
    BY <1>0, <1>1, <1>2, <1>3, <2>0, <2>3 DEF Logged, RowTells, S, WellFormed
  <2>4. CASE S(a).rows = "always"
    <3>1. RowTells(a)' = (CASE status'[a] = "none"  -> rows'[a] \in {<<"Ok">>} \cup (IF S(a).none404 THEN {<<"Err">>} ELSE {})
           [] status'[a] \in {"Log", "SourceSchema"} -> rows'[a] = <<>>
           [] OTHER -> rows'[a] = <<"Err">>)
      BY <1>1, <2>4 DEF RowTells, S
    <3>2. CASE status'[a] = "none"
      BY <1>1, <1>2, <1>3, <2>0, <2>4, <3>1, <3>2 DEF Logged
    <3>3. CASE status'[a] # "none"
      BY <1>1, <1>2, <1>3, <2>0, <2>4, <3>1, <3>3 DEF Logged
    <3> QED
      BY <3>2, <3>3
  <2> QED
    BY <1>0, <2>1, <2>2, <2>3, <2>4 DEF WellFormed
<1>8. pc'[a] = "done"
  BY <1>1 DEF Shape
<1> QED
  BY <1>1, <1>4, <1>5, <1>6, <1>7, <1>8 DEF Fine, Asking

-----------------------------------------------------------------------------
(* Permits.                                                                *)

\* A permit is taken only while one of its source is left.
LEMMA PermitsStep ==
  ASSUME Shape, Permits, NEW a \in Askers, Fine(a), Fetch(a)
  PROVE  Permits'
<1>0. Local(a)
  BY GateStep, AskStep, SendStep, WaitStep, BodyStep, FailedStep, RowStep DEF Fetch
<1>1. \A b \in Askers : Key(b)' = Key(b) /\ (b # a => pc'[b] = pc[b] /\ (b \in held' <=> b \in held))
  BY <1>0 DEF Local, Shape, Key, S
<1>2. CASE Acquire(a)
  <2>1. /\ pc[a] = "permit" /\ pc' = [pc EXCEPT ![a] = "ask"] /\ held' = held \cup {a}
        /\ Cardinality({b \in held : Key(b) = Key(a)}) < Slots
    BY <1>2 DEF Acquire, Go
  <2>2. pc'[a] = "ask" /\ pc'[a] \in Asking
    BY <2>1 DEF Shape, Asking
  <2>3. held' \subseteq Askers /\ IsFiniteSet(held')
    BY <2>1, FS_AddElement DEF Permits
  <2>4. \A b \in Askers : b \in held' <=> pc'[b] \in Asking
    BY <1>1, <2>1, <2>2 DEF Permits
  <2>5. ASSUME NEW c \in held' PROVE Cardinality({b \in held' : Key(b)' = Key(c)'}) <= Slots
    <3>1. CASE Key(c) = Key(a)
      <4> DEFINE T == {b \in held : Key(b) = Key(a)}
      <4>1. {b \in held' : Key(b)' = Key(c)'} = T \cup {a}
        BY <1>1, <2>1, <2>3, <3>1
      <4>2. IsFiniteSet(T)
        BY FS_Subset DEF Permits
      <4>3. a \notin T
        BY <2>1 DEF Permits, Asking
      <4>4. Cardinality(T \cup {a}) = Cardinality(T) + 1 /\ Cardinality(T) \in Nat
        BY <4>2, <4>3, FS_AddElement, FS_CardinalityType
      <4> QED
        BY <2>1, <4>1, <4>4, SourceAssumption
    <3>2. CASE Key(c) # Key(a)
      <4>1. c \in held
        BY <2>1, <3>2
      <4>2. {b \in held' : Key(b)' = Key(c)'} = {b \in held : Key(b) = Key(c)}
        BY <1>1, <2>1, <2>3, <3>2
      <4> QED
        BY <4>1, <4>2 DEF Permits
    <3> QED
      BY <3>1, <3>2
  <2> QED
    BY <2>3, <2>4, <2>5 DEF Permits
<1>3. CASE /\ held' = IF pc'[a] \in Asking THEN held ELSE held \ {a}
           /\ pc[a] \in Asking \/ pc'[a] \notin Asking
  <2>1. held' \subseteq held
    BY <1>3
  <2>2. held' \subseteq Askers /\ IsFiniteSet(held')
    BY <2>1, FS_Subset DEF Permits
  <2>3. \A b \in Askers : b \in held' <=> pc'[b] \in Asking
    BY <1>1, <1>3 DEF Permits
  <2>4. ASSUME NEW c \in held' PROVE Cardinality({b \in held' : Key(b)' = Key(c)'}) <= Slots
    <3>1. {b \in held' : Key(b)' = Key(c)'} \subseteq {b \in held : Key(b) = Key(c)}
      BY <1>1, <2>1, <2>2
    <3>2. IsFiniteSet({b \in held : Key(b) = Key(c)})
      BY FS_Subset DEF Permits
    <3>3. Cardinality({b \in held : Key(b) = Key(c)}) <= Slots
      BY <2>1 DEF Permits
    <3>4. /\ Cardinality({b \in held' : Key(b)' = Key(c)'}) <= Cardinality({b \in held : Key(b) = Key(c)})
          /\ Cardinality({b \in held' : Key(b)' = Key(c)'}) \in Nat /\ Cardinality({b \in held : Key(b) = Key(c)}) \in Nat
      BY <3>1, <3>2, FS_Subset, FS_CardinalityType
    <3> QED
      BY <3>3, <3>4, SourceAssumption
  <2> QED
    BY <2>2, <2>3, <2>4 DEF Permits
<1>4. CASE Gate(a)
  <2>1. pc[a] = "gate" /\ held' = held /\ pc'[a] \in {"permit", "done"}
    BY <1>4 DEF Gate, Go, Finish, Shape
  <2>2. a \notin held
    BY <2>1 DEF Permits, Asking
  <2> QED
    BY <1>3, <2>1, <2>2 DEF Asking
<1>5. CASE Ask(a)
  BY <1>3, <1>5 DEF Ask, Go, Asking, Shape
<1>6. CASE Send(a) \/ Redirect(a) \/ NoAnswer(a) \/ Status(a) \/ Wake(a) \/ Chunk(a) \/ BodyBreaks(a)
  BY <1>3, <1>6, SendStep, WaitStep
<1>7. CASE Body(a) \/ Failed(a) \/ Row(a) \/ NoRow(a)
  <2>1. pc[a] \in Asking /\ held' = IF pc'[a] = "done" THEN held \ {a} ELSE held
    BY <1>7, BodyStep, FailedStep, RowStep
  <2>2. pc'[a] \in Asking <=> pc'[a] # "done"
    <3>1. pc'[a] \in {"ask", "row", "failed", "done"}
      BY <1>7, BodyStep, FailedStep, RowStep
    <3> QED
      BY <3>1 DEF Asking
  <2> QED
    BY <1>3, <2>1, <2>2
<1> QED
  BY <1>2, <1>4, <1>5, <1>6, <1>7 DEF Fetch

-----------------------------------------------------------------------------
(* The theorems.                                                           *)

\* Nobody has asked yet.
LEMMA InitIInv == Init => IInv
<1> SUFFICES ASSUME Init PROVE IInv
  OBVIOUS
<1>1. \A a \in Askers : /\ WellFormed(S(a)) /\ ask[a].url \in [host : Hosts, scheme : {"https", "http"}]
                        /\ 1 \in 1..Len(S(a).legs)
  <2> SUFFICES ASSUME NEW a \in Askers
               PROVE  /\ WellFormed(S(a)) /\ ask[a].url \in [host : Hosts, scheme : {"https", "http"}]
                      /\ 1 \in 1..Len(S(a).legs)
    OBVIOUS
  <2>1. ask[a] \in [source : SourceTable, ref : STRING, profile : {"on", "off", "nokey"},
                    url : [host : Hosts, scheme : {"https", "http"}]]
    BY AskAssumption DEF Init
  <2>2. WellFormed(S(a))
    BY <2>1, TableIsWellFormed DEF S
  <2>3. \A q \in Seq([pdf : BOOLEAN, needed : BOOLEAN]) : q # <<>> => 1 \in 1..Len(q)
    OBVIOUS
  <2>4. 1 \in 1..Len(S(a).legs)
    BY <2>2, <2>3 DEF WellFormed
  <2> QED
    BY <2>1, <2>2, <2>4
<1>2. <<>> \in Seq(Words) /\ <<>> \in Seq({"Ok", "Err"}) /\ Len(<<>>) = 0
  OBVIOUS
<1>3. Shape
  <2>1. pc \in [Askers -> Places] /\ leg \in [Askers -> Nat] /\ hops \in [Askers -> Nat] /\ ask \in Asks
    BY DEF Init, Places
  <2>2. url \in [Askers -> [host : Hosts, scheme : {"https", "http"}]] /\ status \in [Askers -> Words]
    BY <1>1 DEF Init, Words
  <2>3. tries \in [Askers -> Seq(Words)] /\ rows \in [Askers -> Seq({"Ok", "Err"})]
    BY <1>2 DEF Init
  <2>4. visited = [a \in Askers |-> visited[a]] /\ \A a \in Askers : leg[a] \in 1..Len(S(a).legs)
    BY <1>1 DEF Init
  <2> QED
    BY <2>1, <2>2, <2>3, <2>4 DEF Shape
<1>4. Permits
  BY FS_EmptySet DEF Init, Permits, Asking
<1>5. \A a \in Askers : Fine(a)
  <2>1. \A a \in Askers : Addressed(a)
    BY DEF Init, Addressed
  <2>2. \A a \in Askers : Earned(a)
    BY <1>2, SourceAssumption DEF Init, Earned
  <2>3. \A a \in Askers : Logged(a)
    BY DEF Init, Logged, Done
  <2> QED
    BY <2>1, <2>2, <2>3 DEF Fine
<1> QED
  BY <1>3, <1>4, <1>5 DEF IInv

\* Every step of every asker keeps it.
LEMMA NextIInv == IInv /\ [Next]_vars => IInv'
<1> SUFFICES ASSUME IInv, [Next]_vars PROVE IInv'
  OBVIOUS
<1>1. CASE UNCHANGED vars
  <2>1. Shape' /\ Permits'
    BY <1>1 DEF IInv, vars, Shape, Permits, S, Key
  <2>2. ASSUME NEW a \in Askers PROVE Fine(a)'
    <3>1. Fine(a)
      BY DEF IInv
    <3>2. Addressed(a)' /\ Earned(a)'
      BY <1>1, <3>1 DEF Fine, vars, Addressed, MayAsk, Earned, S, Key
    <3>3. Logged(a)'
      BY <1>1, <3>1 DEF Fine, vars, Logged, RowTells, Done, S
    <3> QED
      BY <3>2, <3>3 DEF Fine
  <2> QED
    BY <2>1, <2>2 DEF IInv
<1>2. ASSUME NEW a \in Askers, Fetch(a) PROVE IInv'
  <2>1. Local(a) /\ Shape' /\ Fine(a)'
    BY <1>2, GateStep, AskStep, SendStep, WaitStep, BodyStep, FailedStep, RowStep DEF Fetch, IInv
  <2>2. \A b \in Askers : Fine(b)'
    BY <2>1, OthersFine DEF IInv
  <2>3. Permits'
    BY <1>2, PermitsStep DEF IInv
  <2> QED
    BY <2>1, <2>2, <2>3 DEF IInv
<1> QED
  BY <1>1, <1>2 DEF Next, Finished

\* IInv is an invariant of asking any sources.
LEMMA Invariance == Spec => []IInv
  BY InitIInv, NextIInv, PTL DEF Spec

\* HttpClient's redirect policy and upgrade_http_to_https: for any sources and
\* askers, any number of redirects and retries, a request leaves only over
\* https, to the URL that was asked for, to a host on the source's list or to a
\* resolver, and a publisher's URL is checked before it is asked for.
THEOREM HostsPermitted == Spec => []OnlyPermittedHosts
<1>1. IInv => OnlyPermittedHosts
  BY DEF IInv, Fine, Addressed, MayAsk, OnlyPermittedHosts
<1> QED
  BY <1>1, Invariance, PTL

\* The permit guard of every fetch function: for any number of askers, each
\* request, pause and second leg holds a permit of its source, no more of them
\* are out than there are slots, and a return gives the permit back on every path.
THEOREM AskedUnderPermit == Spec => []RequestUnderPermit
<1>1. IInv => RequestUnderPermit
  BY DEF IInv, Permits, RequestUnderPermit, Asking, Done
<1> QED
  BY <1>1, Invariance, PTL

\* fetch_inner's retry loop: for any retry budget, only what may be transient is
\* tried again, and such a failure is returned only when the budget is spent.
THEOREM OnlyEarnedRetries == Spec => []RetriesAreEarned
<1>1. IInv => RetriesAreEarned
  BY DEF IInv, Fine, Earned, RetriesAreEarned, Done
<1> QED
  BY <1>1, Invariance, PTL

\* Source::fetch's row, for every function of the table: what is returned is what
\* the one row says, or the row's own failure.
THEOREM OneRowPerAnswer == Spec => []RowTellsOutcome
<1>1. IInv => RowTellsOutcome
  BY DEF IInv, Fine, Logged, RowTellsOutcome
<1> QED
  BY <1>1, Invariance, PTL
=============================================================================
