------------------------------ MODULE Sources ------------------------------
(***************************************************************************)
(* Asking a source: the skeleton of every fetch function of SourceTable    *)
(* and HttpClient::fetch_inner under it, which sends a GET, follows        *)
(* redirects under the source's allowlist, retries what may be transient   *)
(* and reads the body up to a cap.                                         *)
(*                                                                         *)
(* The permit is RateLimiter's, here as a number of slots per source.  It  *)
(* is a guard of the function: every return drops it, and every retry of   *)
(* fetch_inner happens under it.                                           *)
(***************************************************************************)
EXTENDS SourceTable, Integers, FiniteSets

CONSTANTS
  Askers,          \* concurrent fetches
  Asks,            \* what they may ask together: asker -> ask
  Slots,           \* permits of a source
  MAX_FETCH_RETRIES, MAX_REDIRECTS,
  PDF_MAX_BYTES,   \* in chunks of the smallest size
  MaxTrouble       \* bound: redirects, failed attempts and lost rows together

\* An ask: [source, ref, profile, url].  profile is what the profile has for
\* the source ("on", "off", or "nokey": a grant whose key is empty), url where
\* the first GET goes: [host, scheme].
Hosts == {"own", "listed", "doi.org", "foreign", "none"}
Target == [host : Hosts \ {"listed"}, scheme : {"https"}] \cup {[host |-> "own", scheme |-> "http"]}
Url(host, scheme) == [host |-> host, scheme |-> scheme]

ASSUME SourceAssumption ==
  /\ Slots \in Nat \ {0} /\ MAX_FETCH_RETRIES \in Nat /\ MAX_REDIRECTS \in Nat
  /\ PDF_MAX_BYTES \in Nat /\ MaxTrouble \in Nat
ASSUME AskAssumption ==
  Asks \subseteq [Askers -> [source : SourceTable, ref : STRING, profile : {"on", "off", "nokey"},
                            url : [host : Hosts, scheme : {"https", "http"}]]]

VARIABLES
  ask,      \* asker -> its ask
  pc,       \* asker -> where it is
  leg,      \* asker -> the GET it is at
  url,      \* asker -> where the request is now
  hops,     \* asker -> redirects followed
  tries,    \* asker -> how the attempts of this leg went, the last one last
  buf,      \* asker -> bytes buffered
  status,   \* asker -> the error it is about to return, or "none"
  held,     \* the askers that hold a permit of their source
  rows,     \* asker -> the rows it appended
  visited,  \* asker -> the URLs that were sent a request
  trouble   \* redirects, failed attempts and lost rows so far

vars == <<ask, pc, leg, url, hops, tries, buf, status, held, rows, visited, trouble>>

S(a) == ask[a].source
Key(a) == S(a).key
CurrentLeg(a) == S(a).legs[leg[a]]

\* SourceAllowlist::permits: the source's own hosts, and the resolvers that
\* only forward.
host_matches(host) == host \in {"own", "listed"}
is_transparent_resolver(host) == host = "doi.org"
permits(host) == is_transparent_resolver(host) \/ host_matches(host)

\* upgrade_http_to_https: not for loopback, which the client then rejects.
upgrade_http_to_https(u) ==
  IF u.scheme = "http" /\ u.host # "none" THEN [u EXCEPT !.scheme = "https"] ELSE u

is_transient(how) == how \in {"timeout", "connect", "body", "408", "429", "503"}

\* From<&FetchError> for ErrorCode.  A hop that the redirect policy refuses
\* reaches it wrapped, as HttpError::Network.
ErrorCode(e) ==
  CASE e \in {"404", "410", "451", "NotFound"}            -> "NOT_FOUND"
    [] e \in {"401", "403", "NotEligible", "RedirectDenied"} -> "CAPABILITY_DENIED"
    [] e \in {"OversizedBody", "NotAPdf", "NotRetrievable"} -> "NO_OA_AVAILABLE"
    [] e = "SourceSchema"                                 -> "INTERNAL_ERROR"
    [] e \in {"TextUnavailable", "SourceUnavailable"}     -> "TEXT_UNAVAILABLE"
    [] e = "Log"                                          -> "LOG_ERROR"
    [] e = "none"                                         -> "none"
    [] OTHER                                              -> "NETWORK_ERROR"

Init ==
  /\ ask \in Asks
  /\ pc = [a \in Askers |-> "gate"] /\ leg = [a \in Askers |-> 1]
  /\ url = [a \in Askers |-> ask[a].url] /\ hops = [a \in Askers |-> 0]
  /\ tries = [a \in Askers |-> <<>>] /\ buf = [a \in Askers |-> 0]
  /\ status = [a \in Askers |-> "none"] /\ held = {}
  /\ rows = [a \in Askers |-> <<>>] /\ visited = [a \in Askers |-> {}]
  /\ trouble = 0

-----------------------------------------------------------------------------
(* The gate and the permit.                                                *)

Go(a, where) == pc' = [pc EXCEPT ![a] = where]
Finish(a, error) == Go(a, "done") /\ status' = [status EXCEPT ![a] = error]
Trouble == trouble < MaxTrouble /\ trouble' = trouble + 1
request == <<leg, url, hops, tries, buf>>

Granted(a) == CASE S(a).gate = "open" -> TRUE
                [] S(a).gate # "open" -> ask[a].profile = "on"

\* The early returns before anything is waited for: no row, no request.  Only
\* fetch_content calls this an answer, Ok(None).
Gate(a) ==
  /\ pc[a] = "gate"
  /\ IF ask[a].ref \in S(a).serves /\ Granted(a)
     THEN Go(a, "permit") /\ UNCHANGED status
     ELSE Finish(a, IF S(a).gate = "grant_or_none" THEN "none" ELSE "NotEligible")
  /\ UNCHANGED <<ask, request, held, rows, visited, trouble>>

\* Mutant: "let _ = acquire(..)", which drops the permit at once.
AcquireDropped(a) ==
  /\ pc[a] = "permit"
  /\ Cardinality({b \in held : Key(b) = Key(a)}) < Slots
  /\ Go(a, "ask")
  /\ UNCHANGED <<ask, request, status, held, rows, visited, trouble>>

Acquire(a) ==
  /\ pc[a] = "permit"
  /\ Cardinality({b \in held : Key(b) = Key(a)}) < Slots
  /\ held' = held \cup {a} /\ Go(a, "ask")
  /\ UNCHANGED <<ask, request, status, rows, visited, trouble>>

\* The start of fetch_inner.  try_fetch_oa_pdf, which is given URLs of others,
\* first looks its host up; the legs after the first go to the source itself.
Ask(a) ==
  /\ pc[a] = "ask"
  /\ LET u == upgrade_http_to_https(IF leg[a] = 1 THEN ask[a].url ELSE Url("own", "https")) IN
     IF Key(a) = "oa-publisher" /\ ~permits(u.host)
     THEN /\ Go(a, "failed") /\ status' = [status EXCEPT ![a] = "RedirectDenied"]
          /\ UNCHANGED url
     ELSE Go(a, "send") /\ url' = [url EXCEPT ![a] = u] /\ UNCHANGED status
  /\ hops' = [hops EXCEPT ![a] = 0] /\ tries' = [tries EXCEPT ![a] = <<>>]
  /\ UNCHANGED <<ask, leg, buf, held, rows, visited, trouble>>

-----------------------------------------------------------------------------
(* fetch_inner.                                                            *)

\* Mutant: everything that is not a success is retried.
AttemptAnyhow(a, how) ==
  /\ Trouble
  /\ tries' = [tries EXCEPT ![a] = Append(@, how)]
  /\ IF Len(tries[a]) < MAX_FETCH_RETRIES
     THEN Go(a, "sleep") /\ UNCHANGED status
     ELSE Go(a, "failed") /\ status' = [status EXCEPT ![a] = how]

\* An attempt that went wrong: sleep and try again, or give up.
Attempt(a, how) ==
  /\ Trouble
  /\ tries' = [tries EXCEPT ![a] = Append(@, how)]
  /\ IF is_transient(how) /\ Len(tries[a]) < MAX_FETCH_RETRIES
     THEN Go(a, "sleep") /\ UNCHANGED status
     ELSE Go(a, "failed") /\ status' = [status EXCEPT ![a] = how]

Send(a) ==
  /\ pc[a] = "send"
  /\ \/ url[a].scheme = "https" /\ Go(a, "wait") /\ UNCHANGED <<tries, status, trouble>>
        /\ visited' = [visited EXCEPT ![a] = @ \cup {url[a]}]
     \/ url[a].scheme # "https" /\ Attempt(a, "builder") /\ UNCHANGED visited
  /\ UNCHANGED <<ask, leg, url, hops, buf, held, rows>>

NoAnswer(a) ==
  /\ pc[a] = "wait"
  /\ \E how \in {"timeout", "connect", "tls"} : Attempt(a, how)
  /\ UNCHANGED <<ask, leg, url, hops, buf, held, rows, visited>>

\* reqwest's Attempt::previous, which has the URL that was asked for in it.
previous(a) == hops[a] + 1

\* Mutant: once a resolver has been followed the allowlist is not looked at.
RedirectTrusting(a) ==
  /\ pc[a] = "wait"
  /\ \E u \in Target :
       CASE u.scheme # "https" -> Attempt(a, "insecure_hop") /\ UNCHANGED <<url, hops, visited>>
         [] u.scheme = "https" /\ previous(a) >= MAX_REDIRECTS
              -> Attempt(a, "302") /\ UNCHANGED <<url, hops, visited>>
         [] u.scheme = "https" /\ previous(a) < MAX_REDIRECTS
                /\ ~(permits(u.host) \/ is_transparent_resolver(url[a].host))
              -> Attempt(a, "refused_hop") /\ UNCHANGED <<url, hops, visited>>
         [] OTHER -> /\ url' = [url EXCEPT ![a] = u] /\ hops' = [hops EXCEPT ![a] = @ + 1]
                     /\ visited' = [visited EXCEPT ![a] = @ \cup {u}]
                     /\ Trouble /\ UNCHANGED <<pc, tries, status>>
  /\ UNCHANGED <<ask, leg, buf, held, rows>>

\* The redirect policy of build_client, asked of every hop.  Too many hops make
\* the last redirect the response.
Redirect(a) ==
  /\ pc[a] = "wait"
  /\ \E u \in Target :
       CASE u.scheme # "https" -> Attempt(a, "insecure_hop") /\ UNCHANGED <<url, hops, visited>>
         [] u.scheme = "https" /\ previous(a) >= MAX_REDIRECTS
              -> Attempt(a, "302") /\ UNCHANGED <<url, hops, visited>>
         [] u.scheme = "https" /\ previous(a) < MAX_REDIRECTS /\ ~permits(u.host)
              -> Attempt(a, "refused_hop") /\ UNCHANGED <<url, hops, visited>>
         [] OTHER -> /\ url' = [url EXCEPT ![a] = u] /\ hops' = [hops EXCEPT ![a] = @ + 1]
                     /\ visited' = [visited EXCEPT ![a] = @ \cup {u}]
                     /\ Trouble /\ UNCHANGED <<pc, tries, status>>
  /\ UNCHANGED <<ask, leg, buf, held, rows>>

\* The status line; Content-Length, when there is one, is checked before the
\* body is read.
Status(a) ==
  /\ pc[a] = "wait"
  /\ \/ \E how \in {"403", "404", "429", "503", "OversizedBody"} : Attempt(a, how) /\ UNCHANGED buf
     \/ buf' = [buf EXCEPT ![a] = 0] /\ Go(a, "body") /\ UNCHANGED <<tries, status, trouble>>
  /\ UNCHANGED <<ask, leg, url, hops, held, rows, visited>>

\* The next attempt is one from the start, at the URL that was asked for.
Wake(a) ==
  /\ pc[a] = "sleep" /\ Go(a, "send")
  /\ url' = [url EXCEPT ![a] = upgrade_http_to_https(IF leg[a] = 1 THEN ask[a].url
                                                      ELSE Url("own", "https"))]
  /\ hops' = [hops EXCEPT ![a] = 0]
  /\ UNCHANGED <<ask, leg, tries, buf, status, held, rows, visited, trouble>>

\* A chunk is added only if the cap still holds with it.
Chunk(a) ==
  /\ pc[a] = "body"
  /\ \E n \in 1..(PDF_MAX_BYTES + 1) :
       IF buf[a] + n > PDF_MAX_BYTES
       THEN Attempt(a, "OversizedBody") /\ UNCHANGED buf
       ELSE buf' = [buf EXCEPT ![a] = @ + n] /\ UNCHANGED <<pc, tries, status, trouble>>
  /\ UNCHANGED <<ask, leg, url, hops, held, rows, visited>>

BodyBreaks(a) ==
  /\ pc[a] = "body" /\ Attempt(a, "body")
  /\ UNCHANGED <<ask, leg, url, hops, buf, held, rows, visited>>

-----------------------------------------------------------------------------
(* What the function makes of it.                                          *)

\* The leg is done: on to the next one, or to the row.
NextLeg(a) ==
  IF leg[a] < Len(S(a).legs)
  THEN Go(a, "ask") /\ leg' = [leg EXCEPT ![a] = @ + 1]
  ELSE Go(a, "row") /\ UNCHANGED leg

\* A body the source does not accept.  A PDF is known by its magic bytes.
Body(a) ==
  /\ pc[a] = "body"
  /\ \/ NextLeg(a) /\ status' = [status EXCEPT ![a] = "none"]
     \/ /\ CurrentLeg(a).pdf /\ Go(a, "failed")
        /\ status' = [status EXCEPT ![a] = "NotAPdf"] /\ UNCHANGED leg
     \/ /\ ~CurrentLeg(a).pdf /\ CurrentLeg(a).needed
        /\ \E b \in DOMAIN S(a).bad : Finish(a, S(a).bad[b])
        /\ UNCHANGED leg
  /\ tries' = [tries EXCEPT ![a] = Append(@, "read")]
  /\ held' = IF pc'[a] = "done" THEN held \ {a} ELSE held
  /\ UNCHANGED <<ask, url, hops, buf, rows, visited, trouble>>

\* An HTTP error: of a leg that can be done without, of a function that logs
\* it, or of one that only passes it on.
Failed(a) ==
  /\ pc[a] = "failed"
  /\ CASE ~CurrentLeg(a).needed -> /\ NextLeg(a) /\ status' = [status EXCEPT ![a] = "none"]
                                   /\ UNCHANGED held
       [] CurrentLeg(a).needed /\ S(a).rows \in {"always", "best_effort"}
                                -> Go(a, "row") /\ UNCHANGED <<leg, status, held>>
       [] OTHER                 -> Go(a, "done") /\ held' = held \ {a} /\ UNCHANGED <<leg, status>>
  /\ UNCHANGED <<ask, url, hops, tries, buf, rows, visited, trouble>>

\* Mutant: a row that cannot be appended is ignored by every source.
RowBestEffort(a) ==
  /\ pc[a] = "row" /\ S(a).rows # "never"
  /\ \/ /\ rows' = [rows EXCEPT ![a] = Append(@, IF status[a] = "none" THEN "Ok" ELSE "Err")]
        /\ status' = [status EXCEPT ![a] = IF @ = "404" /\ S(a).none404 THEN "none" ELSE @]
        /\ UNCHANGED trouble
     \/ /\ Trouble
        /\ UNCHANGED <<rows, status>>
  /\ Go(a, "done") /\ held' = held \ {a}
  /\ UNCHANGED <<ask, request, visited>>

\* The row.  One that cannot be appended is the error of the whole fetch, but
\* for try_fetch_oa_pdf.
Row(a) ==
  /\ pc[a] = "row" /\ S(a).rows # "never"
  /\ \/ /\ rows' = [rows EXCEPT ![a] = Append(@, IF status[a] = "none" THEN "Ok" ELSE "Err")]
        /\ status' = [status EXCEPT ![a] = IF @ = "404" /\ S(a).none404 THEN "none" ELSE @]
        /\ UNCHANGED trouble
     \/ /\ Trouble
        /\ status' = [status EXCEPT ![a] = IF S(a).rows = "best_effort" THEN @ ELSE "Log"]
        /\ UNCHANGED rows
  /\ Go(a, "done") /\ held' = held \ {a}
  /\ UNCHANGED <<ask, request, visited>>

NoRow(a) ==
  /\ pc[a] = "row" /\ S(a).rows = "never"
  /\ Go(a, "done") /\ held' = held \ {a}
  /\ UNCHANGED <<ask, request, status, rows, visited, trouble>>

Fetch(a) ==
  \/ Gate(a) \/ Acquire(a) \/ Ask(a) \/ Send(a) \/ NoAnswer(a) \/ Redirect(a)
  \/ Status(a) \/ Wake(a) \/ Chunk(a) \/ BodyBreaks(a) \/ Body(a) \/ Failed(a)
  \/ Row(a) \/ NoRow(a)

Done(a) == pc[a] = "done"
Finished == (\A a \in Askers : Done(a)) /\ UNCHANGED vars
Next == Finished \/ \E a \in Askers : Fetch(a)

\* A request is answered or times out, and the runtime polls every fetch.  A
\* body that is still arriving is one that grows.
Fairness == \A a \in Askers : WF_vars(Fetch(a))
Spec == Init /\ [][Next]_vars /\ Fairness

-----------------------------------------------------------------------------
(* Properties.                                                             *)

\* docs/REDIRECT_ALLOWLIST.md: however long the chain of redirects, over
\* however many retries, a request goes only to the URL that was asked for, a
\* host on the source's list or a resolver that forwards, and always over
\* https; a publisher's URL that a record named is on the list itself.
OnlyPermittedHosts ==
  \A a \in Askers : \A u \in visited[a] :
    /\ u.scheme = "https"
    /\ \/ permits(u.host)
       \/ u.host = ask[a].url.host /\ Key(a) # "oa-publisher"

\* Source::fetch: "acquire a permit", then ask.  Every request, every retry of
\* it and every second leg runs under the permit of its source, of which there
\* are only so many; when nobody asks, none is left over.
RequestUnderPermit ==
  /\ \A a \in Askers : pc[a] \in {"send", "wait", "sleep", "body"} => a \in held
  /\ \A a \in Askers : Done(a) => a \notin held
  /\ \A a \in held : Cardinality({b \in held : Key(b) = Key(a)}) <= Slots

\* Only what may be transient is tried again, and it is the outcome only once
\* the retries are used up: a refusal, a missing record or a body that is too
\* large is asked for once.
RetriesAreEarned ==
  \A a \in Askers : LET n == Len(tries[a]) IN
    /\ n <= MAX_FETCH_RETRIES + 1
    /\ \A k \in 1..(n - 1) : is_transient(tries[a][k])
    /\ Done(a) /\ status[a] # "none" /\ is_transient(status[a]) => n = MAX_FETCH_RETRIES + 1

RowTells(a) ==
  CASE S(a).rows = "never"       -> rows[a] = <<>>
    [] S(a).rows = "success"     -> rows[a] = IF status[a] = "none" THEN <<"Ok">> ELSE <<>>
    [] S(a).rows = "best_effort" -> rows[a] \in {<<>>, IF status[a] = "none" THEN <<"Ok">> ELSE <<"Err">>}
    [] S(a).rows = "always"      ->
         CASE status[a] = "none"  -> rows[a] \in {<<"Ok">>} \cup (IF S(a).none404 THEN {<<"Err">>} ELSE {})
           [] status[a] \in {"Log", "SourceSchema"} -> rows[a] = <<>>
           [] OTHER -> rows[a] = <<"Err">>

\* Source::fetch: "append exactly one row".  What a fetch returns is what its
\* rows say: one Ok row for an answer, none for an error, and an error of its
\* own for a row that could not be appended.
RowTellsOutcome == \A a \in Askers : Done(a) /\ visited[a] # {} => RowTells(a)

\* A fetch ends, whatever the network does.
AllEnd == \A a \in Askers : <>Done(a)

\* From<&FetchError>: an allowlist refusal and a downgrade are "policy
\* decisions" with CAPABILITY_DENIED, never a NETWORK_ERROR that tells an agent
\* "to back off and retry".
PolicyIsDenied ==
  \A a \in Askers : Done(a) /\ status[a] \in {"refused_hop", "insecure_hop", "RedirectDenied"}
    => ErrorCode(status[a]) = "CAPABILITY_DENIED"
=============================================================================
