--------------------------- MODULE MCRateLimiter ---------------------------
(* Instances of RateLimiter for TLC: "arxiv" is capped at one connection   *)
(* and has a backoff longer than the window, "crossref" has the defaults.  *)
EXTENDS RateLimiter, TLC

CONSTANTS a1, a2, c1, c2

MCSources == {"arxiv", "crossref"}
MCBackoff == [arxiv |-> 3, crossref |-> 1]
MCCap == [arxiv |-> 1, crossref |-> MaxConcurrent]

Get(s) == [source |-> s, paced |-> "no"]
GetTwice(s) == [source |-> s, paced |-> "yes"]

\* Two arXiv fetches and a fetch that asks Crossref twice and then arXiv.
MixedPlan == (a1 :> <<GetTwice("arxiv")>>) @@ (a2 :> <<GetTwice("arxiv")>>)
             @@ (c1 :> <<Get("crossref"), Get("crossref"), Get("arxiv")>>)

\* Fetches of one source without a cap.
CrossrefPlan == (c1 :> <<Get("crossref"), Get("crossref")>>)
                @@ (c2 :> <<Get("crossref")>>) @@ (a1 :> <<Get("crossref")>>)
=============================================================================
