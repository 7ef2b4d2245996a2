----------------------------- MODULE MCSources -----------------------------
(* Two fetches: every source alone beside one that is not eligible, and a  *)
(* few of them at once on one permit.                                      *)
EXTENDS Sources, TLC

CONSTANTS a1, a2

A(source, ref, profile, u) == [source |-> source, ref |-> ref, profile |-> profile, url |-> u]
Own == Url("own", "https")
Ready(s) == A(s, CHOOSE r \in s.serves : TRUE, "on", Own)
Idle == A(openalex, "doi", "off", Own)

Alone ==
  {Ready(s) : s \in SourceTable}
    \cup {A(tdm_aps, "doi", "nokey", Own), A(tdm_aps_content, "doi", "off", Own),
          A(arxiv, "doi", "on", Own), A(unpaywall, "doi", "on", Url("own", "http"))}
    \cup {A(try_fetch_oa_pdf, "doi", "on", Url(h, s)) :
            h \in {"listed", "doi.org", "foreign", "none"}, s \in {"https", "http"}}

MCAskers == {a1, a2}
MCAsks ==
  {(a1 :> x) @@ (a2 :> Idle) : x \in Alone}
    \cup {(a1 :> Ready(arxiv)) @@ (a2 :> Ready(fetch_metadata_only))}
============
