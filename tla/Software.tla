------------------------------ MODULE Software ------------------------------
(***************************************************************************)
(* Software by its GitHub URL (software.rs): resolve_github, behind cite,  *)
(* puts a citation together from three or four requests; github_resolves,  *)
(* behind verify, asks whether the URL still leads anywhere.  The owner of *)
(* the repository may publish a release, delete a tag or take the          *)
(* repository down between any two of the requests.                        *)
(***************************************************************************)
EXTENDS Integers, FiniteSets

CONSTANTS
  Tags,           \* the tags a repository may have
  ValidTags,      \* those valid_tag takes
  CffKinds,       \* what a CITATION.cff may hold: of {"none", "authors", "plain"}
  MaxMoves        \* what the owner does

NoTag == "none"
HEAD == "HEAD"

ASSUME SoftwareAssumption == ValidTags \subseteq Tags /\ NoTag \notin Tags /\ HEAD \notin Tags /\ MaxMoves \in Nat

VARIABLES
  hub,      \* the repository: whether it is there, its tags, its releases, its CITATION.cff
  moves,
  job,      \* the call: what for, the tag of its URL, where it is
  cited     \* what the citation is made of: the version each part was taken from

softwareVars == <<hub, moves, job, cited>>

NoCitation == [url |-> NoTag, date |-> NoTag, version |-> NoTag, cff |-> NoTag, from_cff |-> FALSE, noted |-> {}]
NoJob == [what |-> "none", tag |-> NoTag, at |-> "idle", moved |-> FALSE]

\* The latest release is the one published last; tags are published in order.
SoftwareInit ==
  /\ hub = [repo |-> TRUE, tags |-> {}, released |-> {}, latest |-> NoTag, cff |-> [t \in Tags \cup {HEAD} |-> "none"]]
  /\ moves = 0 /\ job = NoJob /\ cited = NoCitation

\* The owner's doings.
Moves(new) == moves < MaxMoves /\ moves' = moves + 1 /\ hub' = new /\ job' = [job EXCEPT !.moved = TRUE] /\ UNCHANGED cited

Tag(t, cff) ==
  /\ hub.repo /\ t \notin hub.tags
  /\ Moves([hub EXCEPT !.tags = @ \cup {t}, !.cff[t] = cff, !.cff[HEAD] = cff])
PublishRelease(t) ==
  /\ hub.repo /\ t \in hub.tags \ hub.released
  /\ Moves([hub EXCEPT !.released = @ \cup {t}, !.latest = t])
DeleteTag(t) ==
  /\ hub.repo /\ t \in hub.tags
  /\ LET left == hub.released \ {t} IN
     \E l \in (IF left = {} THEN {NoTag} ELSE left) :
       Moves([hub EXCEPT !.tags = @ \ {t}, !.released = left, !.latest = IF @ = t THEN l ELSE @])
TakeDown == hub.repo /\ Moves([hub EXCEPT !.repo = FALSE])

\* GithubRef::parse: a URL with no tag, or with one valid_tag takes.
Start(what, tag) ==
  /\ job.at = "idle" /\ job' = [what |-> what, tag |-> tag, at |-> "repo", moved |-> FALSE]
  /\ cited' = NoCitation /\ UNCHANGED <<hub, moves>>

Goto(at) == job' = [job EXCEPT !.at = at]
NotFound == Goto(IF job.what = "verify" THEN "gone" ELSE "NOT_FOUND")

\* get: a 404 is an answer; any other failure, an answer that is not JSON and a row
\* that cannot be written end the call.
GetFails == job.at \in {"repo", "release", "commit", "cff"} /\ Goto("error") /\ UNCHANGED <<hub, moves, cited>>

GetRepo ==
  /\ job.at = "repo"
  /\ IF ~hub.repo THEN NotFound
     ELSE IF job.what = "verify" /\ job.tag = NoTag THEN Goto("there")
     ELSE Goto("release")
  /\ UNCHANGED <<hub, moves, cited>>

\* The release of the URL's tag, or else the latest, which gives a tag only if there
\* is one and valid_tag takes its name.
GetRelease ==
  /\ job.at = "release"
  /\ LET release == IF job.tag = NoTag THEN hub.latest ELSE job.tag
         found == hub.repo /\ release \in hub.released
         tag == IF job.tag # NoTag \/ (found /\ release \in ValidTags) THEN release ELSE NoTag
     IN IF job.what = "verify"
        THEN Goto(IF found THEN "there" ELSE "commit") /\ cited' = cited
        ELSE /\ cited' = [cited EXCEPT
                  !.url = IF found THEN release ELSE tag, !.date = IF found THEN release ELSE NoTag, !.version = tag,
                  !.noted = IF job.tag = NoTag /\ tag # NoTag THEN {"latest"} ELSE {}]
             /\ Goto(IF ~found /\ tag # NoTag THEN "commit" ELSE "cff")
  /\ UNCHANGED <<hub, moves>>

\* A tag without a release has its commit's date.
GetCommit ==
  /\ job.at = "commit"
  /\ IF ~hub.repo \/ job.tag \notin hub.tags THEN NotFound /\ cited' = cited
     ELSE IF job.what = "verify" THEN Goto("there") /\ cited' = cited
     ELSE cited' = [cited EXCEPT !.date = job.tag, !.noted = @ \cup {"commit"}] /\ Goto("cff")
  /\ UNCHANGED <<hub, moves>>

\* Mutant: CITATION.cff is the one the repository has now.
GetCffHead ==
  /\ job.at = "cff"
  /\ LET kind == IF hub.repo THEN hub.cff[HEAD] ELSE "none"
     IN cited' = [cited EXCEPT !.cff = IF kind = "none" THEN NoTag ELSE HEAD, !.from_cff = kind = "authors",
                    !.version = IF @ # NoTag THEN @ ELSE IF kind = "none" THEN NoTag ELSE HEAD,
                    !.date = IF @ # NoTag THEN @ ELSE IF kind = "none" THEN NoTag ELSE HEAD,
                    !.noted = IF kind = "authors" THEN @ ELSE @ \cup {"owner"}]
  /\ Goto("cited") /\ UNCHANGED <<hub, moves>>

\* CITATION.cff at the tag, or at HEAD; without one that has authors, the owner is
\* the author, and the citation says so.
GetCff ==
  /\ job.at = "cff"
  /\ LET ref == IF cited.version = NoTag THEN HEAD ELSE cited.version
         there == hub.repo /\ (ref = HEAD \/ ref \in hub.tags)
         kind == IF there THEN hub.cff[ref] ELSE "none"
     IN cited' = [cited EXCEPT !.cff = IF kind = "none" THEN NoTag ELSE ref, !.from_cff = kind = "authors",
                    !.version = IF @ # NoTag THEN @ ELSE IF kind = "none" THEN NoTag ELSE HEAD,
                    !.date = IF @ # NoTag THEN @ ELSE IF kind = "none" THEN NoTag ELSE HEAD,
                    !.noted = IF kind = "authors" THEN @ ELSE @ \cup {"owner"}]
  /\ Goto("cited") /\ UNCHANGED <<hub, moves>>

Over == {"cited", "there", "gone", "NOT_FOUND", "error"}
Again == job.at \in Over /\ job' = NoJob /\ cited' = NoCitation /\ UNCHANGED <<hub, moves>>

SoftwareNext ==
  \/ \E t \in Tags : (\E k \in CffKinds : Tag(t, k)) \/ PublishRelease(t) \/ DeleteTag(t)
  \/ TakeDown
  \/ \E what \in {"cite", "verify"}, tag \in ValidTags \cup {NoTag} : Start(what, tag)
  \/ GetFails \/ GetRepo \/ GetRelease \/ GetCommit \/ GetCff \/ Again

SoftwareSpec == SoftwareInit /\ [][SoftwareNext]_softwareVars

-----------------------------------------------------------------------------
(* Properties.                                                             *)

\* A citation describes one version, whatever was published or deleted while it
\* was put together: its URL, its date, its version and the CITATION.cff it quotes
\* are all of one tag, or none of a tag at all; and a tag the URL did not name is
\* pointed out.
OneVersion ==
  job.at = "cited" =>
    /\ \E t \in Tags \cup {HEAD} : {cited.url, cited.date, cited.version, cited.cff} \subseteq {t, NoTag}
    /\ job.tag # NoTag => cited.version = job.tag
    /\ job.tag = NoTag /\ cited.version \in Tags => "latest" \in cited.noted
    /\ ~cited.from_cff => "owner" \in cited.noted

\* verify and cite agree about a URL as long as the repository stays as it is: one
\* says it leads nowhere only if there is no such repository or tag, and then so
\* does the other.
ResolvesIfThere ==
  ~job.moved =>
    LET there == hub.repo /\ (job.tag = NoTag \/ job.tag \in hub.tags) IN
    /\ job.at \in {"gone", "NOT_FOUND"} => ~there
    /\ job.at \in {"there", "cited"} => there
=============================================================================
