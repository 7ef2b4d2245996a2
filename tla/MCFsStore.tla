----------------------------- MODULE MCFsStore -----------------------------
(* Instances of FsStore for TLC.                                           *)
EXTENDS FsStore, TLC

CONSTANTS c1, c2

Entry(title, repaired, venue, short, license, oa) ==
  [schema |-> "ours", title |-> title, venue |-> venue, pdf_path |-> "none",
   doiget |-> [license |-> license, oa_status |-> oa, short_venue |-> short,
               repaired |-> repaired, origin |-> "fetched", size_bytes |-> 0,
               tags |-> {}]]

\* Every record a fetch can bring: repaired or not, with a venue and its own
\* abbreviation or without, license and OA status determined or not.
AllFetched ==
  {Entry(t[1], t[2], v, s, l, oa) :
     t \in {<<"lossy", "no">>, <<"good", "no">>, <<"good", "yes">>},
     v \in Venues, s \in Shorts, l \in {"unknown", "cc-by"}, oa \in {"none", "gold"}}

FetchedRich == {m \in AllFetched : m.doiget.short_venue \in {"none", ShortOf[m.venue]}}

\* Records that tell repairs apart, and the license of a work.
FetchedRepaired == {Entry(t[1], t[2], "v1", "none", l, "none") :
  t \in {<<"lossy", "no">>, <<"good", "no">>, <<"good", "yes">>}, l \in {"unknown", "cc-by"}}

\* One record knows the license of the work, another its open-access status.
FetchedPlain == {Entry("good", "no", "v1", "none", "cc-by", "none"), Entry("good", "no", "v1", "none", "unknown", "gold")}

NoForeign == {}
\* An entry of the other tool: its own title and venue, no [doiget] table.
OtherTool == {[schema |-> "ours", title |-> "other", venue |-> "v2",
               pdf_path |-> "none", doiget |-> NoTable]}

\* One of another tool that knows the work by the title it has.
SameTitle == {[schema |-> "ours", title |-> "good", venue |-> "v2",
               pdf_path |-> "none", doiget |-> NoTable]}

ClientSymmetry == Permutations({c1, c2})
=============================================================================
