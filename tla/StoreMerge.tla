----------------------------- MODULE StoreMerge -----------------------------
(***************************************************************************)
(* The merge rule of the store (merge_metadata in store/fs_store.rs): what *)
(* becomes of an entry when a writer rewrites it with metadata of its own. *)
(*                                                                         *)
(* An entry is the reserved top-level fields (title and venue stand for    *)
(* all of them, pdf_path is told apart) and the [doiget] table, which an   *)
(* entry of another tool lacks.  size_bytes is the identity of the PDF the *)
(* table describes, 0 for none; source and fetched_at go with it.          *)
(* collections and annotation follow tags.                                 *)
(***************************************************************************)
EXTENDS Integers

CONSTANTS
  Tags,      \* user tags
  NoTable    \* an entry without a [doiget] table

\* Values of the reserved fields.  "lossy" is "good" with characters lost to
\* U+FFFD or with markup; the short form of venue "v1" is "s1", and so on.
Titles == {"none", "lossy", "good", "other"}
Venues == {"none", "v1", "v2"}
Shorts == {"none", "s1", "s2"}
ShortOf == [none |-> "none", v1 |-> "s1", v2 |-> "s2"]

DoigetExtension ==
  [license : {"unknown", "cc-by"}, oa_status : {"none", "gold"},
   short_venue : Shorts, repaired : {"no", "yes"},
   origin : {"fetched", "user-supplied"}, size_bytes : Nat,
   tags : SUBSET Tags]

Metadata ==
  [schema : {"ours", "newer"}, title : Titles, venue : Venues,
   pdf_path : {"none", "set"}, doiget : DoigetExtension \cup {NoTable}]

\* The incoming value is the stored one with its markup reduced or its lost
\* characters restored.
is_cleaned_form(existing, incoming) == existing = "lossy" /\ incoming = "good"

\* Bug: the incoming value of a reserved field wins.
KeepReservedIncoming(existing, incoming) ==
  IF incoming # "none" THEN incoming ELSE existing

\* A reserved field: what is on disk stays, unless it is empty or uncleaned.
KeepReserved(existing, incoming) ==
  IF existing # "none" /\ ~is_cleaned_form(existing, incoming)
  THEN existing ELSE incoming

\* The PDF was added by hand and the writer brings none of its own.
UserPdfStays(ed, id) == ed.origin = "user-supplied" /\ id.size_bytes = 0

\* The license: an undetermined one does not replace a known one.
MergeLicense(ed, id) ==
  IF UserPdfStays(ed, id) \/ id.license = "unknown" THEN ed.license ELSE id.license

\* Tags: only a writer that authored them replaces them.
MergeTags(ed, id, user_fields) ==
  IF user_fields = "Preserve" THEN ed.tags ELSE id.tags

\* The short venue goes with the venue that stays.
MergeShort(ed, id, venueKept) ==
  IF id.short_venue = "none" \/ venueKept THEN ed.short_venue ELSE id.short_venue

MergeDoiget(ed, id, venueKept, user_fields) ==
  [license     |-> MergeLicense(ed, id),
   oa_status   |-> IF id.oa_status = "none" THEN ed.oa_status ELSE id.oa_status,
   short_venue |-> MergeShort(ed, id, venueKept),
   repaired    |-> IF id.repaired = "no" THEN ed.repaired ELSE id.repaired,
   origin      |-> IF UserPdfStays(ed, id) THEN ed.origin ELSE id.origin,
   size_bytes  |-> IF UserPdfStays(ed, id) THEN ed.size_bytes ELSE id.size_bytes,
   tags        |-> MergeTags(ed, id, user_fields)]

\* Both entries have the same or an older schema (a newer one is refused
\* before the merge), so the stored version is the incoming one.
merge_metadata(existing, incoming, user_fields) ==
  LET venue == KeepReserved(existing.venue, incoming.venue) IN
  [schema   |-> incoming.schema,
   title    |-> KeepReserved(existing.title, incoming.title),
   venue    |-> venue,
   pdf_path |-> IF existing.pdf_path = "set" THEN "set" ELSE incoming.pdf_path,
   doiget   |-> IF existing.doiget = NoTable THEN incoming.doiget
                ELSE IF incoming.doiget = NoTable THEN existing.doiget
                ELSE MergeDoiget(existing.doiget, incoming.doiget,
                                 venue # incoming.venue, user_fields)]
=============================================================================
