------------------------------ MODULE MCBatch ------------------------------
(* Files of up to four entries in windows of three: a ref listed twice in   *)
(* one window and in two, beside entries that name nothing.                 *)
EXTENDS Batch

P == Entry("ref", "p")
Q == Entry("ref", "q")
MCFiles ==
  {"undecodable", <<P, P, Q>>, <<P, Q, Entry("noid", "none"), P>>,
   <<Entry("pmid", "p"), P, Entry("software", "none")>>,
   <<Entry("invalid", "none"), Entry("unsupported", "none")>>, <<>>}
MCOptions == {{}, {"dry_run"}, {"only_failed"}, {"refetch"}}
============
