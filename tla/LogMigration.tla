---------------------------- MODULE LogMigration ----------------------------
(***************************************************************************)
(* migrate_v1_to_v2 (provenance.rs), behind doiget provenance migrate: the *)
(* log is read, chained afresh into <log>.v2-migrated, verified there, the *)
(* old log becomes <log>.v1-backup and the new one takes its name.  Each   *)
(* step is a system call of its own that may fail, the process may end     *)
(* between any two of them, the command may be run again, and another      *)
(* doiget may open the log and append to it meanwhile: the migration takes *)
(* no lock.                                                                *)
(*                                                                         *)
(* A digest is the chain of (row, schema) pairs it covers, so it is equal  *)
(* exactly when SHA-256 over the rows would be.                            *)
(***************************************************************************)
EXTENDS Integers, Sequences

CONSTANTS
  OldLogs,          \* logs there may be, each a sequence of rows
  MaxMigrations, MaxAppends, MaxKills

VARIABLES
  live, backup, staged,   \* the three files; Absent when there is none
  mig,                    \* where the migration is
  seeds,                  \* the rows it has read
  dry_run,
  mem,                    \* the other process: Closed, or its chain state
  beside,                 \* history: it had the log open during a migration
  appended,               \* history: how many rows it has been told are logged
  old,                    \* history: the rows the log had at first
  migrations, kills

migVars == <<live, backup, staged, mig, seeds, dry_run, mem, beside, appended, old, migrations, kills>>

ASSUME MigrationAssumption == MaxMigrations \in Nat /\ MaxAppends \in Nat /\ MaxKills \in Nat

Genesis == <<>>
MigRow(id, v, seq, prev) ==
  [id |-> id, v |-> v, ts_seq |-> seq, prev_hash |-> prev, this_hash |-> Append(prev, <<id, v>>)]
\* A line that is neither a v1 nor a v2 row.
BadLine == [id |-> 0, v |-> 0, ts_seq |-> 0, prev_hash |-> <<>>, this_hash |-> <<>>]
\* No file.
Absent == <<[BadLine EXCEPT !.id = -1]>>
Closed == [next_seq |-> 0, last_hash |-> <<>>]

Rows(f) == IF f = Absent THEN <<>> ELSE f
Ids(f) == {Rows(f)[i].id : i \in 1..Len(Rows(f))}
AllV2(f) == \A i \in 1..Len(Rows(f)) : Rows(f)[i].v = 2

\* A row links to the one before it or begins a chain.
Chains(f) ==
  \A i \in 1..Len(Rows(f)) :
    f[i].prev_hash = Genesis \/ (i > 1 /\ f[i].prev_hash = f[i - 1].this_hash /\ f[i].ts_seq > f[i - 1].ts_seq)

\* A log there may be was written by one build: it is of one format, up to lines
\* that are no rows, and a log of format 2 that reads to its end is one this build's
\* append has kept.
Hash == Seq(Int \X Int)
Line == {r \in [id : Int, v : Int, ts_seq : Nat, prev_hash : Hash, this_hash : Hash] : r.id = 0 => r = BadLine}
ASSUME LogsAssumption ==
  \A l \in OldLogs :
    /\ l \in Seq(Line)
    /\ 0 \in Ids(l) \/ AllV2(l) \/ \A i \in 1..Len(Rows(l)) : Rows(l)[i].v # 2
    /\ AllV2(l) => Chains(l)

MigInit ==
  /\ live = Absent /\ backup = Absent /\ staged = Absent
  /\ mig = "start" /\ seeds = <<>> /\ dry_run = FALSE /\ mem = Closed /\ beside = FALSE
  /\ appended = {} /\ old = {} /\ migrations = 0 /\ kills = 0

\* The log a user has when the new build is installed.
Install ==
  /\ mig = "start" /\ mig' = "idle"
  /\ live' \in OldLogs /\ old' = Ids(live')
  /\ UNCHANGED <<backup, staged, seeds, dry_run, mem, beside, appended, migrations, kills>>

\* Every line is parsed, as v1 or else as v2; without a log there is nothing to do.
MigRead(dry) ==
  /\ mig = "idle" /\ migrations < MaxMigrations /\ migrations' = migrations + 1
  /\ dry_run' = dry /\ seeds' = Rows(live)
  /\ mig' = IF live = Absent \/ dry \/ BadLine \in {Rows(live)[i] : i \in 1..Len(Rows(live))}
            THEN "idle" ELSE "stage"
  /\ beside' = (beside \/ (mig' = "stage" /\ mem # Closed))
  /\ UNCHANGED <<live, backup, staged, mem, appended, old, kills>>

\* The rows chained afresh from GENESIS, in the order and with the numbers they
\* had; each is a v2 row now, and its digest covers it and all before it.
Rechained ==
  [i \in 1..Len(seeds) |->
     MigRow(seeds[i].id, 2, seeds[i].ts_seq, [j \in 1..(i - 1) |-> <<seeds[j].id, 2>>])]

\* Mutant: the new rows are written over the old.
StageInPlace ==
  /\ mig = "stage"
  /\ \/ live' = Rechained /\ mig' = "verify"
     \/ \E n \in 0..Len(seeds) : live' = Append(SubSeq(Rechained, 1, n), BadLine) /\ mig' = "idle"
  /\ staged' = live'
  /\ UNCHANGED <<backup, seeds, dry_run, mem, beside, appended, old, migrations, kills>>

\* The staged file is written and synced; an error leaves a part of it.
Stage ==
  /\ mig = "stage"
  /\ \/ staged' = Rechained /\ mig' = "verify"
     \/ \E n \in 0..Len(seeds) : staged' = Append(SubSeq(Rechained, 1, n), BadLine) /\ mig' = "idle"
  /\ UNCHANGED <<live, backup, seeds, dry_run, mem, beside, appended, old, migrations, kills>>

\* verify: one chain, numbers that grow within it.
MigVerifies(f) ==
  \A i \in 1..Len(Rows(f)) :
    /\ f[i].v = 2
    /\ i = 1 => f[i].prev_hash = Genesis
    /\ i > 1 /\ f[i].prev_hash # Genesis =>
         f[i].prev_hash = f[i - 1].this_hash /\ f[i].ts_seq > f[i - 1].ts_seq

\* The staged file is read back; the migration gives up if it does not verify.
VerifyStaged ==
  /\ mig = "verify"
  /\ mig' = IF MigVerifies(staged) THEN "drop" ELSE "idle"
  /\ UNCHANGED <<live, backup, staged, seeds, dry_run, mem, beside, appended, old, migrations, kills>>

\* A backup of an earlier migration makes room for the new one.
DropBackup ==
  /\ mig = "drop"
  /\ backup' = IF live = Absent THEN backup ELSE Absent
  /\ mig' = IF live = Absent THEN "publish" ELSE "backup"
  /\ UNCHANGED <<live, staged, seeds, dry_run, mem, beside, appended, old, migrations, kills>>

BackUp ==
  /\ mig = "backup" /\ backup' = live /\ live' = Absent /\ mig' = "publish"
  /\ UNCHANGED <<staged, seeds, dry_run, mem, beside, appended, old, migrations, kills>>

\* rename replaces whatever log there is by now.
PublishLog ==
  /\ mig = "publish" /\ live' = staged /\ staged' = Absent /\ mig' = "idle"
  /\ UNCHANGED <<backup, seeds, dry_run, mem, beside, appended, old, migrations, kills>>

\* A system call fails: the command ends with an error where it is.
MigFails ==
  /\ mig \notin {"start", "idle"} /\ mig' = "idle"
  /\ UNCHANGED <<live, backup, staged, seeds, dry_run, mem, beside, appended, old, migrations, kills>>

\* The machine stops, in the middle of writing the staged file perhaps.
Kill ==
  /\ mig # "start" /\ kills < MaxKills /\ kills' = kills + 1
  /\ mig' = "idle" /\ mem' = Closed
  /\ UNCHANGED <<live, backup, staged, seeds, dry_run, beside, appended, old, migrations>>

\* ProvenanceLog::open by another doiget: a line that is not v2 stops it; a log
\* that is not there is a new one.
OpenLog ==
  /\ mig # "start" /\ mem = Closed /\ AllV2(live)
  /\ mem' = IF Rows(live) = <<>> THEN [next_seq |-> 1, last_hash |-> Genesis]
            ELSE [next_seq |-> live[Len(live)].ts_seq + 1, last_hash |-> live[Len(live)].this_hash]
  /\ beside' = (beside \/ mig # "idle")
  /\ UNCHANGED <<live, backup, staged, mig, seeds, dry_run, appended, old, migrations, kills>>

\* append: the row goes to the end of whatever file has the log's name.
AppendRow ==
  /\ mem # Closed /\ \E n \in 1..MaxAppends :
       /\ n \notin appended /\ (n - 1) \in appended \cup {0}
       /\ LET r == MigRow(100 + n, 2, mem.next_seq, mem.last_hash) IN
          /\ live' = Append(Rows(live), r)
          /\ mem' = [next_seq |-> mem.next_seq + 1, last_hash |-> r.this_hash]
       /\ appended' = appended \cup {n}
  /\ UNCHANGED <<backup, staged, mig, seeds, dry_run, beside, old, migrations, kills>>

CloseLog ==
  /\ mem # Closed /\ mem' = Closed
  /\ UNCHANGED <<live, backup, staged, mig, seeds, dry_run, beside, appended, old, migrations, kills>>

MigStep == Stage \/ VerifyStaged \/ DropBackup \/ BackUp \/ PublishLog

MigNext ==
  \/ Install \/ (\E dry \in BOOLEAN : MigRead(dry))
  \/ MigStep \/ MigFails \/ Kill \/ OpenLog \/ AppendRow \/ CloseLog

MigSpec == MigInit /\ [][MigNext]_migVars

-----------------------------------------------------------------------------
(* Properties.                                                             *)

\* Whatever fails, is interrupted or runs beside it, a migration never leaves a
\* half-rewritten log under the log's name, on which every later open depends: if
\* the log read to its last line at first, so does the one there, and its rows are
\* all of format 2 or none is.  A log of format 2 also verifies, as long as no
\* other doiget had it open during a migration: what that one appends while the
\* log's name is free, and after opening it then, is no part of the published chain.
LiveIsWhole ==
  /\ 0 \in Ids(live) => 0 \in old
  /\ (\E i \in 1..Len(Rows(live)) : Rows(live)[i].v = 2) /\ 0 \notin old => AllV2(live)
  /\ ~beside /\ AllV2(live) => Chains(live)

\* The last, without the condition.
LiveVerifies == AllV2(live) => Chains(live)

\* "the original is preserved at <log_path>.v1-backup": a row that was once in
\* the log is in the log, its backup or the staged file, even if no other doiget
\* had the log open during the migration.
RowsKept ==
  mig # "start" /\ ~beside =>
    (old \cup {100 + n : n \in appended}) \ {0} \subseteq Ids(live) \cup Ids(backup) \cup Ids(staged)

\* "Re-running on a v2 log is a no-op", if no other doiget appends to it meanwhile.
RerunIsNoOp ==
  [][PublishLog /\ ~beside /\ AllV2(backup) => live' = backup]_migVars
=============================================================================
