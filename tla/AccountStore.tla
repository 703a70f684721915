---------------------------- MODULE AccountStore ----------------------------
(***************************************************************************)
(* Where the account pool, or the flagged records, are kept                *)
(* (lib/storage/load-save.ts, flagged.ts, keychain.ts and                  *)
(* lib/tools/codex-keychain.ts).  A store is a JSON file, with             *)
(* CODEX_KEYCHAIN=1 an entry of the OS keychain instead, and the markers   *)
(* the file leaves behind when it moves there.  A load tries them in turn; *)
(* a save, a clear and a rollback go over them step by step, and a process *)
(* may die or a step may fail between any two.                             *)
(*                                                                         *)
(* Savers hold the storage lease; a plain load holds nothing, but when it  *)
(* migrates an old file it writes all the same.  The contents of a store   *)
(* are numbers, in the order of the saves; 0 is no pool.                   *)
(***************************************************************************)
EXTENDS Naturals, Sequences, SequencesExt

CONSTANTS
  Procs,       \* the processes
  NoProc,      \* nobody
  Worlds,      \* what a run finds: store, format, backend, who is up, what is done, what fails
  Retention,   \* markers that are kept
  MaxOps,      \* bound: operations begun
  MaxFaults    \* bound: faults

Kinds == {"load", "transaction", "clear", "rollback"}

Failures == {"crash", "rename", "write", "stuck", "marker", "refused", "transient", "locked", "kept"}

VARIABLES
  world,      \* the run's world
  file,       \* what the JSON file holds
  old,        \* it is in the format of an older version
  legacy,     \* what the file older versions kept elsewhere holds
  entry,      \* what the keychain entry holds
  markers,    \* the .migrated-to-keychain files, newest first
  retired,    \* files retired so far: it names the markers
  lease,      \* who holds the storage lease
  op,         \* what each process is doing
  current,    \* history: what a load that starts now may return
  made,       \* saves begun
  ops, faults

vars ==
  <<world, file, old, legacy, entry, markers, retired, lease, op, current, made, ops, faults>>

places == <<file, old, legacy, entry, markers, retired>>

\* window: what the load may return; value: what it returned, or what is saved;
\* marker: the one a rollback restores.
Idle == [kind |-> "none", at |-> "idle", value |-> 0, marker |-> 0, window |-> {}]

Init ==
  /\ world \in Worlds
  /\ file = IF world.format \in {"current", "old"} THEN 1 ELSE 0
  /\ legacy = IF world.format = "legacy" THEN 1 ELSE 0
  /\ old = (world.format = "old")
  /\ made = file + legacy
  /\ current = {made}
  /\ entry = 0 /\ markers = <<>> /\ retired = 0
  /\ lease = NoProc
  /\ op = [p \in Procs |-> Idle]
  /\ ops = 0 /\ faults = 0

(***************************************************************************)
(* Steps.                                                                  *)
(***************************************************************************)
At(p, step) == op[p].at = step

Goto(p, step) == op' = [op EXCEPT ![p].at = step]

\* What a load may return: everything the store holds until the load ends.
Loading(q) == op[q].at \in {"read entry", "read file", "read markers", "read legacy"}

\* A step of p towards "step", after which a load may return one of vs.
Holds(p, vs, step) ==
  /\ current' = vs
  /\ op' = [q \in Procs |->
              IF q = p THEN [op[p] EXCEPT !.at = step]
              ELSE IF Loading(q) THEN [op[q] EXCEPT !.window = @ \cup vs] ELSE op[q]]

\* A step fails, if the environment may make it fail.
Fault(hazard) == hazard \in world.fails /\ faults < MaxFaults /\ faults' = faults + 1

NoFault == UNCHANGED faults

\* An operation ends, and with it its lease.
Finish(p) ==
  /\ op' = [op EXCEPT ![p] = Idle]
  /\ lease' = IF lease = p THEN NoProc ELSE lease

(***************************************************************************)
(* An operation begins.  A load needs no lease, the others hold it.        *)
(***************************************************************************)
FirstRead == IF world.keychain THEN "read entry" ELSE "read file"

Begins(p, kind, step) ==
  /\ p \in world.up /\ kind \in world.does /\ At(p, "idle")
  /\ ops < MaxOps /\ ops' = ops + 1
  /\ op' = [op EXCEPT ![p] = [Idle EXCEPT !.kind = kind, !.at = step,
                                !.window = IF step = FirstRead THEN current ELSE {}]]

Locks(p) == lease = NoProc /\ lease' = p

BeginLoad(p) ==
  /\ Begins(p, "load", FirstRead)
  /\ UNCHANGED <<world, places, lease, current, made, faults>>

BeginTransaction(p) ==
  /\ Begins(p, "transaction", FirstRead) /\ Locks(p)
  /\ UNCHANGED <<world, places, current, made, faults>>

BeginClear(p) ==
  /\ Begins(p, "clear", "unlink file") /\ Locks(p)
  /\ UNCHANGED <<world, places, current, made, faults>>

\* The operator asks for a rollback, one at a time.
BeginRollback(p) ==
  /\ \A q \in Procs : op[q].kind # "rollback"
  /\ Begins(p, "rollback", "choose marker")
  /\ UNCHANGED <<world, places, lease, current, made, faults>>

(***************************************************************************)
(* Loading: the keychain entry, the file, the markers, the legacy file.    *)
(***************************************************************************)
Read(p, v, next) == op' = [op EXCEPT ![p].value = v, ![p].at = next]

\* A backend that fails answers like one without the entry.
ReadEntry(p) ==
  /\ At(p, "read entry")
  /\ \/ entry # 0 /\ Read(p, entry, "loaded") /\ NoFault
     \/ entry = 0 /\ Goto(p, "read file") /\ NoFault
     \/ entry # 0 /\ Fault("locked") /\ Goto(p, "read file")
  /\ UNCHANGED <<world, places, lease, current, made, ops>>

\* Where a save starts.  A file in an old format, or elsewhere, is saved again.
FirstWrite == IF world.keychain THEN "retire file" ELSE "write file"

ReadFile(p) ==
  /\ At(p, "read file")
  /\ IF file = 0 THEN Goto(p, "read markers")
     ELSE Read(p, file, IF old THEN FirstWrite ELSE "loaded")
  /\ UNCHANGED <<world, places, lease, current, made, ops, faults>>

ReadMarkers(p) ==
  /\ At(p, "read markers")
  /\ IF markers = <<>> THEN Goto(p, "read legacy")
                       ELSE Read(p, Head(markers).holds, "loaded")
  /\ UNCHANGED <<world, places, lease, current, made, ops, faults>>

ReadLegacy(p) ==
  /\ At(p, "read legacy")
  /\ Read(p, legacy, IF legacy = 0 THEN "loaded" ELSE FirstWrite)
  /\ UNCHANGED <<world, places, lease, current, made, ops, faults>>

\* The load itself saves, to migrate what it read.
Migrating(p) == op[p].window # {}

\* The migration is written; the legacy file is removed, or kept if that fails.
UnlinkLegacy(p) ==
  /\ At(p, "unlink legacy")
  /\ \/ legacy' = 0 /\ NoFault
     \/ legacy # 0 /\ Fault("stuck") /\ UNCHANGED legacy
  /\ Goto(p, "loaded")
  /\ UNCHANGED <<world, file, old, entry, markers, retired, lease, current, made, ops>>

Return(p) ==
  /\ At(p, "loaded") /\ op[p].kind = "load"
  /\ Finish(p)
  /\ UNCHANGED <<world, places, current, made, ops, faults>>

(***************************************************************************)
(* Saving: a transaction writes a changed pool, or leaves it.              *)
(***************************************************************************)
Persist(p) ==
  /\ At(p, "loaded") /\ op[p].kind = "transaction"
  /\ made' = made + 1
  /\ current' = current \cup {made'}
  /\ op' = [q \in Procs |->
              IF q = p THEN [op[p] EXCEPT !.value = made', !.window = {}, !.at = FirstWrite]
              ELSE IF Loading(q) THEN [op[q] EXCEPT !.window = @ \cup {made'}] ELSE op[q]]
  /\ UNCHANGED <<world, places, lease, ops, faults>>

Abandon(p) ==
  /\ At(p, "loaded") /\ op[p].kind = "transaction"
  /\ Finish(p)
  /\ UNCHANGED <<world, places, current, made, ops, faults>>

Pruned(ms) == SubSeq(ms, 1, IF Len(ms) > Retention THEN Retention ELSE Len(ms))

\* The file becomes the newest marker.
BecomesMarker ==
  /\ retired' = retired + 1
  /\ markers' = Pruned(<<[name |-> retired', holds |-> file]>> \o markers)
  /\ file' = 0 /\ old' = FALSE

\* Mutant: the file is removed without leaving a marker.
RetireFileUnmarked(p) ==
  /\ At(p, "retire file")
  /\ file' = 0 /\ old' = FALSE
  /\ Goto(p, "write entry") /\ NoFault
  /\ UNCHANGED <<world, legacy, entry, markers, retired, lease, current, made, ops>>

\* The file is retired before the entry is written.  If it cannot be renamed it is
\* overwritten with what is being saved; if that fails it stays.
RetireFile(p) ==
  /\ At(p, "retire file")
  /\ \/ file = 0 /\ NoFault /\ UNCHANGED <<file, old, markers, retired>>
     \/ file # 0 /\ NoFault /\ BecomesMarker
     \/ /\ file # 0 /\ Fault("rename")
        /\ \/ file' = op[p].value /\ old' = FALSE
           \/ "stuck" \in world.fails /\ UNCHANGED <<file, old>>
        /\ UNCHANGED <<markers, retired>>
  /\ Goto(p, "write entry")
  /\ UNCHANGED <<world, legacy, entry, lease, current, made, ops>>

\* A failed write leaves the entry there was.  It is refused when the backend can
\* never take it: the pool is too large.
WriteEntry(p) ==
  /\ At(p, "write entry")
  /\ \/ entry' = op[p].value /\ Goto(p, "sync markers") /\ NoFault
     \/ /\ \E why \in {"refused", "transient"} :
             /\ Fault(why)
             /\ Goto(p, IF why = "refused" THEN "write file, drop entry" ELSE "write file")
        /\ UNCHANGED entry
  /\ UNCHANGED <<world, file, old, legacy, markers, retired, lease, current, made, ops>>

\* The save is complete: from now on only its value counts.  A migrating load
\* wrote what it had read, which counts for nothing new.
Saved(p) == IF Migrating(p) THEN current ELSE {op[p].value}

AfterSave(p) ==
  IF ~Migrating(p) THEN "done" ELSE IF legacy # 0 THEN "unlink legacy" ELSE "loaded"

\* The newest marker is rewritten, the others removed.  One that cannot be
\* rewritten is removed, one that cannot be removed is rewritten.
SyncMarkers(p) ==
  LET v == op[p].value
      Rewrite(ms) == [i \in DOMAIN ms |-> [ms[i] EXCEPT !.holds = v]]
  IN /\ At(p, "sync markers")
     /\ \/ markers' = Rewrite(SubSeq(markers, 1, IF markers = <<>> THEN 0 ELSE 1)) /\ NoFault
        \/ /\ markers # <<>> /\ Fault("marker")
           /\ \/ markers' = <<>>
              \/ markers' = Rewrite(markers)
              \/ "stuck" \in world.fails /\ UNCHANGED markers
     /\ Holds(p, Saved(p), AfterSave(p))
     /\ UNCHANGED <<world, file, old, legacy, entry, retired, lease, made, ops>>

\* A load goes on when its migration fails, unless it migrates flagged records.
AfterFailure(p) == IF Migrating(p) /\ world.store = "accounts" THEN "loaded" ELSE "done"

\* A write renames a complete file: it happens or it does not.
WriteFile(p) ==
  /\ At(p, "write file") \/ At(p, "write file, drop entry")
  /\ \/ /\ file' = op[p].value /\ old' = FALSE /\ NoFault
        /\ IF At(p, "write file") THEN Holds(p, Saved(p), AfterSave(p))
                                  ELSE Goto(p, "drop entry") /\ UNCHANGED current
     \/ /\ Fault("write") /\ UNCHANGED <<file, old, current>>
        /\ Goto(p, AfterFailure(p))
  /\ UNCHANGED <<world, legacy, entry, markers, retired, lease, made, ops>>

\* The entry a refused write could not replace, or a rollback put aside, would
\* shadow the file.
DropEntry(p) ==
  /\ At(p, "drop entry")
  /\ \/ entry' = 0 /\ NoFault
     \/ entry # 0 /\ Fault("kept") /\ UNCHANGED entry
  /\ Holds(p, Saved(p), AfterSave(p))
  /\ UNCHANGED <<world, file, old, legacy, markers, retired, lease, made, ops>>

Done(p) ==
  /\ At(p, "done")
  /\ Finish(p)
  /\ UNCHANGED <<world, places, current, made, ops, faults>>

(***************************************************************************)
(* Clearing: the file, then the entry, then the markers.                   *)
(***************************************************************************)
\* Once the file is gone a load may find nothing.
ClearFile(p) ==
  /\ At(p, "unlink file")
  /\ \/ /\ file' = 0 /\ old' = FALSE /\ NoFault
        /\ Holds(p, current \cup {0}, IF world.keychain THEN "clear entry" ELSE "clear markers")
     \/ file # 0 /\ Fault("stuck") /\ Goto(p, "done") /\ UNCHANGED <<file, old, current>>
  /\ UNCHANGED <<world, legacy, entry, markers, retired, lease, made, ops>>

\* An entry that cannot be deleted survives the clear, which only logs it.
ClearEntry(p) ==
  /\ At(p, "clear entry")
  /\ \E kept \in BOOLEAN :
       /\ entry' = IF kept THEN entry ELSE 0
       /\ IF kept THEN Fault("kept") ELSE NoFault
  /\ Goto(p, "clear markers")
  /\ UNCHANGED <<world, file, old, legacy, markers, retired, lease, current, made, ops>>

\* A marker that cannot be removed fails the clear.
ClearMarkers(p) ==
  /\ At(p, "clear markers")
  /\ \/ markers' = <<>> /\ NoFault /\ Holds(p, {0}, "done")
     \/ markers # <<>> /\ Fault("stuck") /\ Goto(p, "done") /\ UNCHANGED <<markers, current>>
  /\ UNCHANGED <<world, file, old, legacy, entry, retired, lease, made, ops>>

(***************************************************************************)
(* Rolling back: the newest marker becomes the file again.                 *)
(***************************************************************************)
\* Of the accounts the marker is chosen before the lease is taken, of the flagged
\* records under it.
ChooseMarker(p) ==
  /\ At(p, "choose marker")
  /\ IF world.store = "flagged" THEN Locks(p) ELSE UNCHANGED lease
  /\ IF markers = <<>> THEN Goto(p, "done")
     ELSE op' = [op EXCEPT ![p].marker = Head(markers).name, ![p].at = "archive file"]
  /\ UNCHANGED <<world, places, current, made, ops, faults>>

Chosen(p) == {i \in DOMAIN markers : markers[i].name = op[p].marker}

\* A file in the way is archived, which the operator confirmed.  What the rollback
\* restores is the operator's choice, whatever was saved after it.
ArchiveFile(p) ==
  /\ At(p, "archive file")
  /\ IF world.store = "flagged" THEN UNCHANGED lease ELSE Locks(p)
  /\ file' = 0 /\ old' = FALSE
  /\ current' = current \cup {markers[i].holds : i \in Chosen(p)}
  /\ op' = [op EXCEPT ![p].value = file, ![p].at = "promote marker"]
  /\ UNCHANGED <<world, legacy, entry, markers, retired, made, ops, faults>>

\* If the marker is gone, or cannot be renamed, the archived file is put back.
PromoteMarker(p) ==
  /\ At(p, "promote marker")
  /\ \/ \E i \in Chosen(p) :
          /\ file' = markers[i].holds
          /\ markers' = RemoveAt(markers, i)
          /\ op' = [op EXCEPT ![p].value = markers[i].holds, ![p].at = "drop entry"]
          /\ NoFault
     \/ /\ IF Chosen(p) = {} THEN NoFault ELSE Fault("rename")
        /\ file' = op[p].value
        /\ Goto(p, "done")
        /\ UNCHANGED markers
  /\ UNCHANGED <<world, old, legacy, entry, retired, lease, current, made, ops>>

(***************************************************************************)
(* A process dies; its lease is broken once it is stale.                   *)
(***************************************************************************)
Crash(p) ==
  /\ ~At(p, "idle") /\ Fault("crash")
  /\ Finish(p)
  /\ UNCHANGED <<world, places, current, made, ops>>

Begin(p) == BeginLoad(p) \/ BeginTransaction(p) \/ BeginClear(p) \/ BeginRollback(p)

Step(p) ==
  \/ ReadEntry(p) \/ ReadFile(p) \/ ReadMarkers(p) \/ ReadLegacy(p) \/ UnlinkLegacy(p)
  \/ Return(p) \/ Persist(p) \/ Abandon(p)
  \/ RetireFile(p) \/ WriteEntry(p) \/ SyncMarkers(p) \/ WriteFile(p) \/ DropEntry(p) \/ Done(p)
  \/ ClearFile(p) \/ ClearEntry(p) \/ ClearMarkers(p)
  \/ ChooseMarker(p) \/ ArchiveFile(p) \/ PromoteMarker(p)

Next == \E p \in Procs : Begin(p) \/ Step(p) \/ Crash(p)

Spec == Init /\ [][Next]_vars

-----------------------------------------------------------------------------
TypeOK ==
  /\ world \in Worlds
  /\ {file, legacy, entry} \subseteq 0..made /\ old \in BOOLEAN
  /\ Len(markers) <= Retention
  /\ \A i \in DOMAIN markers : markers[i] \in [name : 1..retired, holds : 1..made]
  /\ current \subseteq 0..made
  /\ \A p \in Procs : op[p].value \in 0..made /\ op[p].window \subseteq 0..made
  /\ lease # NoProc => ~At(lease, "idle")

(***************************************************************************)
(* A load returns the pool the last completed save, clear or rollback left *)
(* or one under way while it ran: never an older one, whose single-use     *)
(* tokens are consumed, and never nothing when there is a pool, which the  *)
(* next save would write over.                                             *)
(***************************************************************************)
LoadIsCurrent ==
  \A p \in Procs :
    At(p, "loaded") /\ op[p].window # {} => op[p].value \in op[p].window

(***************************************************************************)
(* Whatever fails and whoever dies, some place holds the pool that the     *)
(* last completed save left, or one that a save under way was making:      *)
(* neither the move to the keychain nor the way back destroys the only     *)
(* copy of the credentials.                                                *)
(***************************************************************************)
PoolSurvives ==
  0 \notin current =>
    current \cap ({file, entry, legacy} \cup {markers[i].holds : i \in DOMAIN markers}
                    \cup {op[p].value : p \in {q \in Procs : At(q, "promote marker")}}) # {}
=============================================================================
