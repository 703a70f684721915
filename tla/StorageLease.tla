---------------------------- MODULE StorageLease ----------------------------
(***************************************************************************)
(* One cross-process lease of the storage directory                        *)
(* (lib/storage/transaction-lock.ts over the proper-lockfile library).     *)
(*                                                                         *)
(* The lease is a lock directory.  mkdir takes it, a heartbeat keeps its   *)
(* mtime young, and a contender breaks it once the mtime is older than the *)
(* stale window.  The fs shim of the code remembers every mtime seen on    *)
(* the process's own directory, and assertValid() and the two removals     *)
(* compare the directory with them.  Each step is one file system call and *)
(* the callback that follows it; other processes run in between, and a     *)
(* stalled process simply takes no step while the clock moves on.          *)
(*                                                                         *)
(* A tick stands for a heartbeat interval.  An mtime is its tick and its   *)
(* writer: two processes do not write the same millisecond, except that    *)
(* the library's precision probe rounds up to the next second, so probes   *)
(* of one tick do write the same mtime.                                    *)
(***************************************************************************)
EXTENDS Integers

CONSTANTS
  Procs,     \* processes sharing the storage directory
  STALE,     \* stale window, in ticks
  PATIENCE,  \* how long the retries of one acquisition last, in ticks
  MaxTime    \* bound: ticks of a behaviour

Probe == "probe"  \* writer of the rounded mtimes
Dead == "dead"    \* maker of a directory whose process died

ASSUME LeaseAssumption ==
  /\ STALE \in Nat \ {0}
  /\ PATIENCE \in Nat /\ PATIENCE > STALE + 1
  /\ MaxTime \in Nat \ {0}
  /\ Procs \cap {Probe, Dead} = {}

Times == 0 .. MaxTime
Mtimes == [at : 0 .. MaxTime + 1, by : Procs \cup {Probe}]
None == [at |-> -1, by |-> Probe]

\* The lock directory: its mtime, and (ghost) the process that made it.
Dirs == [mtime : Mtimes, maker : Procs \cup {Dead}]
NoDir == [mtime |-> None, maker |-> Dead]

VARIABLES
  now,          \* the clock
  dir,          \* the lock directory, or NoDir
  pc,           \* where each process's lease stands
  since,        \* when its acquisition started
  own,          \* ownMtimesMs: mtimes seen on its own directory
  proof,        \* lastOwnershipProofAt
  foreign,      \* foreignMtimeMs: what its last staleness stat saw
  lockMtime,    \* the mtime proper-lockfile believes it wrote last
  beat,         \* the mtime a heartbeat in flight is about to write, or None
  compromised,  \* the heartbeat found the lease lost
  apart         \* ghost: two calls that nothing makes one were pulled apart

vars == <<now, dir, pc, since, own, proof, foreign, lockMtime, beat, compromised, apart>>
held == <<lockMtime, beat, compromised>>

Steps == {"idle", "mkdir", "stat", "break", "rmdir", "again", "probe",
          "first_stat", "held", "unlink"}

Created(p) == pc[p] \in {"probe", "first_stat", "held", "unlink"}

Init ==
  /\ now = 1
  /\ dir \in {NoDir, [mtime |-> [at |-> 0, by |-> Probe], maker |-> Dead]}
  /\ pc = [p \in Procs |-> "idle"]
  /\ since = [p \in Procs |-> 1]
  /\ own = [p \in Procs |-> {}]
  /\ proof = [p \in Procs |-> 1]
  /\ foreign = [p \in Procs |-> None]
  /\ lockMtime = [p \in Procs |-> None]
  /\ beat = [p \in Procs |-> None]
  /\ compromised = [p \in Procs |-> FALSE]
  /\ apart = FALSE

-----------------------------------------------------------------------------
(* Helpers.                                                                *)

Goto(p, step) == pc' = [pc EXCEPT ![p] = step]

Stale(mtime) == mtime.at < now - STALE

\* Mutant: the ownership state outlives the acquisition.
ForgetKeepingMtimes(p) ==
  /\ Goto(p, "idle")
  /\ foreign' = [foreign EXCEPT ![p] = None]
  /\ lockMtime' = [lockMtime EXCEPT ![p] = None]
  /\ compromised' = [compromised EXCEPT ![p] = FALSE]
  /\ UNCHANGED <<own, proof>>

\* The lease object is gone with the operation that used it.
Forget(p) ==
  /\ Goto(p, "idle")
  /\ own' = [own EXCEPT ![p] = {}]
  /\ foreign' = [foreign EXCEPT ![p] = None]
  /\ lockMtime' = [lockMtime EXCEPT ![p] = None]
  /\ compromised' = [compromised EXCEPT ![p] = FALSE]
  /\ UNCHANGED proof

\* Mutant: the retries end with the stale window.
ShortOfPatience(p) == now - since[p] >= STALE

OutOfPatience(p) == now - since[p] >= PATIENCE

\* ELOCKED: try again from the start, or report contention.
Retry(p) == Goto(p, IF OutOfPatience(p) THEN "idle" ELSE "mkdir")

\* Mutant: any directory at the path is taken for the process's own.
AnyMtime(p) == TRUE

\* The directory at the path carries an mtime this process saw on its own.
Recognised(p) == dir.mtime \in own[p]

\* verifyLeaseHeld, behind assertValid().
Valid(p) ==
  /\ pc[p] = "held"
  /\ ~compromised[p]
  /\ dir # NoDir
  /\ Recognised(p)
  /\ now - proof[p] < STALE

-----------------------------------------------------------------------------
(* Acquiring: proper-lockfile's acquireLock over the shim.                 *)

Begin(p) ==
  /\ pc[p] = "idle" /\ beat[p] = None
  /\ Goto(p, "mkdir")
  /\ since' = [since EXCEPT ![p] = now]
  /\ proof' = [proof EXCEPT ![p] = now]
  /\ own' = [own EXCEPT ![p] = {}]
  /\ foreign' = [foreign EXCEPT ![p] = None]
  /\ UNCHANGED <<now, dir, held, apart>>

\* The shim's mkdir callback: from here on stats describe our directory.
Make(p) ==
  /\ dir = NoDir
  /\ dir' = [mtime |-> [at |-> now, by |-> p], maker |-> p]
  /\ Goto(p, "probe")
  /\ foreign' = [foreign EXCEPT ![p] = None]
  /\ proof' = [proof EXCEPT ![p] = now]

Mkdir(p) ==
  /\ pc[p] = "mkdir"
  /\ \/ Make(p)
     \/ dir # NoDir /\ Goto(p, "stat") /\ UNCHANGED <<dir, foreign, proof>>
  /\ UNCHANGED <<now, since, own, held, apart>>

\* The second mkdir, after the directory went away, does not look for
\* staleness: it would recurse.
MkdirAgain(p) ==
  /\ pc[p] = "again"
  /\ \/ Make(p)
     \/ dir # NoDir /\ Retry(p) /\ UNCHANGED <<dir, foreign, proof>>
  /\ UNCHANGED <<now, since, own, held, apart>>

Stat(p) ==
  /\ pc[p] = "stat"
  /\ IF dir = NoDir
     THEN Goto(p, "again") /\ UNCHANGED foreign
     ELSE /\ foreign' = [foreign EXCEPT ![p] = dir.mtime]
          /\ IF Stale(dir.mtime) THEN Goto(p, "break") ELSE Retry(p)
  /\ UNCHANGED <<now, dir, since, own, proof, held, apart>>

\* Mutant: the directory is not looked at again before it is removed.
Unchecked(p) == TRUE

\* Still the directory the staleness stat saw, and not from the future.
StillStale(p) == dir.mtime.at <= now /\ dir.mtime = foreign[p]

\* physicallyRemove, at once or after whatever runs before it.
RemoveNowOrLater(p, later, next) ==
  \/ dir' = NoDir /\ Goto(p, next) /\ UNCHANGED apart
  \/ Goto(p, later) /\ apart' = TRUE /\ UNCHANGED dir

\* The shim's rmdir on the stale-break path.
Break(p) ==
  /\ pc[p] = "break"
  /\ IF dir # NoDir /\ ~StillStale(p)
     THEN Retry(p) /\ UNCHANGED <<dir, apart>>
     ELSE RemoveNowOrLater(p, "rmdir", "again")
  /\ UNCHANGED <<now, since, own, proof, foreign, held>>

Rmdir(p) ==
  /\ pc[p] = "rmdir"
  /\ dir' = NoDir
  /\ Goto(p, "again")
  /\ UNCHANGED <<now, since, own, proof, foreign, held, apart>>

\* The library's precision probe writes a rounded mtime ...
ProbeUtimes(p) ==
  /\ pc[p] = "probe"
  /\ IF dir = NoDir
     THEN Forget(p) /\ UNCHANGED <<dir, beat>>            \* ENOENT
     ELSE LET mtime == [at |-> now + 1, by |-> Probe] IN
          /\ own' = [own EXCEPT ![p] = @ \cup {mtime}]
          /\ dir' = [dir EXCEPT !.mtime = mtime]
          /\ proof' = [proof EXCEPT ![p] = now]
          /\ Goto(p, "first_stat")
          /\ UNCHANGED <<foreign, held>>
  /\ UNCHANGED <<now, since, apart>>

\* ... and reads it back.
FirstStat(p) ==
  /\ pc[p] = "first_stat"
  /\ IF dir = NoDir
     THEN Forget(p)                                       \* ENOENT
     ELSE /\ own' = [own EXCEPT ![p] = @ \cup {dir.mtime}]
          /\ proof' = [proof EXCEPT ![p] = now]
          /\ lockMtime' = [lockMtime EXCEPT ![p] = dir.mtime]
          /\ Goto(p, "held")
          /\ UNCHANGED <<foreign, compromised>>
  /\ UNCHANGED <<now, dir, since, beat, apart>>

-----------------------------------------------------------------------------
(* Holding: the heartbeat.                                                 *)

Compromise(p) ==
  /\ compromised' = [compromised EXCEPT ![p] = TRUE]
  /\ UNCHANGED <<dir, lockMtime, beat>>

\* The shim's stat takes whatever mtime it sees for our own; the library
\* then compares it with the one it wrote and, if it is, issues the utimes.
Beat(p) ==
  /\ pc[p] = "held" /\ ~compromised[p] /\ beat[p] = None
  /\ IF dir = NoDir
     THEN Compromise(p) /\ UNCHANGED <<own, proof, apart>>
     ELSE LET mtime == [at |-> now, by |-> p]
              ours == dir.mtime = lockMtime[p]
          IN
          /\ proof' = [proof EXCEPT ![p] = now]
          /\ own' = [own EXCEPT ![p] = @ \cup {dir.mtime} \cup (IF ours THEN {mtime} ELSE {})]
          /\ \/ ~ours /\ Compromise(p) /\ UNCHANGED apart
             \/ /\ ours
                /\ dir' = [dir EXCEPT !.mtime = mtime]
                /\ lockMtime' = [lockMtime EXCEPT ![p] = mtime]
                /\ UNCHANGED <<beat, compromised, apart>>
             \/ /\ ours
                /\ beat' = [beat EXCEPT ![p] = mtime]
                /\ apart' = (apart \/ Stale(dir.mtime))
                /\ UNCHANGED <<dir, lockMtime, compromised>>
  /\ UNCHANGED <<now, pc, since, foreign>>

\* The utimes lands on whatever directory is there.
Land(p) ==
  /\ beat[p] # None
  /\ beat' = [beat EXCEPT ![p] = None]
  /\ dir' = IF dir = NoDir THEN dir ELSE [dir EXCEPT !.mtime = beat[p]]
  /\ IF pc[p] # "held" THEN UNCHANGED <<proof, lockMtime, compromised>>
     ELSE IF dir = NoDir
     THEN /\ compromised' = [compromised EXCEPT ![p] = TRUE]
          /\ UNCHANGED <<proof, lockMtime>>
     ELSE /\ lockMtime' = [lockMtime EXCEPT ![p] = beat[p]]
          /\ proof' = [proof EXCEPT ![p] = now]
          /\ UNCHANGED compromised
  /\ UNCHANGED <<now, pc, since, own, foreign, apart>>

-----------------------------------------------------------------------------
(* Letting go.                                                             *)

(* The operation ended, or the process exits and its exit hook runs.  A    *)
(* compromised lease is not in the library's registry any more, and a      *)
(* directory that is not recognised belongs to a thief: both are left.     *)
Release(p) ==
  /\ pc[p] = "held"
  /\ IF compromised[p] \/ dir = NoDir \/ ~Recognised(p)
     THEN Forget(p) /\ UNCHANGED <<dir, apart>>
     ELSE \/ dir' = NoDir /\ Forget(p) /\ UNCHANGED apart
          \/ /\ Goto(p, "unlink")
             /\ apart' = (apart \/ Stale(dir.mtime))
             /\ UNCHANGED <<dir, own, proof, foreign, lockMtime, compromised>>
  /\ UNCHANGED <<now, since, beat>>

Unlink(p) ==
  /\ pc[p] = "unlink"
  /\ dir' = NoDir
  /\ Forget(p)
  /\ UNCHANGED <<now, since, beat, apart>>

\* SIGKILL, or the loss of the machine: the directory stays.
Crash(p) ==
  /\ pc[p] # "idle"
  /\ dir' = IF dir # NoDir /\ dir.maker = p THEN [dir EXCEPT !.maker = Dead] ELSE dir
  /\ Forget(p)
  /\ beat' = [beat EXCEPT ![p] = None]
  /\ UNCHANGED <<now, since, apart>>

\* Time passes, whoever stalls.
Tick ==
  /\ now < MaxTime
  /\ now' = now + 1
  /\ apart' = (apart \/ \E p \in Procs :
                 beat[p] # None \/ pc[p] \in {"probe", "first_stat", "unlink"})
  /\ UNCHANGED <<dir, pc, since, own, proof, foreign, held>>

-----------------------------------------------------------------------------
Contend(p) ==
  \/ Begin(p) \/ Mkdir(p) \/ MkdirAgain(p) \/ Stat(p) \/ Break(p) \/ Rmdir(p)
  \/ ProbeUtimes(p) \/ FirstStat(p)

Hold(p) == Beat(p) \/ Land(p) \/ Release(p) \/ Unlink(p)

Next ==
  \/ \E p \in Procs : Contend(p) \/ Hold(p) \/ Crash(p)
  \/ Tick

Spec == Init /\ [][Next]_vars

-----------------------------------------------------------------------------
(* Properties.                                                             *)

(***************************************************************************)
(* Every variable of the lease stays in its range; a process only knows an *)
(* mtime of its own once it has made a directory.                          *)
(***************************************************************************)
TypeOK ==
  /\ now \in Times
  /\ dir \in Dirs \cup {NoDir}
  /\ pc \in [Procs -> Steps]
  /\ since \in [Procs -> Times]
  /\ own \in [Procs -> SUBSET Mtimes]
  /\ proof \in [Procs -> Times]
  /\ foreign \in [Procs -> Mtimes \cup {None}]
  /\ lockMtime \in [Procs -> Mtimes \cup {None}]
  /\ beat \in [Procs -> Mtimes \cup {None}]
  /\ compromised \in [Procs -> BOOLEAN]
  /\ apart \in BOOLEAN
  /\ \A p \in Procs : own[p] # {} => Created(p)

(***************************************************************************)
(* transaction-lock.ts:243-247: assertValid() passes only in the process   *)
(* that made the lock directory now at the path, however long any process  *)
(* stalled and whoever broke the lease meanwhile; so never in two.         *)
(***************************************************************************)
StolenLeaseFails ==
  \A p \in Procs : Valid(p) => dir.maker = p

(***************************************************************************)
(* The same as long as no process is overtaken between a statSync and its  *)
(* rmdir, a late heartbeat's stat and its utimes, or an mkdir and the      *)
(* first stat: whole heartbeats may be missed, and processes die.          *)
(***************************************************************************)
ValidMeansOwner == ~apart => StolenLeaseFails

(***************************************************************************)
(* transaction-lock.ts:228-236: whoever removes the directory - a release, *)
(* an exit or a stale break - does not remove one whose maker could still  *)
(* pass assertValid(), except its own.                                     *)
(***************************************************************************)
LiveLeaseNeverRemoved ==
  [][\A p \in Procs :
       ~apart' /\ Valid(p) /\ dir' = NoDir => pc'[p] # "held"]_vars

(***************************************************************************)
(* transaction-lock.ts:17-29: the wait of an acquisition outlasts a dead   *)
(* holder: nobody who looks at the directory of a holder that died before  *)
(* the wait began (whose last mtime the probe may have rounded up to the   *)
(* next tick) reports contention.                                          *)
(***************************************************************************)
DeadHolderIsBroken ==
  [][\A p \in Procs :
       /\ Stat(p)
       /\ pc'[p] = "idle" /\ dir.maker = Dead
       => dir.mtime.at > since[p] + 1]_vars

=============================================================================
