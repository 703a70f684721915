---------------------------- MODULE AccountMerge ----------------------------
(***************************************************************************)
(* What a save writes: several account managers, in several processes,     *)
(* merge their in-memory copy of one account into the shared account list  *)
(* (AccountPersistence.saveToDisk, lib/accounts/persistence.ts) while      *)
(* refreshes, logins, tools and the account menu change the same record    *)
(* under the storage lock.                                                 *)
(*                                                                         *)
(* Refresh tokens are numbered in the order the provider issues them.      *)
(* Clock values are positive; 0 stands for a missing time stamp.           *)
(***************************************************************************)
EXTENDS Integers, FiniteSets, FiniteSetsExt

CONSTANTS
  Managers,  \* account managers, each with its copy of the account
  MaxTime,   \* bound: the clock
  Budgets,   \* bounds: changes of each kind in a behaviour, one is chosen
  Hazards    \* which of AllHazards the environment may produce

AllHazards ==
  {"stale_login",         \* a login while managers still hold the old account
   "rotation_in_window"}  \* a rotation before another's is in its memory

Kinds == {"credential", "quota", "lifecycle"}

ASSUME MergeAssumption ==
  /\ MaxTime \in Nat \ {0}
  /\ Budgets \subseteq [Kinds -> Nat]
  /\ Hazards \subseteq AllHazards

None == 0
NoToken == -1

\* When a subscription window may reset.
Resets == 2 .. MaxTime + 1

VARIABLES
  now,        \* the clock the processes share
  issued,     \* last refresh token issued
  present,    \* the account is in the list on disk
  disk,       \* its record there
  mem,        \* each manager's copy
  marked,     \* pendingDisabledAccounts: token that failed when disabled
  adopting,   \* a refresh result that updateFromAuth has yet to see
  retired,    \* the manager has been replaced
  superseded, \* externalReloadSnapshot: the stamp it then held
  save,       \* each manager's saveToDisk
  lastClear,  \* ghost: when a running block was last cleared
  left        \* changes left of each kind

vars == <<now, issued, present, disk, mem, marked, adopting, retired, superseded,
          save, lastClear, left>>

\* until, at: the quota block and when it was recorded; cleared: the
\* tombstone of a cleared block.
Blank(t) == [token |-> t, stamp |-> None, enabled |-> TRUE,
             until |-> None, at |-> None, cleared |-> None]

NoStamp == [until |-> -1, at |-> -1]
StampOf(r) == [until |-> r.until, at |-> r.at]

Idle == [phase |-> "idle", snap |-> Blank(0), out |-> Blank(0), keep |-> TRUE,
         full |-> FALSE]

Init ==
  /\ now = 1 /\ issued = 0
  /\ present = TRUE /\ disk = Blank(0)
  /\ mem = [m \in Managers |-> Blank(0)]
  /\ marked = [m \in Managers |-> NoToken]
  /\ adopting = [m \in Managers |-> NoToken]
  /\ retired = [m \in Managers |-> FALSE]
  /\ superseded = [m \in Managers |-> NoStamp]
  /\ save = [m \in Managers |-> Idle]
  /\ lastClear = None
  /\ left \in Budgets

-----------------------------------------------------------------------------
(* The merge.                                                              *)

\* applyDiskQuotaClearTombstones: a block no newer than the clear goes.
ApplyTombstone(mine) ==
  IF disk.cleared # None /\ mine.until # None /\ mine.at <= disk.cleared
  THEN [mine EXCEPT !.until = None, !.at = None, !.cleared = disk.cleared]
  ELSE mine

\* Mutant: the block on disk is not taken over.
KeepMyBlock(mine) == mine

\* adoptLongerDiskRateLimits: an active block that runs longer on disk.
AdoptLongerBlock(mine) ==
  IF disk.until > now /\ disk.until > mine.until
  THEN [mine EXCEPT !.until = disk.until, !.at = disk.at, !.cleared = None]
  ELSE mine

\* Mutant: credentials are last-writer-wins like the rest.
NeverNewer(mine) == FALSE

DiskIsNewer(mine) == disk.token # mine.token /\ disk.stamp > mine.stamp

\* adoptNewerDiskCredentials.
AdoptNewerCredentials(mine) ==
  IF DiskIsNewer(mine) THEN [mine EXCEPT !.token = disk.token, !.stamp = disk.stamp]
                       ELSE mine

\* Enabled comes from disk, unless this manager disabled the account for the
\* very token the record still has.
EnabledAfter(m) == marked[m] # disk.token /\ disk.enabled

FullMerge(m) ==
  [AdoptNewerCredentials(AdoptLongerBlock(ApplyTombstone(save[m].snap)))
     EXCEPT !.enabled = EnabledAfter(m)]

\* Mutant: the tombstone stays beside the newer block.
CarriedBesideTombstone(mine) == [disk EXCEPT !.until = mine.until, !.at = mine.at]

Carried(mine) == [disk EXCEPT !.until = mine.until, !.at = mine.at, !.cleared = None]

\* mergeVolatileState: the quota block of a replaced manager.
VolatileMerge(m) ==
  IF /\ StampOf(mem[m]) # superseded[m]
     /\ mem[m].until > now /\ mem[m].until > disk.until
     /\ disk.cleared = None \/ mem[m].at > disk.cleared
  THEN Carried(mem[m]) ELSE disk

-----------------------------------------------------------------------------
(* The three parts of a save: the snapshot and the wait for the lock, the  *)
(* merge under the lock, the write.                                        *)

Locked == \E m \in Managers : save[m].phase = "writing"

CallSave(m) ==
  /\ save[m].phase = "idle"
  /\ save' = [save EXCEPT ![m] = [Idle EXCEPT !.phase = "queued", !.snap = mem[m]]]
  /\ UNCHANGED <<now, issued, present, disk, mem, marked, adopting, retired,
                 superseded, lastClear, left>>

\* Mutant: membership is this manager's.
MembershipFromMemory == TRUE

Membership == present

Merge(m) ==
  /\ save[m].phase = "queued" /\ ~Locked
  /\ save' = [save EXCEPT ![m].phase = "writing",
                          ![m].out = IF retired[m] THEN VolatileMerge(m) ELSE FullMerge(m),
                          ![m].keep = Membership,
                          ![m].full = ~retired[m]]
  /\ mem' = IF present /\ ~retired[m] /\ DiskIsNewer(save[m].snap)
            THEN [mem EXCEPT ![m].token = disk.token, ![m].stamp = disk.stamp]
            ELSE mem
  /\ UNCHANGED <<now, issued, present, disk, marked, adopting, retired, superseded,
                 lastClear, left>>

Persist(m) ==
  /\ save[m].phase = "writing"
  /\ disk' = IF save[m].keep THEN save[m].out ELSE disk
  /\ present' = save[m].keep
  /\ marked' = IF save[m].full THEN [marked EXCEPT ![m] = NoToken] ELSE marked
  /\ save' = [save EXCEPT ![m] = Idle]
  /\ UNCHANGED <<now, issued, mem, adopting, retired, superseded, lastClear, left>>

-----------------------------------------------------------------------------
(* Credentials.                                                            *)

Spend(kind) == left[kind] > 0 /\ left' = [left EXCEPT ![kind] = @ - 1]

\* nextRotationTimestamp, and updateFromAuth's own stamp.
NextStamp(time, stamp) == Max({time, stamp + 1})

\* An exchange takes time, and an access token outlives the moment between
\* the commit on disk and updateFromAuth, unless a tool forces a refresh.
MayExchange ==
  /\ "rotation_in_window" \in Hazards \/ \A m \in Managers : adopting[m] = NoToken
  /\ now < MaxTime

\* coordinateRefresh's commit of a rotated token.
Exchange ==
  /\ MayExchange
  /\ now' = now + 1
  /\ issued' = issued + 1
  /\ disk' = [disk EXCEPT !.token = issued + 1, !.stamp = NextStamp(now + 1, @)]

\* A request refreshes: it adopts another process's rotation or makes one.
Refresh(m) ==
  /\ present /\ ~Locked /\ adopting[m] = NoToken
  /\ Spend("credential")
  /\ \/ /\ mem[m].token # disk.token
        /\ adopting' = [adopting EXCEPT ![m] = disk.token]
        /\ UNCHANGED <<now, issued, disk>>
     \/ Exchange /\ adopting' = [adopting EXCEPT ![m] = issued']
  /\ UNCHANGED <<present, mem, marked, retired, superseded, save, lastClear>>

\* updateFromAuth.
Adopt(m) ==
  /\ adopting[m] # NoToken
  /\ mem' = IF mem[m].token = adopting[m] THEN mem
            ELSE [mem EXCEPT ![m].token = adopting[m],
                             ![m].stamp = NextStamp(now, @)]
  /\ adopting' = [adopting EXCEPT ![m] = NoToken]
  /\ UNCHANGED <<now, issued, present, disk, marked, retired, superseded, save,
                 lastClear, left>>

\* A tool refreshes the stored token.
ToolRefresh ==
  /\ present /\ ~Locked
  /\ Spend("credential")
  /\ Exchange
  /\ UNCHANGED <<present, mem, marked, adopting, retired, superseded, save, lastClear>>

\* persistAccountPool: the record gets the login's token and keeps the rest,
\* its rotation stamp included.
Login ==
  /\ ~Locked
  /\ "stale_login" \in Hazards \/ \A m \in Managers : retired[m]
  /\ Spend("credential")
  /\ issued' = issued + 1
  /\ disk' = IF present THEN [disk EXCEPT !.token = issued + 1, !.enabled = TRUE]
                        ELSE Blank(issued + 1)
  /\ present' = TRUE
  /\ UNCHANGED <<now, mem, marked, adopting, retired, superseded, save, lastClear>>

\* Repeated auth failures: the account is disabled, its token remembered.
Disable(m) ==
  /\ mem[m].enabled
  /\ Spend("credential")
  /\ mem' = [mem EXCEPT ![m].enabled = FALSE]
  /\ marked' = [marked EXCEPT ![m] = mem[m].token]
  /\ UNCHANGED <<now, issued, present, disk, adopting, retired, superseded, save,
                 lastClear>>

\* codex-enable and the account menu.
SetEnabled(enabled) ==
  /\ present /\ ~Locked
  /\ Spend("credential")
  /\ disk' = [disk EXCEPT !.enabled = enabled]
  /\ UNCHANGED <<now, issued, present, mem, marked, adopting, retired, superseded,
                 save, lastClear>>

Remove ==
  /\ present /\ ~Locked
  /\ Spend("lifecycle")
  /\ present' = FALSE
  /\ lastClear' = None
  /\ UNCHANGED <<now, issued, disk, mem, marked, adopting, retired, superseded, save>>

-----------------------------------------------------------------------------
(* Quota blocks.                                                           *)

\* markQuotaExhausted: a response reported an exhausted window.
MarkQuota(m, reset) ==
  /\ reset > now /\ reset > mem[m].until
  /\ Spend("quota")
  /\ mem' = [mem EXCEPT ![m].until = reset, ![m].at = now, ![m].cleared = None]
  /\ UNCHANGED <<now, issued, present, disk, marked, adopting, retired, superseded,
                 save, lastClear>>

\* clearExpiredQuotaExhaustion, run on every selection.
ExpireQuota(m) ==
  /\ mem[m].until # None /\ mem[m].until <= now
  /\ mem' = [mem EXCEPT ![m].until = None, ![m].at = None]
  /\ UNCHANGED <<now, issued, present, disk, marked, adopting, retired, superseded,
                 save, lastClear, left>>

\* A tool found the account usable and clears its stored block.
ClearQuota ==
  /\ present /\ ~Locked /\ disk.until # None
  /\ Spend("quota")
  /\ disk' = [disk EXCEPT !.until = None, !.at = None,
                          !.cleared = IF disk.until > now THEN now ELSE @]
  /\ lastClear' = IF disk.until > now THEN now ELSE lastClear
  /\ UNCHANGED <<now, issued, present, mem, marked, adopting, retired, superseded, save>>

-----------------------------------------------------------------------------
(* Managers and time.                                                      *)

\* disposeShutdownHandler: a reload (of an external change) or an
\* invalidation; requests in flight go on using the manager.
Retire(m, external) ==
  /\ ~retired[m]
  /\ Spend("lifecycle")
  /\ retired' = [retired EXCEPT ![m] = TRUE]
  /\ superseded' = IF external THEN [superseded EXCEPT ![m] = StampOf(mem[m])]
                               ELSE superseded
  /\ UNCHANGED <<now, issued, present, disk, mem, marked, adopting, save, lastClear>>

\* A manager is loaded from disk in the place of one no request uses any
\* more, or of one whose process died.
Load(m) ==
  /\ present
  /\ Spend("lifecycle")
  /\ mem' = [mem EXCEPT ![m] = disk]
  /\ marked' = [marked EXCEPT ![m] = NoToken]
  /\ adopting' = [adopting EXCEPT ![m] = NoToken]
  /\ retired' = [retired EXCEPT ![m] = FALSE]
  /\ superseded' = [superseded EXCEPT ![m] = NoStamp]
  /\ save' = [save EXCEPT ![m] = Idle]
  /\ UNCHANGED <<now, issued, present, disk, lastClear>>

Tick ==
  /\ now < MaxTime
  /\ now' = now + 1
  /\ UNCHANGED <<issued, present, disk, mem, marked, adopting, retired, superseded,
                 save, lastClear, left>>

-----------------------------------------------------------------------------
ManagerStep(m) ==
  \/ CallSave(m) \/ Merge(m) \/ Persist(m)
  \/ Refresh(m) \/ Adopt(m) \/ Disable(m)
  \/ \E reset \in Resets : MarkQuota(m, reset)
  \/ ExpireQuota(m)
  \/ \E external \in BOOLEAN : Retire(m, external)
  \/ Load(m)

Next ==
  \/ \E m \in Managers : ManagerStep(m)
  \/ ToolRefresh \/ Login \/ Remove \/ ClearQuota \/ Tick
  \/ \E enabled \in BOOLEAN : SetEnabled(enabled)

Spec == Init /\ [][Next]_vars

-----------------------------------------------------------------------------
(* Properties.                                                             *)

Records == [token : Nat, stamp : Nat, enabled : BOOLEAN, until : Nat, at : Nat,
            cleared : Nat]

Stamps == [until : Nat, at : Nat] \cup {NoStamp}

(***************************************************************************)
(* Every copy of the account is a record, and at most one save is in the   *)
(* storage transaction at a time.                                          *)
(***************************************************************************)
TypeOK ==
  /\ now \in 1 .. MaxTime /\ issued \in Nat /\ lastClear \in Nat
  /\ present \in BOOLEAN /\ disk \in Records
  /\ mem \in [Managers -> Records]
  /\ marked \in [Managers -> Nat \cup {NoToken}]
  /\ adopting \in [Managers -> Nat \cup {NoToken}]
  /\ retired \in [Managers -> BOOLEAN]
  /\ superseded \in [Managers -> Stamps]
  /\ save \in [Managers -> [phase : {"idle", "queued", "writing"}, snap : Records,
                            out : Records, keep : BOOLEAN, full : BOOLEAN]]
  /\ left \in [Kinds -> Nat]
  /\ \A m, n \in Managers :
       save[m].phase = "writing" /\ save[n].phase = "writing" => m = n

(***************************************************************************)
(* persistence.ts:98-109: no save, however stale its snapshot, replaces    *)
(* the stored refresh token by one issued before it.                       *)
(***************************************************************************)
CredentialsNeverRegress ==
  [][present /\ present' => disk'.token >= disk.token]_vars

(***************************************************************************)
(* persistence.ts:107-109: an account another process removed is brought   *)
(* back by a login only, never by a save of a manager that still holds it. *)
(***************************************************************************)
RemovedStaysRemoved == [][~present /\ present' => issued' > issued]_vars

(***************************************************************************)
(* persistence.ts:145-159: a save leaves a disabled account disabled, and  *)
(* disables one only for the very token that failed, so that it undoes     *)
(* neither an operator's choice nor a login that repaired the account.     *)
(***************************************************************************)
SavesRespectEnabled ==
  [][\A m \in Managers : Persist(m) /\ present =>
       \/ disk'.enabled = disk.enabled
       \/ disk.enabled /\ disk.token = marked[m]]_vars

(***************************************************************************)
(* persistence.ts:324-343 (issue #218): no save, of a current or of a      *)
(* replaced manager, shortens a quota block that is still running.         *)
(***************************************************************************)
BlockNeverShortened ==
  [][\A m \in Managers : Persist(m) /\ present /\ disk.until > now =>
       disk'.until >= disk.until]_vars

(***************************************************************************)
(* persistence.ts:275-297: a save that meets a tombstone puts no block in  *)
(* its place that is as old as the clear.                                  *)
(***************************************************************************)
TombstoneOutranksOldBlock ==
  [][\A m \in Managers : Persist(m) /\ present /\ disk.cleared # None =>
       disk'.until = None \/ disk'.at > disk.cleared]_vars

(***************************************************************************)
(* persistence.ts:359-361: a record never carries a block and a tombstone  *)
(* at once, neither in memory nor on disk.                                 *)
(***************************************************************************)
BlockOrTombstone ==
  \A r \in {disk} \cup {mem[m] : m \in Managers} : r.until = None \/ r.cleared = None

(***************************************************************************)
(* What is checked together: the records are well formed; who is in the    *)
(* pool and enabled is decided by the disk, whatever a stale manager       *)
(* holds; and a save respects the blocks and the clears it meets there.    *)
(***************************************************************************)
RecordsSafe == TypeOK /\ BlockOrTombstone

MembershipRespected == RemovedStaysRemoved /\ SavesRespectEnabled

BlocksRespected == BlockNeverShortened /\ TombstoneOutranksOldBlock

(***************************************************************************)
(* persistence.ts:290-292: "A stamp at least as old as the clear stays    *)
(* cleared", whichever managers save in between.                          *)
(***************************************************************************)
ClearedStaysCleared == present /\ disk.until > now => disk.at > lastClear

=============================================================================
