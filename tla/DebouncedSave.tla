--------------------------- MODULE DebouncedSave ---------------------------
(***************************************************************************)
(* When one account manager's state reaches the disk: debounced saves,     *)
(* flushes, disposal and the shutdown hook (lib/accounts/persistence.ts,   *)
(* lib/shutdown.ts).                                                       *)
(*                                                                         *)
(* Changes to the in-memory accounts are numbered; what is on disk is      *)
(* known by the last change it reflects.  A save takes its snapshot and    *)
(* its place in the storage mutex when saveToDisk is called, and is merged *)
(* and persisted when it gets to the head.  A settled promise runs all its *)
(* reactions before any timer or new call, so settling is one step.        *)
(***************************************************************************)
EXTENDS Integers, Sequences, FiniteSetsExt

CONSTANTS
  MaxChanges,   \* bound: changes to the in-memory state
  MaxFailures,  \* bound: saves that fail (a full disk, a lost lease)
  MaxCleanups   \* bound: drains of the cleanup queue (signals, beforeExit)

ASSUME SaveAssumption ==
  MaxChanges \in Nat /\ MaxFailures \in Nat /\ MaxCleanups \in Nat

\* Who calls flushPendingSave: the shutdown hook, and the code that reloads
\* or disposes the manager.
Flushers == {"shutdown", "replace"}

Changes == 0 .. MaxChanges
None == 0

VARIABLES
  mem,       \* the last change made in memory
  disk,      \* the last change in the account list on disk
  evidence,  \* the last change whose rate-limit evidence is on disk
  timer,     \* the debounce timer is armed
  queue,     \* saves in the storage mutex, the head being merged first
  write,     \* what the head is persisting, once merged
  pending,   \* pendingSave: the save its promise belongs to, or None
  lastId,    \* saves so far
  flush,     \* each flusher's call
  disposed,  \* the manager has been replaced
  cancelled, \* an external reload cancelled an armed timer
  slot,      \* shutdownHandler is set
  hook,      \* where the handler is: nowhere, queued, or in a running drain
  draining,  \* runCleanup is in flight
  cleanups,  \* drains so far
  failures   \* failed saves so far

vars == <<mem, disk, evidence, timer, queue, write, pending, lastId, flush,
          disposed, cancelled, slot, hook, draining, cleanups, failures>>

\* waiters: doSave calls awaiting this save before they start their own.
Saves == [id : 1 .. MaxChanges, snap : Changes, debounced : BOOLEAN,
          waiters : 0 .. MaxChanges]

\* own: awaiting its own save; pending: awaiting pendingSave.  target: what
\* it was asked to make durable; untracked: pendingSave did not lead to all
\* of it.
Flushes == [phase : {"idle", "own", "pending", "done", "failed"},
            on : 0 .. MaxChanges, target : Changes, untracked : BOOLEAN]

Unwritten == [full |-> FALSE, upto |-> -1]

Init ==
  /\ mem = 0 /\ disk = 0 /\ evidence = 0
  /\ timer = FALSE /\ queue = <<>> /\ write = Unwritten /\ pending = None
  /\ lastId = 0
  /\ flush = [f \in Flushers |-> [phase |-> "idle", on |-> None, target |-> 0,
                               untracked |-> FALSE]]
  /\ disposed = FALSE /\ cancelled = FALSE
  /\ slot = FALSE /\ hook = "none" /\ draining = FALSE /\ cleanups = 0
  /\ failures = 0

-----------------------------------------------------------------------------
(* Saves.                                                                  *)

\* Mutant: the newest save jumps the queue.
NewestFirst(saves, save) == <<save>> \o saves

\* The storage mutex is a chain of promises: first come, first served.
Enqueue(saves, save) == Append(saves, save)

NewSave(id, debounced) ==
  [id |-> id, snap |-> mem, debounced |-> debounced, waiters |-> 0]

\* n doSave calls in a row, each replacing pendingSave by its own save.
StartDebounced(saves, n) ==
  /\ queue' = saves \o [i \in 1 .. n |-> NewSave(lastId + i, TRUE)]
  /\ lastId' = lastId + n

\* doSave: wait for the debounced save in flight, if any, or start at once.
TimerFires ==
  /\ timer
  /\ timer' = FALSE
  /\ IF pending # None
     THEN /\ queue' = [i \in DOMAIN queue |->
                         IF queue[i].id = pending
                         THEN [queue[i] EXCEPT !.waiters = @ + 1] ELSE queue[i]]
          /\ UNCHANGED <<pending, lastId>>
     ELSE StartDebounced(queue, 1) /\ pending' = lastId + 1
  /\ UNCHANGED <<mem, disk, evidence, write, flush, disposed, cancelled, slot, hook,
                 draining, cleanups, failures>>

\* The head's transaction reads the store and decides what to write: a
\* replaced manager contributes only its live rate-limit evidence.
Merge ==
  /\ queue # <<>> /\ write = Unwritten
  /\ write' = IF disposed THEN [full |-> FALSE, upto |-> mem]
                          ELSE [full |-> TRUE, upto |-> Head(queue).snap]
  /\ UNCHANGED <<mem, disk, evidence, timer, queue, pending, lastId, flush, disposed,
                 cancelled, slot, hook, draining, cleanups, failures>>

\* How the flusher's call goes on once the head has settled; `next` is
\* pendingSave at that moment.
Resume(f, ok, next) ==
  IF flush[f].on # Head(queue).id THEN flush[f]
  ELSE IF ~ok THEN [flush[f] EXCEPT !.phase = "failed", !.on = None]
  ELSE IF flush[f].phase = "own" /\ next # None
  THEN [flush[f] EXCEPT !.phase = "pending", !.on = next]
  ELSE [flush[f] EXCEPT !.phase = "done", !.on = None]

\* Mutant: a doSave that waited is not started.
ForgetWaiters(save, ok) == 0

Started(save, ok) == IF ok THEN save.waiters ELSE 0

\* pendingSave once the head has settled and n doSave calls have gone on.
PendingAfter(save, n) ==
  IF n > 0 THEN lastId + n ELSE IF save.debounced THEN None ELSE pending

\* The head's write ends; a failure is logged, and takes the doSave calls
\* that awaited it along.
Settle(ok) ==
  LET save == Head(queue)
      n == Started(save, ok)
      next == PendingAfter(save, n)
  IN
  /\ queue # <<>> /\ write # Unwritten
  /\ IF ok THEN /\ disk' = IF write.full THEN write.upto ELSE disk
                /\ evidence' = write.upto
                /\ UNCHANGED failures
           ELSE /\ failures < MaxFailures /\ failures' = failures + 1
                /\ UNCHANGED <<disk, evidence>>
  /\ write' = Unwritten
  /\ StartDebounced(Tail(queue), n)
  /\ pending' = next
  /\ flush' = [f \in Flushers |-> Resume(f, ok, next)]
  /\ UNCHANGED <<mem, timer, disposed, cancelled, slot, hook, draining, cleanups>>

-----------------------------------------------------------------------------
(* Changes, flushes, disposal.                                             *)

EnsureShutdownFlushRegistered ==
  IF ~slot /\ ~disposed THEN slot' = TRUE /\ hook' = "queued"
                        ELSE UNCHANGED <<slot, hook>>

\* A request changes the accounts and calls saveToDiskDebounced.
Change ==
  /\ mem < MaxChanges
  /\ mem' = mem + 1
  /\ timer' = TRUE
  /\ EnsureShutdownFlushRegistered
  /\ UNCHANGED <<disk, evidence, queue, write, pending, lastId, flush, disposed,
                 cancelled, draining, cleanups, failures>>

DoSaveWaits == \E i \in DOMAIN queue : queue[i].waiters > 0

\* A debounced save is in flight, but the one before it reset pendingSave.
Orphaned == pending = None /\ \E i \in DOMAIN queue : queue[i].debounced

\* What a flush is asked to make durable: everything, if a timer is armed or
\* a doSave is waiting; otherwise what the running debounced saves carry.
Owed ==
  IF timer \/ DoSaveWaits THEN mem
  ELSE Max({0} \cup {queue[i].snap : i \in {j \in DOMAIN queue : queue[j].debounced}})

Flushing(phase, save) ==
  [phase |-> phase, on |-> save, target |-> Owed,
   untracked |-> DoSaveWaits \/ Orphaned]

\* Mutant: a flush only looks at the timer.
FlushWithoutTimer(f) == flush' = [flush EXCEPT ![f] = Flushing("done", None)]

\* With no timer armed, the flush awaits the debounced save in flight.
AwaitPending(f) ==
  flush' = [flush EXCEPT ![f] =
              Flushing(IF pending = None THEN "done" ELSE "pending", pending)]

\* flushPendingSave up to its first await.
CallFlush(f) ==
  IF timer
  THEN /\ timer' = FALSE
       /\ queue' = Enqueue(queue, NewSave(lastId + 1, FALSE))
       /\ lastId' = lastId + 1
       /\ flush' = [flush EXCEPT ![f] = Flushing("own", lastId + 1)]
  ELSE AwaitPending(f) /\ UNCHANGED <<timer, queue, lastId>>

Busy(f) == flush[f].phase \in {"own", "pending"}

\* A reload or disposeRuntime flushes the manager it is about to replace.
Flush ==
  /\ ~Busy("replace")
  /\ CallFlush("replace")
  /\ UNCHANGED <<mem, disk, evidence, write, pending, disposed, cancelled, slot, hook,
                 draining, cleanups, failures>>

DisposeShutdownHandler(externalReload) ==
  /\ disposed' = TRUE
  /\ timer' = (timer /\ ~externalReload)
  /\ cancelled' = (cancelled \/ (timer /\ externalReload))
  /\ slot' = FALSE
  /\ hook' = IF hook = "queued" THEN "none" ELSE hook
  /\ UNCHANGED <<mem, disk, evidence, queue, write, pending, lastId, flush, draining,
                 cleanups, failures>>

-----------------------------------------------------------------------------
(* Shutdown.                                                               *)

\* A signal or beforeExit: the cleanup queue is emptied into a drain.
RunCleanup ==
  /\ ~draining /\ cleanups < MaxCleanups
  /\ cleanups' = cleanups + 1
  /\ draining' = TRUE
  /\ hook' = IF hook = "queued" THEN "draining" ELSE hook
  /\ UNCHANGED <<mem, disk, evidence, timer, queue, write, pending, lastId, flush,
                 disposed, cancelled, slot, failures>>

\* The drain reaches this manager's handler.
RunHandler ==
  /\ draining /\ hook = "draining"
  /\ slot' = FALSE
  /\ hook' = "none"
  /\ CallFlush("shutdown")
  /\ UNCHANGED <<mem, disk, evidence, write, pending, disposed, cancelled, draining,
                 cleanups, failures>>

\* The drain ends when the flush has settled or its 5 s have passed.
EndDrain ==
  /\ draining /\ hook # "draining"
  /\ draining' = FALSE
  /\ UNCHANGED <<mem, disk, evidence, timer, queue, write, pending, lastId, flush,
                 disposed, cancelled, slot, hook, cleanups, failures>>

Next ==
  \/ Change \/ TimerFires \/ Merge \/ Flush
  \/ \E ok \in BOOLEAN : Settle(ok)
  \/ \E external \in BOOLEAN : DisposeShutdownHandler(external)
  \/ RunCleanup \/ RunHandler \/ EndDrain

Spec == Init /\ [][Next]_vars

\* Timers fire and storage transactions end; they may fail.
Fairness == WF_vars(TimerFires) /\ WF_vars(Merge) /\ WF_vars(\E ok \in BOOLEAN : Settle(ok))

FairSpec == Spec /\ Fairness

-----------------------------------------------------------------------------
(* Properties.                                                             *)

(***************************************************************************)
(* The scheduler's variables stay in their ranges, and pendingSave always  *)
(* names a debounced save that has not settled.                            *)
(***************************************************************************)
TypeOK ==
  /\ mem \in Changes /\ disk \in Changes /\ evidence \in Changes
  /\ timer \in BOOLEAN /\ queue \in Seq(Saves)
  /\ write \in [full : BOOLEAN, upto : Changes \cup {-1}]
  /\ lastId \in 0 .. MaxChanges
  /\ flush \in [Flushers -> Flushes]
  /\ {disposed, cancelled, slot, draining} \subseteq BOOLEAN
  /\ hook \in {"none", "queued", "draining"}
  /\ cleanups \in 0 .. MaxCleanups /\ failures \in 0 .. MaxFailures
  /\ pending # None => \E i \in DOMAIN queue : queue[i].id = pending /\ queue[i].debounced

(***************************************************************************)
(* persistence.ts:507-513: when flushPendingSave resolves, every change    *)
(* whose debounced save was pending when it was called is on disk, unless  *)
(* the manager has been replaced.                                          *)
(***************************************************************************)
FlushCoversPending ==
  \A f \in Flushers :
    flush[f].phase = "done" /\ ~disposed => disk >= flush[f].target

(***************************************************************************)
(* What holds of it: a flush covers everything that was pending, whatever  *)
(* else is saved or flushed meanwhile, unless debounced saves had piled up *)
(* behind one another when it was called.                                  *)
(***************************************************************************)
FlushCoversTracked ==
  \A f \in Flushers :
    flush[f].phase = "done" /\ ~disposed /\ ~flush[f].untracked => disk >= flush[f].target

(***************************************************************************)
(* persistence.ts:476-491: saves that overlap, flushes among them, never   *)
(* put an older snapshot over a newer one.                                 *)
(***************************************************************************)
DiskNeverRollsBack == [][disk' >= disk /\ evidence' >= evidence]_<<disk, evidence>>

(***************************************************************************)
(* persistence.ts:507-524: whenever a save is waiting for its timer, a     *)
(* shutdown hook will flush it, also after an earlier drain used the hook  *)
(* up, unless the manager has been replaced.                               *)
(***************************************************************************)
ArmedTimerIsHooked == timer /\ ~disposed => hook # "none"

(***************************************************************************)
(* No pending save is forgotten: neither by a flush, nor by a shutdown     *)
(* whose hook an earlier drain has used up.                                *)
(***************************************************************************)
PendingSafe == TypeOK /\ ArmedTimerIsHooked /\ FlushCoversTracked

(***************************************************************************)
(* persistence.ts:461-469: every change reaches the disk, its rate-limit   *)
(* evidence even after the manager was replaced, unless an external reload *)
(* cancelled the timer or a save failed.                                   *)
(***************************************************************************)
ChangesReachDisk ==
  \A n \in 1 .. MaxChanges :
    (mem >= n) ~> (evidence >= n \/ cancelled \/ failures > 0)

=============================================================================
