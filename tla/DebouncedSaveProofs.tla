------------------------ MODULE DebouncedSaveProofs ------------------------
(***************************************************************************)
(* Two reasons no change is lost: saves settle in the order of their       *)
(* snapshots, so the disk never rolls back, and an armed timer always has  *)
(* a shutdown hook behind it.                                              *)
(***************************************************************************)
EXTENDS DebouncedSave, SequenceTheorems, FiniteSetTheorems, TLAPS

Queued == [id : Int, snap : Nat, debounced : BOOLEAN, waiters : Nat]

SaveTypes ==
  /\ mem \in Nat /\ disk \in Nat /\ evidence \in Nat /\ lastId \in Nat
  /\ queue \in Seq(Queued)
  /\ write \in [full : BOOLEAN, upto : Int]
  /\ disposed \in BOOLEAN

\* A queue whose snapshots ascend from `oldest` to `newest`.
Ascending(saves, oldest, newest) ==
  /\ \A i \in 1 .. Len(saves) : oldest <= saves[i].snap /\ saves[i].snap <= newest
  /\ \A i, j \in 1 .. Len(saves) : i <= j => saves[i].snap <= saves[j].snap

\* Until the manager is replaced, evidence is written by full saves alone.
EvidenceInOrder ==
  /\ evidence <= mem
  /\ ~disposed => evidence <= disk

\* What is being written is newer than what is there.
WriteInOrder ==
  write # Unwritten =>
    /\ queue # <<>>
    /\ evidence <= write.upto /\ write.upto <= mem /\ 0 <= write.upto
    /\ write.full => write.upto = queue[1].snap
    /\ ~disposed => write.full

OrderInv ==
  /\ SaveTypes
  /\ disk <= mem
  /\ Ascending(queue, disk, mem)
  /\ EvidenceInOrder
  /\ WriteInOrder

NoRollBack == disk' >= disk /\ evidence' >= evidence

LEMMA SaveInQueue ==
  ASSUME NEW saves \in Seq(Queued), NEW i \in 1 .. Len(saves)
  PROVE  saves[i] \in Queued /\ saves[i].snap \in Nat
<1>1. saves[i] \in Queued
  BY ElementOfSeq
<1> QED  BY <1>1 DEF Queued

\* A function on 1 .. n with saves as values is a queue of n saves.
LEMMA QueueOf ==
  ASSUME NEW n \in Nat, NEW saves \in [1 .. n -> Queued]
  PROVE  saves \in Seq(Queued) /\ Len(saves) = n
<1>1. saves \in Seq(Queued)
  BY SeqDef
<1>2. DOMAIN saves = 1 .. Len(saves) /\ DOMAIN saves = 1 .. n /\ Len(saves) \in Nat
  BY <1>1, LenProperties
<1> QED  BY <1>1, <1>2

LEMMA OneMoreWaiter ==
  ASSUME NEW save \in Queued
  PROVE  /\ [save EXCEPT !.waiters = @ + 1] \in Queued
         /\ [save EXCEPT !.waiters = @ + 1].snap = save.snap
BY DEF Queued

-----------------------------------------------------------------------------
(* New saves go behind the others, with the newest snapshot.               *)

\* A queue that ascends up to `newest` still does with more saves of `newest`.
LEMMA GrownAtEnd ==
  ASSUME NEW oldest \in Nat, NEW newest \in Nat, oldest <= newest,
         NEW saves \in Seq(Queued), NEW grown \in Seq(Queued),
         Len(grown) >= Len(saves), Ascending(saves, oldest, newest),
         \A i \in 1 .. Len(saves) : grown[i] = saves[i],
         \A i \in Len(saves) + 1 .. Len(grown) : grown[i].snap = newest
  PROVE  Ascending(grown, oldest, newest)
<1>1. Len(saves) \in Nat /\ Len(grown) \in Nat
  BY LenProperties
<1>2. \A i \in 1 .. Len(grown) : oldest <= grown[i].snap /\ grown[i].snap <= newest
  <2>1. TAKE i \in 1 .. Len(grown)
  <2>2. CASE i \in 1 .. Len(saves) BY <2>2 DEF Ascending
  <2>3. CASE i \in Len(saves) + 1 .. Len(grown) BY <2>3
  <2> QED  BY <1>1, <2>2, <2>3
<1>3. \A i, j \in 1 .. Len(grown) : i <= j => grown[i].snap <= grown[j].snap
  <2>1. TAKE i, j \in 1 .. Len(grown)
  <2>2. HAVE i <= j
  <2>3. CASE j \in 1 .. Len(saves)
    <3>1. i \in 1 .. Len(saves)
      BY <1>1, <2>2, <2>3
    <3> QED  BY <2>2, <2>3, <3>1 DEF Ascending
  <2>4. CASE j \in Len(saves) + 1 .. Len(grown) BY <1>2, <2>4
  <2> QED  BY <1>1, <2>3, <2>4
<1> QED  BY <1>2, <1>3 DEF Ascending

\* Starting n saves keeps the queue ascending (persistence.ts:476-491).
LEMMA StartedLast ==
  ASSUME NEW saves \in Seq(Queued), NEW n \in Nat, NEW oldest \in Nat,
         mem \in Nat, lastId \in Nat, oldest <= mem,
         Ascending(saves, oldest, mem), StartDebounced(saves, n)
  PROVE  /\ queue' \in Seq(Queued) /\ lastId' \in Nat
         /\ Len(queue') = Len(saves) + n
         /\ \A i \in 1 .. Len(saves) : queue'[i] = saves[i]
         /\ Ascending(queue', oldest, mem)
<1> DEFINE new == [i \in 1 .. n |-> NewSave(lastId + i, TRUE)]
<1>1. \A i \in 1 .. n : new[i] \in Queued /\ new[i].snap = mem
  BY DEF NewSave, Queued
<1>2. new \in Seq(Queued) /\ Len(new) = n
  <2>1. new \in [1 .. n -> Queued]
    BY <1>1
  <2> QED  BY <2>1, QueueOf
<1>3. queue' = saves \o new
  BY DEF StartDebounced
<1> HIDE DEF new
<1>4. queue' \in Seq(Queued) /\ Len(queue') = Len(saves) + n
  BY <1>2, <1>3, ConcatProperties
<1>5. \A i \in 1 .. Len(saves) : queue'[i] = saves[i]
  BY <1>2, <1>3, ConcatProperties
<1>6. \A i \in Len(saves) + 1 .. Len(saves) + n : queue'[i].snap = mem
  <2>1. TAKE i \in Len(saves) + 1 .. Len(saves) + n
  <2>2. queue'[i] = new[i - Len(saves)] /\ i - Len(saves) \in 1 .. n
    BY <1>2, <1>3
  <2> QED  BY <1>1, <2>2
<1>7. Ascending(queue', oldest, mem)
  BY <1>4, <1>5, <1>6, GrownAtEnd, LenProperties
<1>8. lastId' \in Nat
  BY DEF StartDebounced
<1> QED  BY <1>4, <1>5, <1>7, <1>8

\* So does the save of a flush (persistence.ts:529-547).
LEMMA FlushedLast ==
  ASSUME OrderInv, NEW f, CallFlush(f)
  PROVE  /\ queue' \in Seq(Queued) /\ lastId' \in Nat
         /\ Len(queue') >= Len(queue)
         /\ \A i \in 1 .. Len(queue) : queue'[i] = queue[i]
         /\ Ascending(queue', disk, mem)
<1> USE DEF OrderInv, SaveTypes
<1>1. CASE timer
  <2> DEFINE save == NewSave(lastId + 1, FALSE)
  <2>1. save \in Queued /\ save.snap = mem
    BY DEF NewSave, Queued
  <2>2. queue' = Append(queue, save) /\ lastId' = lastId + 1
    BY <1>1 DEF CallFlush, Enqueue
  <2> HIDE DEF save
  <2>3. /\ queue' \in Seq(Queued) /\ Len(queue') = Len(queue) + 1
        /\ queue'[Len(queue) + 1] = save
        /\ \A i \in 1 .. Len(queue) : queue'[i] = queue[i]
    BY <2>1, <2>2
  <2>4. \A i \in Len(queue) + 1 .. Len(queue') : queue'[i].snap = mem
    BY <2>1, <2>3, LenProperties
  <2>5. Ascending(queue', disk, mem)
    BY <2>3, <2>4, GrownAtEnd, LenProperties
  <2> QED  BY <2>2, <2>3, <2>5
<1>2. CASE ~timer BY <1>2 DEF CallFlush
<1> QED  BY <1>1, <1>2

-----------------------------------------------------------------------------
(* Every action keeps the order and rolls nothing back.                    *)

LEMMA InitInOrder == Init => OrderInv
<1> SUFFICES ASSUME Init PROVE OrderInv
  OBVIOUS
<1>1. SaveTypes
  <2>1. queue \in Seq(Queued)
    BY EmptySeq DEF Init
  <2>2. write \in [full : BOOLEAN, upto : Int]
    BY DEF Init, Unwritten
  <2>3. mem = 0 /\ disk = 0 /\ evidence = 0 /\ lastId = 0 /\ disposed = FALSE
    BY DEF Init
  <2> QED  BY <2>1, <2>2, <2>3 DEF SaveTypes
<1>2. Ascending(queue, disk, mem)
  BY DEF Init, Ascending
<1>3. EvidenceInOrder /\ WriteInOrder
  BY DEF Init, EvidenceInOrder, WriteInOrder
<1> QED  BY <1>1, <1>2, <1>3 DEF Init, OrderInv

\* A write that is under way stays the write of the head.
LEMMA WriteStays ==
  ASSUME OrderInv, SaveTypes', Len(queue') >= Len(queue),
         \A i \in 1 .. Len(queue) : queue'[i].snap = queue[i].snap,
         mem' \in Nat, mem' >= mem,
         UNCHANGED <<write, evidence>>, disposed => disposed'
  PROVE  WriteInOrder'
<1> USE DEF OrderInv, SaveTypes
<1>1. SUFFICES ASSUME write # Unwritten
      PROVE  /\ queue' # <<>>
             /\ evidence <= write.upto /\ write.upto <= mem' /\ 0 <= write.upto
             /\ write.full => write.upto = queue'[1].snap
             /\ ~disposed' => write.full
  BY DEF WriteInOrder, Unwritten
<1>2. queue # <<>> /\ Len(queue) >= 1
  BY <1>1 DEF WriteInOrder
<1>3. queue' # <<>> /\ queue'[1].snap = queue[1].snap
  BY <1>2
<1> QED  BY <1>1, <1>2, <1>3 DEF WriteInOrder

\* Whatever only adds saves at the end keeps the order.
LEMMA AddedLast ==
  ASSUME OrderInv, queue' \in Seq(Queued), lastId' \in Nat,
         Len(queue') >= Len(queue),
         \A i \in 1 .. Len(queue) : queue'[i].snap = queue[i].snap,
         Ascending(queue', disk, mem),
         UNCHANGED <<mem, disk, evidence, write, disposed>>
  PROVE  OrderInv' /\ NoRollBack
<1> USE DEF OrderInv, SaveTypes
<1>1. SaveTypes'
  OBVIOUS
<1>2. WriteInOrder'
  BY <1>1, WriteStays
<1>3. Ascending(queue', disk', mem') /\ EvidenceInOrder'
  BY DEF Ascending, EvidenceInOrder
<1>4. disk' <= mem' /\ NoRollBack
  BY DEF NoRollBack
<1> QED  BY <1>1, <1>2, <1>3, <1>4 DEF Ascending

LEMMA OrderKept == OrderInv /\ [Next]_vars => OrderInv' /\ NoRollBack
<1> SUFFICES ASSUME OrderInv, [Next]_vars PROVE OrderInv' /\ NoRollBack
  OBVIOUS
<1> USE DEF OrderInv, SaveTypes
<1>1. CASE TimerFires
  <2>1. CASE pending # None
    <3>1. queue' = [i \in DOMAIN queue |->
                      IF queue[i].id = pending
                      THEN [queue[i] EXCEPT !.waiters = @ + 1] ELSE queue[i]]
      BY <1>1, <2>1 DEF TimerFires
    <3>2. \A i \in 1 .. Len(queue) :
            /\ queue'[i] \in Queued
            /\ queue'[i].snap = queue[i].snap
      <4>1. TAKE i \in 1 .. Len(queue)
      <4>2. queue[i] \in Queued
        BY SaveInQueue
      <4>3. queue'[i] = IF queue[i].id = pending
                        THEN [queue[i] EXCEPT !.waiters = @ + 1] ELSE queue[i]
        BY <3>1, LenProperties
      <4> QED  BY <4>2, <4>3, OneMoreWaiter
    <3>3. queue' \in Seq(Queued) /\ Len(queue') = Len(queue)
      <4>1. queue' \in [1 .. Len(queue) -> Queued]
        BY <3>1, <3>2, LenProperties
      <4> QED  BY <4>1, QueueOf
    <3>4. Ascending(queue', disk, mem)
      BY <3>2, <3>3 DEF Ascending
    <3>5. lastId' \in Nat /\ UNCHANGED <<mem, disk, evidence, write, disposed>>
      BY <1>1, <2>1 DEF TimerFires
    <3> QED  BY <3>2, <3>3, <3>4, <3>5, AddedLast
  <2>2. CASE pending = None
    <3>1. StartDebounced(queue, 1) /\ UNCHANGED <<mem, disk, evidence, write, disposed>>
      BY <1>1, <2>2 DEF TimerFires
    <3>2. /\ queue' \in Seq(Queued) /\ lastId' \in Nat
          /\ Len(queue') = Len(queue) + 1
          /\ \A i \in 1 .. Len(queue) : queue'[i] = queue[i]
          /\ Ascending(queue', disk, mem)
      BY <3>1, StartedLast
    <3> QED  BY <3>1, <3>2, AddedLast
  <2> QED  BY <2>1, <2>2
<1>2. CASE Merge
  <2>1. /\ queue # <<>> /\ UNCHANGED <<mem, disk, evidence, queue, lastId, disposed>>
        /\ write' = IF disposed THEN [full |-> FALSE, upto |-> mem]
                                ELSE [full |-> TRUE, upto |-> Head(queue).snap]
    BY <1>2 DEF Merge
  <2>2. Len(queue) >= 1 /\ Head(queue) = queue[1] /\ queue[1] \in Queued
    BY <2>1
  <2>3. disk <= queue[1].snap /\ queue[1].snap <= mem /\ queue[1].snap \in Nat
    BY <2>2 DEF Ascending, Queued
  <2>4. SaveTypes'
    BY <2>1, <2>2, <2>3
  <2>5. WriteInOrder'
    BY <2>1, <2>2, <2>3 DEF WriteInOrder, EvidenceInOrder
  <2> QED  BY <2>1, <2>4, <2>5 DEF Ascending, EvidenceInOrder, NoRollBack
<1>3. CASE Flush
  <2>1. CallFlush("replace") /\ UNCHANGED <<mem, disk, evidence, write, disposed>>
    BY <1>3 DEF Flush
  <2> QED  BY <2>1, FlushedLast, AddedLast
<1>4. CASE RunHandler
  <2>1. CallFlush("shutdown") /\ UNCHANGED <<mem, disk, evidence, write, disposed>>
    BY <1>4 DEF RunHandler
  <2> QED  BY <2>1, FlushedLast, AddedLast
<1>5. ASSUME NEW ok \in BOOLEAN, Settle(ok) PROVE OrderInv' /\ NoRollBack
  <2> DEFINE rest == Tail(queue)
             n == Started(Head(queue), ok)
  <2>1. /\ queue # <<>> /\ write # Unwritten /\ write' = Unwritten
        /\ StartDebounced(rest, n)
        /\ UNCHANGED <<mem, disposed>>
        /\ ok => disk' = (IF write.full THEN write.upto ELSE disk)
                 /\ evidence' = write.upto
        /\ ~ok => UNCHANGED <<disk, evidence>>
    BY <1>5 DEF Settle
  <2>2. Len(queue) >= 1 /\ Head(queue) = queue[1] /\ queue[1] \in Queued
    BY <2>1
  <2>3. n \in Nat
    BY <2>2 DEF Started, Queued
  <2>4. /\ rest \in Seq(Queued) /\ Len(rest) = Len(queue) - 1
        /\ \A i \in 1 .. Len(rest) : rest[i] = queue[i + 1] /\ i + 1 \in 1 .. Len(queue)
    BY <2>1, <2>2
  <2>5. disk <= queue[1].snap /\ queue[1].snap <= mem /\ queue[1].snap \in Nat
    BY <2>2 DEF Ascending, Queued
  <2>6. \A i \in 1 .. Len(queue) : queue[1].snap <= queue[i].snap
    BY <2>2 DEF Ascending
  <2> HIDE DEF rest, n
  <2>7. /\ disk' \in Nat /\ disk <= disk' /\ disk' <= queue[1].snap
        /\ evidence' \in Nat /\ evidence <= evidence' /\ evidence' <= mem
        /\ ~disposed => evidence' <= disk'
    <3>1. CASE ok BY <2>1, <2>5, <3>1 DEF WriteInOrder, EvidenceInOrder
    <3>2. CASE ~ok BY <2>1, <2>5, <3>2 DEF EvidenceInOrder
    <3> QED  BY <3>1, <3>2
  <2>8. Ascending(rest, disk', mem)
    <3>1. \A i \in 1 .. Len(rest) : rest[i].snap \in Nat
      BY <2>4, SaveInQueue
    <3>2. \A i \in 1 .. Len(rest) : disk' <= rest[i].snap /\ rest[i].snap <= mem
      <4>1. TAKE i \in 1 .. Len(rest)
      <4>2. rest[i] = queue[i + 1] /\ i + 1 \in 1 .. Len(queue)
        BY <2>4
      <4>3. queue[1].snap <= queue[i + 1].snap /\ queue[i + 1].snap <= mem
        BY <2>6, <4>2 DEF Ascending
      <4>4. rest[i].snap \in Nat
        BY <3>1
      <4> QED  BY <2>5, <2>7, <4>2, <4>3, <4>4
    <3>3. \A i, j \in 1 .. Len(rest) : i <= j => rest[i].snap <= rest[j].snap
      <4>1. TAKE i, j \in 1 .. Len(rest)
      <4>2. /\ rest[i] = queue[i + 1] /\ i + 1 \in 1 .. Len(queue)
            /\ rest[j] = queue[j + 1] /\ j + 1 \in 1 .. Len(queue)
        BY <2>4
      <4>3. i <= j => i + 1 <= j + 1
        BY <2>4
      <4> QED  BY <4>2, <4>3 DEF Ascending
    <3> QED  BY <3>2, <3>3 DEF Ascending
  <2>9. /\ queue' \in Seq(Queued) /\ lastId' \in Nat
        /\ Ascending(queue', disk', mem)
    BY <2>1, <2>3, <2>4, <2>5, <2>7, <2>8, StartedLast
  <2>10. SaveTypes'
    BY <2>1, <2>7, <2>9 DEF Unwritten
  <2>11. WriteInOrder' /\ EvidenceInOrder'
    BY <2>1, <2>7 DEF WriteInOrder, EvidenceInOrder
  <2> QED BY <2>1, <2>5, <2>7, <2>9, <2>10, <2>11 DEF NoRollBack, Ascending
<1>6. CASE Change
  <2>1. mem' = mem + 1 /\ UNCHANGED <<disk, evidence, queue, write, lastId, disposed>>
    BY <1>6 DEF Change
  <2>2. SaveTypes'
    BY <2>1
  <2>3. \A i \in 1 .. Len(queue) : queue[i].snap \in Nat
    BY SaveInQueue
  <2>4. Ascending(queue', disk', mem')
    BY <2>1, <2>3 DEF Ascending
  <2>5. WriteInOrder'
    BY <2>1, <2>2, WriteStays
  <2> QED  BY <2>1, <2>2, <2>4, <2>5 DEF EvidenceInOrder, NoRollBack
<1>7. ASSUME NEW external \in BOOLEAN, DisposeShutdownHandler(external)
      PROVE  OrderInv' /\ NoRollBack
  <2>1. disposed' = TRUE /\ UNCHANGED <<mem, disk, evidence, queue, write, lastId>>
    BY <1>7 DEF DisposeShutdownHandler
  <2>2. SaveTypes'
    BY <2>1
  <2>3. WriteInOrder'
    BY <2>1, <2>2, WriteStays
  <2> QED  BY <2>1, <2>2, <2>3 DEF Ascending, EvidenceInOrder, NoRollBack
<1>8. CASE RunCleanup \/ EndDrain \/ UNCHANGED vars
  <2>1. UNCHANGED <<mem, disk, evidence, queue, write, lastId, disposed>>
    BY <1>8 DEF RunCleanup, EndDrain, vars
  <2> QED BY <2>1, AddedLast
<1> QED BY <1>1, <1>2, <1>3, <1>4, <1>5, <1>6, <1>7, <1>8 DEF Next

(***************************************************************************)
(* persistence.ts:476-491: saves that overlap, flushes among them, never   *)
(* put an older snapshot over a newer one.                                 *)
(***************************************************************************)
THEOREM NewestSnapshotStays == Spec => DiskNeverRollsBack
<1>1. OrderInv /\ [Next]_vars => [NoRollBack]_<<disk, evidence>>
  BY OrderKept
<1>2. Init => OrderInv
  BY InitInOrder
<1>3. OrderInv /\ [Next]_vars => OrderInv'
  BY OrderKept
<1>4. [][NoRollBack]_<<disk, evidence>> <=> DiskNeverRollsBack
  BY DEF NoRollBack, DiskNeverRollsBack
<1> QED  BY <1>1, <1>2, <1>3, <1>4, PTL DEF Spec

-----------------------------------------------------------------------------
(* The shutdown hook behind an armed timer.                                *)

\* The manager forgets its handler only when the handler runs or the manager
\* is replaced, and a handler that runs takes the timer's save with it.
HookInv ==
  /\ timer \in BOOLEAN /\ slot \in BOOLEAN /\ disposed \in BOOLEAN
  /\ slot => hook # "none"
  /\ timer /\ ~disposed => hook # "none"

LEMMA HookKept == HookInv /\ [Next]_vars => HookInv'
<1> SUFFICES ASSUME HookInv, [Next]_vars PROVE HookInv'
  OBVIOUS
<1> USE DEF HookInv
<1>1. CASE Change BY <1>1 DEF Change, EnsureShutdownFlushRegistered
<1>2. CASE TimerFires BY <1>2 DEF TimerFires
<1>3. CASE Flush BY <1>3 DEF Flush, CallFlush
<1>4. ASSUME NEW external \in BOOLEAN, DisposeShutdownHandler(external) PROVE HookInv'
  BY <1>4 DEF DisposeShutdownHandler
<1>5. CASE RunCleanup BY <1>5 DEF RunCleanup
<1>6. CASE RunHandler BY <1>6 DEF RunHandler, CallFlush
<1>7. CASE Merge \/ (\E ok \in BOOLEAN : Settle(ok)) \/ EndDrain \/ UNCHANGED vars
  BY <1>7 DEF Merge, Settle, EndDrain, vars
<1> QED BY <1>1, <1>2, <1>3, <1>4, <1>5, <1>6, <1>7 DEF Next

(***************************************************************************)
(* persistence.ts:507-524: a save that waits for its timer always has a    *)
(* shutdown hook behind it, after any number of drains.                    *)
(***************************************************************************)
THEOREM HookBehindTimer == Spec => []ArmedTimerIsHooked
<1>1. Init => HookInv
  BY DEF Init, HookInv
<1>2. HookInv /\ [Next]_vars => HookInv'
  BY HookKept
<1>3. HookInv => ArmedTimerIsHooked
  BY DEF HookInv, ArmedTimerIsHooked
<1> QED  BY <1>1, <1>2, <1>3, PTL DEF Spec

-----------------------------------------------------------------------------
(***************************************************************************)
(* Why a flush leaves nothing behind.  Saves carry ascending numbers, and  *)
(* pendingSave names the last debounced one, whose snapshot is the newest; *)
(* so a flush that awaits its own save, or else pendingSave, awaits one    *)
(* that covers what it was asked to make durable.                          *)
(***************************************************************************)
InOrder(saves, last) ==
  /\ \A i \in 1 .. Len(saves) : 1 <= saves[i].id /\ saves[i].id <= last
  /\ \A i, j \in 1 .. Len(saves) : i < j => saves[i].id < saves[j].id

LastDebounced(saves, id) ==
  \E k \in 1 .. Len(saves) :
    /\ saves[k].id = id /\ saves[k].debounced
    /\ \A j \in 1 .. Len(saves) : saves[j].debounced => j <= k

PendingIsLast == pending \in Nat /\ (pending # None => LastDebounced(queue, pending))

FlushTypes ==
  flush \in [Flushers -> [phase : {"idle", "own", "pending", "done", "failed"},
                          on : Nat, target : Nat, untracked : BOOLEAN]]

\* Everything up to n is on disk, or on its way in the save.
Covered(n, save) ==
  disk >= n \/ \E i \in 1 .. Len(queue) : queue[i].id = save /\ queue[i].snap >= n

Tracked(f) ==
  /\ ~Busy(f) => flush[f].on = None
  /\ ~disposed /\ ~flush[f].untracked =>
       /\ flush[f].phase = "done" => disk >= flush[f].target
       /\ Busy(f) => Covered(flush[f].target, flush[f].on)

TrackInv ==
  /\ OrderInv
  /\ timer \in BOOLEAN
  /\ InOrder(queue, lastId)
  /\ PendingIsLast
  /\ FlushTypes
  /\ \A f \in Flushers : Tracked(f)

\* The numbers go on ascending behind the saves already there.
LEMMA GrownIds ==
  ASSUME NEW saves \in Seq(Queued), NEW grown \in Seq(Queued), NEW last \in Nat, NEW n \in Nat,
         Len(grown) = Len(saves) + n, InOrder(saves, last),
         \A i \in 1 .. Len(saves) : grown[i].id = saves[i].id,
         \A i \in Len(saves) + 1 .. Len(grown) : grown[i].id = last + (i - Len(saves))
  PROVE  InOrder(grown, last + n)
<1>1. Len(saves) \in Nat /\ Len(grown) \in Nat
  BY LenProperties
<1>2. \A i \in 1 .. Len(saves) : saves[i].id \in Int
  <2>1. TAKE i \in 1 .. Len(saves)
  <2>2. saves[i] \in Queued
    BY SaveInQueue
  <2> QED  BY <2>2 DEF Queued
<1>3. \A i \in 1 .. Len(grown) : 1 <= grown[i].id /\ grown[i].id <= last + n
  <2>1. TAKE i \in 1 .. Len(grown)
  <2>2. CASE i \in 1 .. Len(saves) BY <1>2, <2>2 DEF InOrder
  <2>3. CASE i \in Len(saves) + 1 .. Len(grown) BY <1>1, <2>3
  <2> QED  BY <1>1, <2>2, <2>3
<1>4. \A i, j \in 1 .. Len(grown) : i < j => grown[i].id < grown[j].id
  <2>1. TAKE i, j \in 1 .. Len(grown)
  <2>2. HAVE i < j
  <2>3. CASE j \in 1 .. Len(saves)
    <3>1. i \in 1 .. Len(saves)
      BY <1>1, <2>2, <2>3
    <3> QED  BY <2>2, <2>3, <3>1 DEF InOrder
  <2>4. CASE i \in 1 .. Len(saves) /\ j \in Len(saves) + 1 .. Len(grown)
    <3>1. grown[i].id \in Int /\ grown[i].id <= last
      BY <1>2, <2>4 DEF InOrder
    <3>2. grown[j].id = last + (j - Len(saves)) /\ j - Len(saves) >= 1
      BY <1>1, <2>4
    <3> QED  BY <1>1, <3>1, <3>2
  <2>5. CASE i \in Len(saves) + 1 .. Len(grown) /\ j \in Len(saves) + 1 .. Len(grown)
    BY <1>1, <2>2, <2>5
  <2> QED  BY <1>1, <2>2, <2>3, <2>4, <2>5
<1> QED  BY <1>3, <1>4 DEF InOrder

\* The saves that doSave calls start, and their numbers.
LEMMA StartedNew ==
  ASSUME NEW saves \in Seq(Queued), NEW n \in Nat, mem \in Nat, lastId \in Nat,
         StartDebounced(saves, n)
  PROVE  /\ queue' \in Seq(Queued) /\ Len(queue') = Len(saves) + n /\ lastId' = lastId + n
         /\ \A i \in 1 .. Len(saves) : queue'[i] = saves[i]
         /\ \A i \in Len(saves) + 1 .. Len(saves) + n :
              queue'[i] = NewSave(lastId + (i - Len(saves)), TRUE)
<1> DEFINE new == [i \in 1 .. n |-> NewSave(lastId + i, TRUE)]
<1>1. new \in Seq(Queued) /\ Len(new) = n
  <2>1. \A i \in 1 .. n : NewSave(lastId + i, TRUE) \in Queued
    BY DEF NewSave, Queued
  <2> QED  BY <2>1, QueueOf
<1>2. \A i \in 1 .. n : new[i] = NewSave(lastId + i, TRUE)
  OBVIOUS
<1>3. queue' = saves \o new /\ lastId' = lastId + n
  BY DEF StartDebounced
<1> HIDE DEF new
<1>4. queue' \in Seq(Queued) /\ Len(queue') = Len(saves) + n
  BY <1>1, <1>3, ConcatProperties
<1>6. \A i \in 1 .. Len(saves) : queue'[i] = saves[i]
  BY <1>1, <1>3, ConcatProperties
<1>5. \A i \in Len(saves) + 1 .. Len(saves) + n :
        queue'[i] = NewSave(lastId + (i - Len(saves)), TRUE)
  <2>1. TAKE i \in Len(saves) + 1 .. Len(saves) + n
  <2>2. queue'[i] = new[i - Len(saves)] /\ i - Len(saves) \in 1 .. n
    BY <1>1, <1>3
  <2> QED  BY <1>2, <2>2
<1> QED  BY <1>3, <1>4, <1>5, <1>6

\* With them the numbers stay in order, and the last one is the newest save.
LEMMA StartedInOrder ==
  ASSUME NEW saves \in Seq(Queued), NEW n \in Nat, mem \in Nat, lastId \in Nat,
         InOrder(saves, lastId), StartDebounced(saves, n)
  PROVE  /\ InOrder(queue', lastId')
         /\ n > 0 => LastDebounced(queue', lastId + n)
<1>1. /\ queue' \in Seq(Queued) /\ Len(queue') = Len(saves) + n /\ lastId' = lastId + n
      /\ Len(saves) \in Nat
      /\ \A i \in 1 .. Len(saves) : queue'[i] = saves[i]
      /\ \A i \in Len(saves) + 1 .. Len(saves) + n :
           queue'[i] = NewSave(lastId + (i - Len(saves)), TRUE)
  BY StartedNew, LenProperties
<1>2. \A i \in Len(saves) + 1 .. Len(queue') :
        queue'[i].id = lastId + (i - Len(saves)) /\ queue'[i].debounced
  <2>1. TAKE i \in Len(saves) + 1 .. Len(queue')
  <2>2. queue'[i] = NewSave(lastId + (i - Len(saves)), TRUE)
    BY <1>1
  <2> QED  BY <2>2 DEF NewSave
<1>3. InOrder(queue', lastId')
  BY <1>1, <1>2, GrownIds
<1>4. ASSUME n > 0 PROVE LastDebounced(queue', lastId + n)
  <2>1. Len(saves) + n \in Len(saves) + 1 .. Len(queue')
    BY <1>1, <1>4
  <2>2. queue'[Len(saves) + n].id = lastId + n /\ queue'[Len(saves) + n].debounced
    BY <1>1, <1>2, <2>1
  <2> QED  BY <1>1, <2>1, <2>2 DEF LastDebounced
<1> QED  BY <1>3, <1>4

\* What a save covered, it or the disk still covers.
LEMMA CoveredKept ==
  ASSUME SaveTypes, SaveTypes', disk' >= disk, NEW n \in Nat, NEW save, Covered(n, save),
         \A i \in 1 .. Len(queue) : queue[i].id = save =>
           \/ disk' >= queue[i].snap
           \/ \E j \in 1 .. Len(queue') :
                queue'[j].id = queue[i].id /\ queue'[j].snap = queue[i].snap
  PROVE  Covered(n, save)'
<1>1. disk \in Nat /\ disk' \in Nat /\ \A i \in 1 .. Len(queue) : queue[i].snap \in Nat
  BY SaveInQueue DEF SaveTypes
<1>2. CASE disk >= n BY <1>1, <1>2 DEF Covered
<1>3. ASSUME NEW i \in 1 .. Len(queue), queue[i].id = save, queue[i].snap >= n
      PROVE  Covered(n, save)'
  BY <1>1, <1>3 DEF Covered
<1> QED  BY <1>2, <1>3 DEF Covered

\* A flush nobody touches stays tracked while every save stays in the queue.
LEMMA TrackedKept ==
  ASSUME TrackInv, SaveTypes', NEW f \in Flushers, flush'[f] = flush[f], disposed => disposed',
         disk' = disk,
         \A i \in 1 .. Len(queue) : \E j \in 1 .. Len(queue') :
           queue'[j].id = queue[i].id /\ queue'[j].snap = queue[i].snap
  PROVE  Tracked(f)'
<1>1. Tracked(f) /\ SaveTypes /\ flush[f].target \in Nat
  BY DEF TrackInv, OrderInv, FlushTypes
<1>2. disk' >= disk
  BY <1>1 DEF SaveTypes
<1>3. Covered(flush[f].target, flush[f].on) => Covered(flush[f].target, flush[f].on)'
  BY <1>1, <1>2, CoveredKept
<1>4. Busy(f)' <=> Busy(f)
  BY DEF Busy
<1> QED BY <1>1, <1>3, <1>4 DEF Tracked, Covered

-----------------------------------------------------------------------------
(* Every action keeps the flushes tracked.                                 *)

LEMMA InitTracked == Init => TrackInv
<1> SUFFICES ASSUME Init PROVE TrackInv
  OBVIOUS
<1>1. OrderInv
  BY InitInOrder
<1>2. timer = FALSE /\ queue = <<>> /\ pending = 0 /\ Len(queue) = 0
  BY DEF Init, None
<1>4. InOrder(queue, lastId)
  BY <1>2 DEF InOrder
<1>5. PendingIsLast
  BY <1>2 DEF PendingIsLast, None
<1>3. FlushTypes /\ \A f \in Flushers : Tracked(f)
  BY DEF Init, FlushTypes, Tracked, Busy, None
<1> QED  BY <1>1, <1>2, <1>3, <1>4, <1>5 DEF TrackInv

\* Nothing but the flags changed.
LEMMA UntouchedTracked ==
  ASSUME TrackInv, OrderInv', timer' \in BOOLEAN,
         UNCHANGED <<queue, lastId, pending, flush, disk>>, disposed => disposed'
  PROVE  TrackInv'
<1>1. SaveTypes' /\ \A i \in 1 .. Len(queue) : i \in 1 .. Len(queue') /\ queue'[i] = queue[i]
  BY DEF OrderInv
<1>2. \A f \in Flushers : Tracked(f)'
  BY <1>1, TrackedKept
<1> QED  BY <1>2 DEF TrackInv, PendingIsLast, FlushTypes

LEMMA TimerTracked ==
  ASSUME TrackInv, OrderInv', TimerFires
  PROVE  TrackInv'
<1> USE DEF TrackInv, OrderInv, SaveTypes
<1>1. /\ timer' = FALSE /\ flush' = flush /\ disposed' = disposed /\ disk' = disk
      /\ mem \in Nat /\ lastId \in Nat /\ queue \in Seq(Queued) /\ SaveTypes'
  BY DEF TimerFires
<1>2. CASE pending # None
  <2>1. /\ queue' = [i \in DOMAIN queue |->
                       IF queue[i].id = pending
                       THEN [queue[i] EXCEPT !.waiters = @ + 1] ELSE queue[i]]
        /\ UNCHANGED <<pending, lastId>>
    BY <1>2 DEF TimerFires
  <2>2. Len(queue') = Len(queue) /\ Len(queue) \in Nat
    <3>1. DOMAIN queue' = 1 .. Len(queue) /\ DOMAIN queue' = 1 .. Len(queue')
          /\ Len(queue) \in Nat /\ Len(queue') \in Nat
      BY <2>1, LenProperties
    <3> QED  BY <3>1
  <2>3. \A i \in 1 .. Len(queue) :
          /\ queue'[i].id = queue[i].id /\ queue'[i].snap = queue[i].snap
          /\ queue'[i].debounced = queue[i].debounced
    <3>1. TAKE i \in 1 .. Len(queue)
    <3>2. queue[i] \in Queued
      BY SaveInQueue
    <3>3. queue'[i] = IF queue[i].id = pending
                      THEN [queue[i] EXCEPT !.waiters = @ + 1] ELSE queue[i]
      BY <2>1, LenProperties
    <3> QED  BY <3>2, <3>3 DEF Queued
  <2>4. InOrder(queue', lastId')
    BY <2>1, <2>2, <2>3 DEF InOrder
  <2>5. PendingIsLast'
    BY <2>1, <2>2, <2>3 DEF PendingIsLast, LastDebounced
  <2>6. \A f \in Flushers : Tracked(f)'
    BY <1>1, <2>2, <2>3, TrackedKept
  <2> QED  BY <1>1, <2>4, <2>5, <2>6 DEF FlushTypes
<1>3. CASE pending = None
  <2>1. StartDebounced(queue, 1) /\ pending' = lastId + 1
    BY <1>3 DEF TimerFires
  <2>2. InOrder(queue', lastId') /\ LastDebounced(queue', lastId + 1)
    BY <1>1, <2>1, StartedInOrder
  <2>3. PendingIsLast'
    BY <1>1, <2>1, <2>2 DEF PendingIsLast
  <2>4. Len(queue') = Len(queue) + 1 /\ \A i \in 1 .. Len(queue) : queue'[i] = queue[i]
    BY <1>1, <2>1, StartedNew
  <2>5. \A i \in 1 .. Len(queue) : i \in 1 .. Len(queue')
    BY <1>1, <2>4, LenProperties
  <2>6. \A f \in Flushers : Tracked(f)'
    BY <1>1, <2>4, <2>5, TrackedKept
  <2> QED  BY <1>1, <2>2, <2>3, <2>6 DEF FlushTypes
<1> QED  BY <1>2, <1>3

\* A bounded set of numbers has a greatest one.
LEMMA GreatestOf ==
  ASSUME NEW T, T \subseteq Nat, T # {}, NEW b \in Nat, \A x \in T : x <= b
  PROVE  \E x \in T : \A y \in T : y <= x
<1> DEFINE R == OpToRel(<, Nat)
           U == {b - x : x \in T}
<1>1. IsWellFoundedOn(R, Nat)
  BY NatLessThanWellFounded
<1>2. \A x, y \in Nat : <<x, y>> \in R <=> x < y
  BY DEF OpToRel
<1> HIDE DEF R
<1>3. U \subseteq Nat /\ U # {}
  <2>1. \A x \in T : b - x \in Nat
    OBVIOUS
  <2> QED  BY <2>1
<1>4. \E m \in U : \A n \in U : ~ (<<n, m>> \in R)
  BY <1>1, <1>3, WFMin
<1>5. PICK x \in T : \A n \in U : ~ (<<n, b - x>> \in R)
  BY <1>4
<1>6. \A y \in T : b - y \in Nat /\ b - x \in Nat /\ ~ (b - y < b - x)
  BY <1>2, <1>3, <1>5
<1> QED  BY <1>6

LEMMA MaxOf ==
  ASSUME NEW T, NEW n \in T, \A m \in T : n >= m
  PROVE  Max(T) \in T /\ \A m \in T : Max(T) >= m
<1>1. \E x \in T : \A y \in T : x >= y
  OBVIOUS
<1> QED  BY <1>1, Zenon DEF Max

\* What a flush owes is what the last of the debounced saves carries.
LEMMA OwedByPending ==
  ASSUME OrderInv, ~timer, ~DoSaveWaits
  PROVE  /\ Owed \in Nat /\ Owed <= mem
         /\ (\A i \in 1 .. Len(queue) : ~queue[i].debounced) => Owed = 0
         /\ \A id : LastDebounced(queue, id) =>
              \E k \in 1 .. Len(queue) : queue[k].id = id /\ queue[k].snap = Owed
<1> DEFINE snaps == {0} \cup {queue[i].snap : i \in {j \in DOMAIN queue : queue[j].debounced}}
<1>1. Owed = Max(snaps) /\ DOMAIN queue = 1 .. Len(queue)
  BY LenProperties DEF Owed, OrderInv, SaveTypes
<1>2. mem \in Nat /\ \A i \in 1 .. Len(queue) : queue[i].snap \in Nat /\ queue[i].snap <= mem
  BY SaveInQueue DEF OrderInv, SaveTypes, Ascending
<1>3. snaps \subseteq Nat /\ \A n \in snaps : n <= mem
  BY <1>1, <1>2
<1>4. ASSUME NEW n \in snaps, \A m \in snaps : n >= m
      PROVE  Owed = n
  <2>1. Max(snaps) \in snaps /\ \A m \in snaps : Max(snaps) >= m
    BY <1>4, MaxOf
  <2> QED  BY <1>1, <1>3, <1>4, <2>1
<1>5. ASSUME \A i \in 1 .. Len(queue) : ~queue[i].debounced
      PROVE  Owed = 0
  <2>1. snaps = {0}
    BY <1>1, <1>5
  <2> QED  BY <1>4, <2>1
<1>6. ASSUME NEW id, LastDebounced(queue, id)
      PROVE  \E k \in 1 .. Len(queue) : queue[k].id = id /\ queue[k].snap = Owed
  <2>1. PICK k \in 1 .. Len(queue) :
          /\ queue[k].id = id /\ queue[k].debounced
          /\ \A j \in 1 .. Len(queue) : queue[j].debounced => j <= k
    BY <1>6 DEF LastDebounced
  <2>2. \A j \in 1 .. Len(queue) : queue[j].debounced => queue[j].snap <= queue[k].snap
    BY <2>1 DEF OrderInv, Ascending
  <2>3. queue[k].snap \in snaps /\ \A m \in snaps : queue[k].snap >= m
    BY <1>1, <1>2, <2>1, <2>2
  <2> QED  BY <1>4, <2>1, <2>3
<1>7. Owed \in Nat /\ Owed <= mem
  <2>1. PICK n \in snaps : \A m \in snaps : m <= n
    BY <1>2, <1>3, GreatestOf
  <2>2. Owed = n
    BY <1>3, <1>4, <2>1
  <2> QED  BY <1>3, <2>1, <2>2
<1> QED  BY <1>5, <1>6, <1>7

LEMMA FlushTracked ==
  ASSUME TrackInv, OrderInv', NEW f \in Flushers, CallFlush(f),
         UNCHANGED <<mem, disk, pending, disposed>>
  PROVE  TrackInv'
<1> USE DEF TrackInv, OrderInv, SaveTypes
<1>1. CASE timer
  <2> DEFINE save == NewSave(lastId + 1, FALSE)
  <2>1. /\ save \in Queued /\ save.snap = mem /\ save.id = lastId + 1 /\ ~save.debounced
    BY DEF NewSave, Queued
  <2>2. /\ queue' = Append(queue, save) /\ lastId' = lastId + 1 /\ timer' = FALSE
        /\ flush' = [flush EXCEPT ![f] = Flushing("own", lastId + 1)]
    BY <1>1 DEF CallFlush, Enqueue
  <2>3. Owed = mem
    BY <1>1 DEF Owed
  <2> HIDE DEF save
  <2>4. /\ queue' \in Seq(Queued) /\ Len(queue') = Len(queue) + 1 /\ Len(queue) \in Nat
        /\ queue'[Len(queue) + 1] = save
        /\ \A i \in 1 .. Len(queue) : queue'[i] = queue[i] /\ i \in 1 .. Len(queue')
    <3>1. /\ Append(queue, save) \in Seq(Queued) /\ Len(Append(queue, save)) = Len(queue) + 1
          /\ Append(queue, save)[Len(queue) + 1] = save
          /\ \A i \in 1 .. Len(queue) : Append(queue, save)[i] = queue[i]
      BY <2>1, AppendProperties
    <3>2. Len(queue) \in Nat
      BY LenProperties
    <3> QED  BY <2>2, <3>1, <3>2
  <2>5. InOrder(queue', lastId')
    <3>1. InOrder(queue', lastId + 1)
      <4>1. \A i \in Len(queue) + 1 .. Len(queue') : queue'[i].id = lastId + (i - Len(queue))
        BY <2>1, <2>4
      <4>2. \A i \in 1 .. Len(queue) : queue'[i].id = queue[i].id
        BY <2>4
      <4> QED  BY <2>4, <4>1, <4>2, GrownIds
    <3> QED  BY <2>2, <3>1
  <2>6. PendingIsLast'
    <3>1. ASSUME NEW id, LastDebounced(queue, id) PROVE LastDebounced(queue', id)
      <4>1. PICK k \in 1 .. Len(queue) :
              /\ queue[k].id = id /\ queue[k].debounced
              /\ \A j \in 1 .. Len(queue) : queue[j].debounced => j <= k
        BY <3>1 DEF LastDebounced
      <4>2. k \in 1 .. Len(queue') /\ queue'[k].id = id /\ queue'[k].debounced
        BY <2>4, <4>1
      <4>3. \A j \in 1 .. Len(queue') : queue'[j].debounced => j <= k
        <5>1. TAKE j \in 1 .. Len(queue')
        <5>2. j \in 1 .. Len(queue) \/ j = Len(queue) + 1
          <6>1. Len(queue) \in Nat /\ Len(queue') = Len(queue) + 1
            BY <2>4, LenProperties
          <6> QED  BY <6>1
        <5> QED  BY <2>1, <2>4, <4>1, <5>2
      <4> QED  BY <4>2, <4>3 DEF LastDebounced
    <3> QED  BY <3>1 DEF PendingIsLast
  <2>7. /\ flush'[f].phase = "own" /\ flush'[f].on = lastId + 1 /\ flush'[f].target = mem
        /\ \A g \in Flushers : g # f => flush'[g] = flush[g]
    BY <2>2, <2>3 DEF FlushTypes, Flushing
  <2>8. Tracked(f)'
    <3>1. Len(queue) + 1 \in 1 .. Len(queue') /\ queue'[Len(queue) + 1].snap >= mem'
      BY <2>1, <2>4
    <3>2. Covered(flush[f].target, flush[f].on)'
      BY <2>1, <2>4, <2>7, <3>1 DEF Covered
    <3> QED  BY <2>7, <3>2 DEF Tracked, Busy
  <2>9. \A g \in Flushers : Tracked(g)'
    <3>1. TAKE g \in Flushers
    <3>2. CASE g # f BY <2>4, <2>7, <3>2, TrackedKept
    <3> QED  BY <2>8, <3>2
  <2>10. FlushTypes'
    BY <2>2, <2>3 DEF FlushTypes, Flushing, DoSaveWaits, Orphaned
  <2> QED  BY <2>2, <2>5, <2>6, <2>9, <2>10
<1>2. CASE ~timer
  <2>1. UNCHANGED <<timer, queue, lastId>> /\ AwaitPending(f)
    BY <1>2 DEF CallFlush
  <2>2. /\ flush'[f].phase = (IF pending = None THEN "done" ELSE "pending")
        /\ flush'[f].on = pending /\ flush'[f].target = Owed
        /\ flush'[f].untracked = (DoSaveWaits \/ Orphaned)
        /\ \A g \in Flushers : g # f => flush'[g] = flush[g]
    BY <2>1 DEF AwaitPending, FlushTypes, Flushing
  <2>3. Owed \in Nat
    <3>1. CASE DoSaveWaits BY <3>1 DEF Owed
    <3> QED  BY <1>2, <3>1, OwedByPending
  <2>4. FlushTypes'
    <3>1. Flushing(IF pending = None THEN "done" ELSE "pending", pending) \in
            [phase : {"idle", "own", "pending", "done", "failed"},
             on : Nat, target : Nat, untracked : BOOLEAN]
      BY <2>3 DEF Flushing, PendingIsLast, DoSaveWaits, Orphaned
    <3> QED  BY <2>1, <3>1 DEF AwaitPending, FlushTypes
  <2>5. Tracked(f)'
    <3>1. ASSUME ~DoSaveWaits, ~Orphaned, pending = None
          PROVE  disk >= Owed
      <4>1. \A i \in 1 .. Len(queue) : ~queue[i].debounced
        BY <3>1, LenProperties DEF Orphaned
      <4> QED  BY <1>2, <3>1, <4>1, OwedByPending
    <3>2. ASSUME ~DoSaveWaits, pending # None
          PROVE  \E i \in 1 .. Len(queue') : queue'[i].id = pending /\ queue'[i].snap >= Owed
      <4>1. PICK k \in 1 .. Len(queue) : queue[k].id = pending /\ queue[k].snap = Owed
        BY <1>2, <3>2, OwedByPending DEF PendingIsLast
      <4>2. queue'[k].snap >= Owed
        <5>1. queue'[k] = queue[k]
          BY <2>1
        <5> QED  BY <2>3, <4>1, <5>1
      <4>3. k \in 1 .. Len(queue') /\ queue'[k].id = pending
        BY <2>1, <4>1
      <4> QED  BY <4>2, <4>3
    <3>3. Busy(f)' <=> pending # None
      BY <2>2 DEF Busy
    <3>4. ~DoSaveWaits /\ pending # None => Covered(flush[f].target, flush[f].on)'
      BY <2>2, <3>2 DEF Covered
    <3> QED  BY <2>2, <3>1, <3>3, <3>4 DEF Tracked
  <2>6. \A g \in Flushers : Tracked(g)'
    <3>1. TAKE g \in Flushers
    <3>2. CASE g # f BY <2>1, <2>2, <3>2, TrackedKept
    <3> QED  BY <2>5, <3>2
  <2> QED  BY <2>1, <2>4, <2>6 DEF PendingIsLast
<1> QED  BY <1>1, <1>2
\* The head settles: whoever awaited it is served, the others lose nothing.
LEMMA SettleTracked ==
  ASSUME TrackInv, OrderInv', disk' >= disk, NEW ok \in BOOLEAN, Settle(ok)
  PROVE  TrackInv'
<1> USE DEF TrackInv, OrderInv, SaveTypes
<1> DEFINE save == Head(queue)
           rest == Tail(queue)
           n == Started(save, ok)
           next == PendingAfter(save, n)
<1>1. /\ queue # <<>> /\ write # Unwritten
      /\ StartDebounced(rest, n) /\ pending' = next
      /\ flush' = [f \in Flushers |-> Resume(f, ok, next)]
      /\ UNCHANGED <<mem, timer, disposed>>
      /\ ok => disk' = (IF write.full THEN write.upto ELSE disk)
  BY DEF Settle
<1>2. /\ Len(queue) \in Nat /\ Len(queue) >= 1 /\ save = queue[1] /\ save \in Queued
      /\ save.waiters \in Nat /\ save.snap \in Nat
  <2>1. Len(queue) \in Nat /\ Len(queue) >= 1 /\ save = queue[1]
    BY <1>1
  <2>2. save \in Queued
    BY <2>1, SaveInQueue
  <2> QED  BY <2>1, <2>2 DEF Queued
<1>3. n \in Nat
  BY <1>2 DEF Started
<1>4. /\ rest \in Seq(Queued) /\ Len(rest) = Len(queue) - 1
      /\ \A i \in 1 .. Len(rest) : rest[i] = queue[i + 1] /\ i + 1 \in 1 .. Len(queue)
  BY <1>1, <1>2
<1>5. /\ \A i \in 1 .. Len(queue) : queue[i].id \in Int
      /\ \A i \in 2 .. Len(queue) : queue[i].id # save.id
      /\ 1 <= save.id
  <2>1. \A i \in 1 .. Len(queue) : queue[i].id \in Int
    <3>1. TAKE i \in 1 .. Len(queue)
    <3>2. queue[i] \in Queued
      BY SaveInQueue
    <3> QED  BY <3>2 DEF Queued
  <2>2. 1 \in 1 .. Len(queue) /\ \A i \in 2 .. Len(queue) : i \in 1 .. Len(queue) /\ 1 < i
    BY <1>2
  <2>3. \A i \in 2 .. Len(queue) : queue[1].id < queue[i].id
    BY <2>2 DEF InOrder
  <2>4. \A i \in 2 .. Len(queue) : queue[i].id # save.id
    BY <1>2, <2>1, <2>2, <2>3
  <2> QED  BY <1>2, <2>1, <2>2, <2>4 DEF InOrder
<1> HIDE DEF save, rest, n
<1>6. InOrder(rest, lastId)
  <2>1. \A i \in 1 .. Len(rest) : 1 <= rest[i].id /\ rest[i].id <= lastId
    BY <1>4 DEF InOrder
  <2>2. \A i, j \in 1 .. Len(rest) : i < j => rest[i].id < rest[j].id
    <3>1. TAKE i, j \in 1 .. Len(rest)
    <3>2. /\ rest[i] = queue[i + 1] /\ i + 1 \in 1 .. Len(queue)
          /\ rest[j] = queue[j + 1] /\ j + 1 \in 1 .. Len(queue)
      BY <1>4
    <3>3. i < j => i + 1 < j + 1
      BY <1>2, <1>4
    <3> QED  BY <3>2, <3>3 DEF InOrder
  <2> QED  BY <2>1, <2>2 DEF InOrder
<1>7. InOrder(queue', lastId') /\ (n > 0 => LastDebounced(queue', lastId + n))
  BY <1>1, <1>3, <1>4, <1>6, StartedInOrder
<1>8. /\ Len(queue') = Len(rest) + n /\ lastId' = lastId + n
      /\ \A i \in 1 .. Len(rest) : queue'[i] = rest[i]
  BY <1>1, <1>3, <1>4, StartedNew
<1>9. PendingIsLast'
  <2>1. CASE n > 0 BY <1>1, <1>3, <1>7, <2>1 DEF PendingIsLast, PendingAfter
  <2>2. CASE n = 0 /\ save.debounced
    BY <1>1, <2>2 DEF PendingIsLast, PendingAfter, None
  <2>3. CASE n = 0 /\ ~save.debounced
    <3>1. pending' = pending /\ pending \in Nat
      BY <1>1, <2>3 DEF PendingAfter, PendingIsLast
    <3>2. ASSUME pending # None PROVE LastDebounced(queue', pending)
      <4>1. PICK k \in 1 .. Len(queue) :
              /\ queue[k].id = pending /\ queue[k].debounced
              /\ \A j \in 1 .. Len(queue) : queue[j].debounced => j <= k
        BY <3>2 DEF PendingIsLast, LastDebounced
      <4>2. k # 1
        BY <1>2, <2>3, <4>1
      <4>3. k - 1 \in 1 .. Len(rest) /\ k = (k - 1) + 1
        BY <1>2, <1>4, <4>2
      <4>4. queue'[k - 1] = queue[k] /\ k - 1 \in 1 .. Len(queue')
        BY <1>4, <1>8, <2>3, <4>3
      <4>5. \A j \in 1 .. Len(queue') : queue'[j].debounced => j <= k - 1
        <5>1. TAKE j \in 1 .. Len(queue')
        <5>2. j \in 1 .. Len(rest)
          BY <1>2, <1>4, <1>8, <2>3
        <5>3. queue'[j] = queue[j + 1] /\ j + 1 \in 1 .. Len(queue)
          BY <1>4, <1>8, <5>2
        <5> QED  BY <4>1, <5>3
      <4> QED  BY <4>1, <4>4, <4>5 DEF LastDebounced
    <3> QED  BY <3>1, <3>2 DEF PendingIsLast
  <2> QED  BY <1>3, <2>1, <2>2, <2>3
<1> HIDE DEF next
<1>10. ASSUME NEW f \in Flushers PROVE Tracked(f)'
  <2>1. flush'[f] = Resume(f, ok, next)
    BY <1>1, <1>10
  <2>2. flush[f].target \in Nat /\ disk \in Nat /\ disk' \in Nat
    BY <1>10 DEF FlushTypes
  <2>3. CASE flush[f].on # save.id
    <3>1. flush'[f] = flush[f]
      BY <2>1, <2>3 DEF Resume, save
    <3>2. \A i \in 1 .. Len(queue) : queue[i].id = flush[f].on =>
            \E j \in 1 .. Len(queue') :
              queue'[j].id = queue[i].id /\ queue'[j].snap = queue[i].snap
      <4>1. TAKE i \in 1 .. Len(queue)
      <4>2. HAVE queue[i].id = flush[f].on
      <4>3. i # 1
        BY <1>2, <2>3, <4>2
      <4>4. i - 1 \in 1 .. Len(rest) /\ i = (i - 1) + 1
        BY <1>2, <1>4, <4>3
      <4>5. queue'[i - 1] = queue[i] /\ i - 1 \in 1 .. Len(queue')
        BY <1>3, <1>4, <1>8, <4>4
      <4> QED  BY <4>5
    <3>3. Covered(flush[f].target, flush[f].on) => Covered(flush[f].target, flush[f].on)'
      BY <2>2, <3>1, <3>2, CoveredKept
    <3>4. (Busy(f)' <=> Busy(f)) /\ Tracked(f) /\ disposed' = disposed
      BY <1>1, <1>10, <3>1 DEF Busy
    <3>5. flush[f].target' = flush[f].target /\ flush[f].untracked' = flush[f].untracked
          /\ flush[f].phase' = flush[f].phase /\ flush[f].on' = flush[f].on
      BY <3>1
    <3>6. disk >= flush[f].target => disk' >= flush[f].target
      BY <2>2
    <3> QED BY <3>1, <3>3, <3>4, <3>5, <3>6 DEF Tracked
  <2>4. CASE flush[f].on = save.id
    <3>1. Tracked(f) /\ Busy(f)
      BY <1>5, <1>10, <2>4 DEF Tracked, None
    <3>2. CASE ~ok
      <4>1. flush'[f].phase = "failed" /\ flush'[f].on = None
        BY <1>10, <2>1, <2>4, <3>2 DEF Resume, save, FlushTypes
      <4> QED  BY <4>1 DEF Tracked, Busy
    <3>3. CASE ok
      <4>1. /\ flush'[f].target = flush[f].target
            /\ flush'[f].untracked = flush[f].untracked
            /\ \/ flush'[f].phase = "pending"
               \/ flush'[f].phase = "done" /\ flush'[f].on = None
        BY <1>10, <2>1, <2>4, <3>3 DEF Resume, save, FlushTypes
      <4>2. ASSUME ~disposed, ~flush[f].untracked PROVE disk' >= flush[f].target
        <5>1. disk' = save.snap
          BY <1>1, <1>2, <3>3, <4>2 DEF WriteInOrder
        <5>2. CASE disk >= flush[f].target BY <2>2, <5>2
        <5>3. ASSUME NEW i \in 1 .. Len(queue), queue[i].id = flush[f].on,
                     queue[i].snap >= flush[f].target
              PROVE  disk' >= flush[f].target
          <6>1. i = 1
            BY <1>2, <1>5, <2>4, <5>3
          <6> QED  BY <1>2, <5>1, <5>3, <6>1
        <5>4. Covered(flush[f].target, flush[f].on)
          BY <3>1, <4>2 DEF Tracked
        <5> QED  BY <5>2, <5>3, <5>4 DEF Covered
      <4>3. Busy(f)' => flush'[f].phase # "done"
        BY DEF Busy
      <4>4. ~Busy(f)' => flush'[f].on = None
        BY <4>1 DEF Busy
      <4> QED BY <1>1, <4>1, <4>2, <4>3, <4>4 DEF Tracked, Covered
    <3> QED  BY <3>2, <3>3
  <2> QED  BY <2>3, <2>4
<1>11. FlushTypes'
  <2>1. \A f \in Flushers : Resume(f, ok, next) \in
          [phase : {"idle", "own", "pending", "done", "failed"},
           on : Nat, target : Nat, untracked : BOOLEAN]
    <3>1. TAKE f \in Flushers
    <3>2. next \in Nat
      BY <1>1, <1>9 DEF PendingIsLast
    <3>3. flush[f] \in [phase : {"idle", "own", "pending", "done", "failed"},
                        on : Nat, target : Nat, untracked : BOOLEAN]
      BY DEF FlushTypes
    <3> QED  BY <3>2, <3>3 DEF Resume, None
  <2> QED  BY <1>1, <2>1 DEF FlushTypes
<1> QED  BY <1>1, <1>7, <1>9, <1>10, <1>11

LEMMA TrackKept == TrackInv /\ [Next]_vars => TrackInv'
<1> SUFFICES ASSUME TrackInv, [Next]_vars PROVE TrackInv'
  OBVIOUS
<1>1. OrderInv' /\ disk' >= disk
  BY OrderKept DEF TrackInv, NoRollBack
<1>2. timer \in BOOLEAN
  BY DEF TrackInv
<1>3. CASE TimerFires BY <1>1, <1>3, TimerTracked
<1>4. CASE Flush
  <2>1. CallFlush("replace") /\ UNCHANGED <<mem, disk, pending, disposed>>
    BY <1>4 DEF Flush
  <2> QED  BY <1>1, <2>1, FlushTracked DEF Flushers
<1>5. CASE RunHandler
  <2>1. CallFlush("shutdown") /\ UNCHANGED <<mem, disk, pending, disposed>>
    BY <1>5 DEF RunHandler
  <2> QED  BY <1>1, <2>1, FlushTracked DEF Flushers
<1>6. ASSUME NEW ok \in BOOLEAN, Settle(ok) PROVE TrackInv'
  BY <1>1, <1>6, SettleTracked
<1>7. CASE Change \/ Merge \/ RunCleanup \/ EndDrain \/ UNCHANGED vars
  <2>1. timer' \in BOOLEAN /\ UNCHANGED <<queue, lastId, pending, flush, disk, disposed>>
    BY <1>2, <1>7 DEF Change, Merge, RunCleanup, EndDrain, vars
  <2> QED  BY <1>1, <2>1, UntouchedTracked
<1>8. ASSUME NEW external \in BOOLEAN, DisposeShutdownHandler(external) PROVE TrackInv'
  <2>1. timer' \in BOOLEAN /\ disposed' /\ UNCHANGED <<queue, lastId, pending, flush, disk>>
    BY <1>2, <1>8 DEF DisposeShutdownHandler
  <2> QED  BY <1>1, <2>1, UntouchedTracked
<1> QED BY <1>3, <1>4, <1>5, <1>6, <1>7, <1>8 DEF Next

LEMMA TrackedCovers == TrackInv => FlushCoversTracked
BY DEF TrackInv, Tracked, FlushCoversTracked

-----------------------------------------------------------------------------
(***************************************************************************)
(* No counter passes the number of changes: every change arms the timer    *)
(* once, and the timer becomes one save, one doSave that waits, or the     *)
(* save of a flush.                                                        *)
(***************************************************************************)
\* The doSave calls that wait, the k-th behind a save being <<id, k>>.
Waiting(saves) ==
  UNION {{saves[i].id} \X (1 .. saves[i].waiters) : i \in 1 .. Len(saves)}

Armed(armed) == IF armed THEN 1 ELSE 0

CountInv ==
  /\ mem <= MaxChanges
  /\ IsFiniteSet(Waiting(queue))
  /\ lastId + Cardinality(Waiting(queue)) + Armed(timer) <= mem

\* What the flushes refer to, and the variables the proofs above leave out.
RestInv ==
  /\ \A f \in Flushers : flush[f].on <= lastId /\ flush[f].target <= mem
  /\ cancelled \in BOOLEAN /\ draining \in BOOLEAN
  /\ hook \in {"none", "queued", "draining"}
  /\ cleanups \in 0 .. MaxCleanups /\ failures \in 0 .. MaxFailures

LEMMA BehindOne ==
  ASSUME NEW x, NEW n \in Nat
  PROVE  IsFiniteSet({x} \X (1 .. n)) /\ Cardinality({x} \X (1 .. n)) = n
<1>1. IsFiniteSet({x}) /\ Cardinality({x}) = 1
  BY FS_Singleton
<1>2. IsFiniteSet(1 .. n) /\ Cardinality(1 .. n) = n
  BY FS_Interval
<1>3. IsFiniteSet({x} \X (1 .. n)) /\ Cardinality({x} \X (1 .. n)) = 1 * n
  <2>1. IsFiniteSet({x}) /\ IsFiniteSet(1 .. n)
    BY <1>1, <1>2
  <2>2. /\ IsFiniteSet({x} \X (1 .. n))
        /\ Cardinality({x} \X (1 .. n)) = Cardinality({x}) * Cardinality(1 .. n)
    BY <2>1, FS_Product, Zenon
  <2> QED  BY <1>1, <1>2, <2>2
<1> QED  BY <1>3

\* What is left of the waiting calls is finite, and no more than there were.
LEMMA FewerWait ==
  ASSUME CountInv, NEW rest, rest \subseteq Waiting(queue)
  PROVE  IsFiniteSet(rest) /\ Cardinality(rest) <= Cardinality(Waiting(queue))
         /\ Cardinality(rest) \in Nat /\ Cardinality(Waiting(queue)) \in Nat
BY FS_Subset, FS_CardinalityType DEF CountInv

\* Saves nobody waits for add nothing.
LEMMA NewWaitForNone ==
  ASSUME NEW saves \in Seq(Queued), NEW grown \in Seq(Queued), Len(grown) >= Len(saves),
         \A i \in 1 .. Len(saves) : grown[i] = saves[i],
         \A i \in Len(saves) + 1 .. Len(grown) : grown[i].waiters = 0
  PROVE  Waiting(grown) \subseteq Waiting(saves)
<1> SUFFICES ASSUME NEW w \in Waiting(grown) PROVE w \in Waiting(saves)
  OBVIOUS
<1>1. PICK i \in 1 .. Len(grown) : w \in {grown[i].id} \X (1 .. grown[i].waiters)
  BY DEF Waiting
<1>2. grown[i].waiters # 0
  BY <1>1
<1>3. i \in 1 .. Len(saves)
  BY <1>2, LenProperties
<1> QED  BY <1>1, <1>3 DEF Waiting

LEMMA TimerCounted ==
  ASSUME TrackInv, TrackInv', CountInv, TimerFires
  PROVE  CountInv'
<1> USE DEF TrackInv, OrderInv, SaveTypes
<1>1. timer /\ timer' = FALSE /\ mem' = mem /\ mem \in Nat /\ lastId \in Nat
      /\ queue \in Seq(Queued) /\ queue' \in Seq(Queued)
  BY DEF TimerFires
<1>2. Cardinality(Waiting(queue)) \in Nat /\ lastId + Cardinality(Waiting(queue)) + 1 <= mem
  BY <1>1, FS_CardinalityType DEF CountInv, Armed
<1>3. CASE pending # None
  <2>1. /\ queue' = [i \in DOMAIN queue |->
                       IF queue[i].id = pending
                       THEN [queue[i] EXCEPT !.waiters = @ + 1] ELSE queue[i]]
        /\ UNCHANGED <<pending, lastId>>
    BY <1>3 DEF TimerFires
  <2>2. PICK k \in 1 .. Len(queue) : queue[k].id = pending
    BY <1>3 DEF PendingIsLast, LastDebounced
  <2>3. \A i \in 1 .. Len(queue) : queue[i].id = pending => i = k
    <3>1. TAKE i \in 1 .. Len(queue)
    <3>2. queue[i].id \in Int /\ queue[k].id \in Int
      BY SaveInQueue DEF Queued
    <3>3. i < k \/ k < i \/ i = k
      BY LenProperties
    <3> QED  BY <2>2, <3>2, <3>3 DEF InOrder
  <2>4. DOMAIN queue' = 1 .. Len(queue) /\ DOMAIN queue' = 1 .. Len(queue')
    BY <2>1, <1>1, LenProperties
  <2> DEFINE one == <<pending, queue[k].waiters + 1>>
  <2>5. Waiting(queue') \subseteq Waiting(queue) \cup {one}
    <3> SUFFICES ASSUME NEW w \in Waiting(queue') PROVE w \in Waiting(queue) \/ w = one
      OBVIOUS
    <3>1. PICK i \in 1 .. Len(queue) : w \in {queue'[i].id} \X (1 .. queue'[i].waiters)
      BY <2>4 DEF Waiting
    <3>2. queue[i] \in Queued
      BY SaveInQueue
    <3>3. queue'[i] = IF queue[i].id = pending
                      THEN [queue[i] EXCEPT !.waiters = @ + 1] ELSE queue[i]
      BY <2>1, <2>4
    <3>4. CASE queue[i].id # pending BY <3>1, <3>3, <3>4 DEF Waiting
    <3>5. CASE queue[i].id = pending
      <4>1. i = k /\ queue'[i].id = pending /\ queue'[i].waiters = queue[k].waiters + 1
            /\ queue[k].waiters \in Nat
        BY <2>3, <3>2, <3>3, <3>5 DEF Queued
      <4>2. PICK n \in 1 .. queue[k].waiters + 1 : w = <<pending, n>>
        BY <3>1, <4>1
      <4>3. n = queue[k].waiters + 1 \/ n \in 1 .. queue[k].waiters
        <5>1. PICK w1 \in Nat : w1 = queue[k].waiters
          BY <4>1
        <5>2. n \in 1 .. w1 + 1
          BY <4>2, <5>1
        <5>3. n = w1 + 1 \/ n \in 1 .. w1
          BY <5>2
        <5> QED  BY <5>1, <5>3
      <4>4. w = one \/ w \in {queue[k].id} \X (1 .. queue[k].waiters)
        BY <2>2, <4>2, <4>3
      <4> QED  BY <4>4 DEF Waiting
    <3> QED  BY <3>4, <3>5
  <2> HIDE DEF one
  <2>6. /\ IsFiniteSet(Waiting(queue) \cup {one})
        /\ Cardinality(Waiting(queue) \cup {one}) <= Cardinality(Waiting(queue)) + 1
    <3>1. /\ IsFiniteSet(Waiting(queue) \cup {one})
          /\ Cardinality(Waiting(queue) \cup {one}) =
               IF one \in Waiting(queue) THEN Cardinality(Waiting(queue))
                                        ELSE Cardinality(Waiting(queue)) + 1
      BY FS_AddElement, Zenon DEF CountInv
    <3> QED  BY <1>2, <3>1
  <2>7. /\ IsFiniteSet(Waiting(queue'))
        /\ Cardinality(Waiting(queue')) <= Cardinality(Waiting(queue) \cup {one})
    BY <2>5, <2>6, FS_Subset
  <2>8. /\ Cardinality(Waiting(queue')) \in Nat
        /\ Cardinality(Waiting(queue) \cup {one}) \in Nat
    BY <2>6, <2>7, FS_CardinalityType
  <2> QED BY <1>1, <1>2, <2>1, <2>6, <2>7, <2>8 DEF CountInv, Armed
<1>4. CASE pending = None
  <2>1. StartDebounced(queue, 1)
    BY <1>4 DEF TimerFires
  <2>2. /\ Len(queue') = Len(queue) + 1 /\ lastId' = lastId + 1
        /\ \A i \in 1 .. Len(queue) : queue'[i] = queue[i]
        /\ \A i \in Len(queue) + 1 .. Len(queue) + 1 :
             queue'[i] = NewSave(lastId + (i - Len(queue)), TRUE)
    BY <1>1, <2>1, StartedNew
  <2>3. Waiting(queue') \subseteq Waiting(queue)
    <3>1. Len(queue') >= Len(queue) /\ \A i \in Len(queue) + 1 .. Len(queue') : queue'[i].waiters = 0
      BY <2>2, <1>1, LenProperties DEF NewSave
    <3> QED  BY <1>1, <2>2, <3>1, NewWaitForNone
  <2>4. IsFiniteSet(Waiting(queue')) /\ Cardinality(Waiting(queue')) <= Cardinality(Waiting(queue))
        /\ Cardinality(Waiting(queue')) \in Nat
    BY <2>3, FewerWait
  <2> QED BY <1>1, <1>2, <2>2, <2>4 DEF CountInv, Armed
<1> QED  BY <1>3, <1>4

LEMMA FlushCounted ==
  ASSUME TrackInv, TrackInv', CountInv, NEW f, CallFlush(f), UNCHANGED mem
  PROVE  CountInv'
<1> USE DEF TrackInv, OrderInv, SaveTypes
<1>1. mem \in Nat /\ lastId \in Nat /\ queue \in Seq(Queued) /\ queue' \in Seq(Queued)
      /\ Cardinality(Waiting(queue)) \in Nat
  BY FS_CardinalityType DEF CountInv
<1>2. CASE timer
  <2> DEFINE save == NewSave(lastId + 1, FALSE)
  <2>1. save \in Queued /\ save.waiters = 0
    BY <1>1 DEF NewSave, Queued
  <2>2. queue' = Append(queue, save) /\ lastId' = lastId + 1 /\ timer' = FALSE
    BY <1>2 DEF CallFlush, Enqueue
  <2> HIDE DEF save
  <2>3. /\ Len(queue') = Len(queue) + 1 /\ queue'[Len(queue) + 1] = save
        /\ \A i \in 1 .. Len(queue) : queue'[i] = queue[i]
    BY <1>1, <2>1, <2>2, AppendProperties
  <2>4. Len(queue') >= Len(queue) /\ \A i \in Len(queue) + 1 .. Len(queue') : queue'[i].waiters = 0
    BY <1>1, <2>1, <2>3, LenProperties
  <2>5. Waiting(queue') \subseteq Waiting(queue)
    BY <1>1, <2>3, <2>4, NewWaitForNone
  <2>6. IsFiniteSet(Waiting(queue')) /\ Cardinality(Waiting(queue')) <= Cardinality(Waiting(queue))
        /\ Cardinality(Waiting(queue')) \in Nat
    BY <2>5, FewerWait
  <2> QED BY <1>1, <1>2, <2>2, <2>6 DEF CountInv, Armed
<1>3. CASE ~timer BY <1>3 DEF CallFlush, CountInv, Armed
<1> QED  BY <1>2, <1>3

LEMMA SettleCounted ==
  ASSUME TrackInv, TrackInv', CountInv, NEW ok \in BOOLEAN, Settle(ok)
  PROVE  CountInv'
<1> DEFINE save == Head(queue)
           rest == Tail(queue)
           n == Started(save, ok)
           served == {save.id} \X (1 .. n)
<1>1. /\ queue # <<>> /\ StartDebounced(rest, n) /\ UNCHANGED <<mem, timer>>
      /\ mem \in Nat /\ lastId \in Nat
      /\ queue \in Seq(Queued) /\ queue' \in Seq(Queued)
      /\ Cardinality(Waiting(queue)) \in Nat
  BY FS_CardinalityType DEF Settle, CountInv, TrackInv, OrderInv, SaveTypes
<1>2. Len(queue) \in Nat /\ Len(queue) >= 1 /\ save = queue[1]
  <2>1. queue \in Seq(Queued) /\ queue # <<>>
    BY <1>1
  <2> QED  BY <2>1
<1>3. 1 \in 1 .. Len(queue) /\ save \in Queued /\ save.waiters \in Nat
  BY <1>1, <1>2, SaveInQueue DEF Queued
<1>4. n \in Nat /\ n <= save.waiters
  BY <1>3 DEF Started
<1>5. /\ rest \in Seq(Queued) /\ Len(rest) = Len(queue) - 1
      /\ \A i \in 1 .. Len(rest) : rest[i] = queue[i + 1] /\ i + 1 \in 1 .. Len(queue)
  BY <1>1, <1>2
<1> HIDE DEF save, rest, n
<1>6. Waiting(rest) \subseteq Waiting(queue) \ served
  <2> SUFFICES ASSUME NEW w \in Waiting(rest) PROVE w \in Waiting(queue) /\ w \notin served
    OBVIOUS
  <2>1. PICK i \in 1 .. Len(rest) : w \in {rest[i].id} \X (1 .. rest[i].waiters)
    BY DEF Waiting
  <2>2. rest[i] = queue[i + 1] /\ i + 1 \in 1 .. Len(queue) /\ 1 < i + 1
    BY <1>5, <2>1
  <2>3. queue[i + 1].id \in Int /\ queue[1].id \in Int
    BY <1>1, <1>3, <2>2, SaveInQueue DEF Queued
  <2>4. queue[1].id < queue[i + 1].id
    BY <1>3, <2>2 DEF InOrder, TrackInv
  <2>5. w \notin served
    BY <1>2, <2>1, <2>2, <2>3, <2>4
  <2>6. w \in Waiting(queue)
    BY <2>1, <2>2 DEF Waiting
  <2> QED  BY <2>5, <2>6
<1>7. served \subseteq Waiting(queue)
  <2>1. served \subseteq {save.id} \X (1 .. save.waiters)
    BY <1>3, <1>4
  <2> QED  BY <1>2, <1>3, <2>1 DEF Waiting
<1>8. IsFiniteSet(served) /\ Cardinality(served) = n
  BY <1>4, BehindOne
<1> HIDE DEF served
<1>9. /\ IsFiniteSet(Waiting(queue) \ served)
      /\ Cardinality(Waiting(queue) \ served) = Cardinality(Waiting(queue)) - n
  <2>1. Waiting(queue) \cap served = served
    BY <1>7
  <2> QED  BY <1>8, <2>1, FS_Difference DEF CountInv
<1>10. Waiting(queue') \subseteq Waiting(queue) \ served
  <2>1. /\ Len(queue') = Len(rest) + n
        /\ \A i \in 1 .. Len(rest) : queue'[i] = rest[i]
        /\ \A i \in Len(rest) + 1 .. Len(rest) + n :
             queue'[i] = NewSave(lastId + (i - Len(rest)), TRUE)
    BY <1>1, <1>4, <1>5, StartedNew
  <2>2. Len(queue') >= Len(rest) /\ \A i \in Len(rest) + 1 .. Len(queue') : queue'[i].waiters = 0
    <3>1. Len(queue') >= Len(rest)
      BY <1>2, <1>4, <1>5, <2>1
    <3>2. ASSUME NEW i \in Len(rest) + 1 .. Len(queue') PROVE queue'[i].waiters = 0
      <4>1. queue'[i] = NewSave(lastId + (i - Len(rest)), TRUE)
        BY <2>1
      <4> QED  BY <4>1 DEF NewSave
    <3> QED  BY <3>1, <3>2
  <2>3. Waiting(queue') \subseteq Waiting(rest)
    BY <1>1, <1>5, <2>1, <2>2, NewWaitForNone
  <2> QED  BY <1>6, <2>3
<1>11. /\ IsFiniteSet(Waiting(queue')) /\ Cardinality(Waiting(queue')) \in Nat
       /\ Cardinality(Waiting(queue')) <= Cardinality(Waiting(queue)) - n
  BY <1>9, <1>10, FS_Subset, FS_CardinalityType
<1>12. lastId' = lastId + n
  BY <1>1 DEF StartDebounced
<1>13. Armed(timer) \in Nat
  BY DEF Armed
<1>14. Armed(timer)' = Armed(timer)
  BY <1>1 DEF Armed
<1> QED BY <1>1, <1>4, <1>11, <1>12, <1>13, <1>14 DEF CountInv

LEMMA CountKept == TrackInv /\ CountInv /\ [Next]_vars => CountInv'
<1> SUFFICES ASSUME TrackInv, CountInv, [Next]_vars PROVE CountInv'
  OBVIOUS
<1>1. TrackInv'
  BY TrackKept
<1>2. timer \in BOOLEAN /\ mem \in Nat /\ lastId \in Nat /\ Cardinality(Waiting(queue)) \in Nat
  BY FS_CardinalityType DEF TrackInv, OrderInv, SaveTypes, CountInv
<1>3. CASE TimerFires BY <1>1, <1>3, TimerCounted
<1>4. CASE Flush BY <1>1, <1>4, FlushCounted DEF Flush
<1>5. CASE RunHandler BY <1>1, <1>5, FlushCounted DEF RunHandler
<1>6. ASSUME NEW ok \in BOOLEAN, Settle(ok) PROVE CountInv'
  BY <1>1, <1>6, SettleCounted
<1>7. CASE Change
  <2>1. mem < MaxChanges /\ mem' = mem + 1 /\ timer' = TRUE /\ queue' = queue /\ lastId' = lastId
    BY <1>7 DEF Change
  <2>2. MaxChanges \in Nat
    BY SaveAssumption
  <2> QED  BY <1>2, <2>1, <2>2 DEF CountInv, Armed
<1>8. CASE Merge \/ RunCleanup \/ EndDrain \/ UNCHANGED vars
  <2>1. UNCHANGED <<mem, timer, queue, lastId>>
    BY <1>8 DEF Merge, RunCleanup, EndDrain, vars
  <2> QED  BY <2>1 DEF CountInv, Armed
<1>9. ASSUME NEW external \in BOOLEAN, DisposeShutdownHandler(external) PROVE CountInv'
  <2>1. (timer' => timer) /\ UNCHANGED <<mem, queue, lastId>>
    BY <1>9 DEF DisposeShutdownHandler
  <2> QED  BY <1>2, <2>1 DEF CountInv, Armed
<1> QED BY <1>3, <1>4, <1>5, <1>6, <1>7, <1>8, <1>9 DEF Next

-----------------------------------------------------------------------------
(* The type invariant.                                                     *)

\* pendingSave is a save that has been started.
LEMMA PendingStarted == TrackInv => pending \in Nat /\ pending <= lastId
<1> SUFFICES ASSUME TrackInv PROVE pending \in Nat /\ pending <= lastId
  OBVIOUS
<1>1. pending \in Nat /\ lastId \in Nat /\ InOrder(queue, lastId)
  BY DEF TrackInv, PendingIsLast, OrderInv, SaveTypes
<1>2. CASE pending = None BY <1>1, <1>2 DEF None
<1>3. CASE pending # None
  <2>1. \E k \in 1 .. Len(queue) : queue[k].id = pending
    BY <1>3 DEF TrackInv, PendingIsLast, LastDebounced
  <2> QED  BY <1>1, <2>1 DEF InOrder
<1> QED  BY <1>2, <1>3

LEMMA OwedIsMade == OrderInv => Owed \in Nat /\ Owed <= mem
<1> SUFFICES ASSUME OrderInv PROVE Owed \in Nat /\ Owed <= mem
  OBVIOUS
<1>1. mem \in Nat
  BY DEF OrderInv, SaveTypes
<1>2. CASE timer \/ DoSaveWaits BY <1>1, <1>2 DEF Owed
<1>3. CASE ~timer /\ ~DoSaveWaits BY <1>3, OwedByPending
<1> QED  BY <1>2, <1>3

LEMMA FlushRefers ==
  ASSUME TrackInv, RestInv, NEW f \in Flushers, CallFlush(f), UNCHANGED mem
  PROVE  \A g \in Flushers : flush'[g].on <= lastId' /\ flush'[g].target <= mem'
<1>1. /\ pending \in Nat /\ pending <= lastId /\ Owed \in Nat /\ Owed <= mem
      /\ lastId \in Nat /\ mem \in Nat /\ FlushTypes
  BY PendingStarted, OwedIsMade DEF TrackInv, OrderInv, SaveTypes
<1>2. \A g \in Flushers : /\ flush[g].on \in Nat /\ flush[g].on <= lastId
                          /\ flush[g].target <= mem
  BY <1>1 DEF RestInv, FlushTypes
<1>3. /\ lastId' \in Nat /\ lastId <= lastId'
      /\ \A g \in Flushers : g # f => flush'[g] = flush[g]
      /\ flush'[f].on <= lastId' /\ flush'[f].target = Owed
  <2>1. CASE timer BY <1>1, <2>1 DEF CallFlush, FlushTypes, Flushing
  <2>2. CASE ~timer
    BY <1>1, <2>2 DEF CallFlush, AwaitPending, FlushTypes, Flushing
  <2> QED  BY <2>1, <2>2
<1>4. TAKE g \in Flushers
<1>5. CASE g = f BY <1>1, <1>3, <1>5
<1>6. CASE g # f BY <1>1, <1>2, <1>3, <1>6
<1> QED  BY <1>5, <1>6

LEMMA SettleRefers ==
  ASSUME TrackInv, TrackInv', RestInv, NEW ok \in BOOLEAN, Settle(ok)
  PROVE  \A g \in Flushers : flush'[g].on <= lastId' /\ flush'[g].target <= mem'
<1>1. lastId \in Nat /\ lastId' \in Nat /\ pending' <= lastId' /\ pending' \in Nat
      /\ mem' = mem /\ FlushTypes
  <2>1. TrackInv' => (pending \in Nat /\ pending <= lastId)'
    BY PendingStarted, PTL
  <2>2. lastId \in Nat /\ lastId' \in Nat /\ FlushTypes
    BY DEF TrackInv, OrderInv, SaveTypes
  <2>3. mem' = mem
    BY DEF Settle
  <2> QED  BY <2>1, <2>2, <2>3
<1>2. lastId <= lastId'
  <2>1. lastId' = lastId + Started(Head(queue), ok) /\ queue # <<>>
    BY DEF Settle, StartDebounced
  <2>2. Head(queue) \in Queued
    <3>1. queue \in Seq(Queued)
      BY DEF TrackInv, OrderInv, SaveTypes
    <3> QED  BY <2>1, <3>1
  <2>3. Started(Head(queue), ok) \in Nat
    BY <2>2 DEF Started, Queued
  <2> QED  BY <1>1, <2>1, <2>3
<1>3. TAKE g \in Flushers
<1>4. flush'[g] = Resume(g, ok, pending')
  BY DEF Settle
<1>5. flush[g].on \in Nat /\ flush[g].on <= lastId /\ flush[g].target <= mem
      /\ flush[g] \in [phase : {"idle", "own", "pending", "done", "failed"},
                       on : Nat, target : Nat, untracked : BOOLEAN]
  BY <1>1 DEF RestInv, FlushTypes
<1>6. /\ flush'[g].target = flush[g].target
      /\ flush'[g].on \in {flush[g].on, None, pending'}
  BY <1>4, <1>5 DEF Resume
<1> QED  BY <1>1, <1>2, <1>5, <1>6 DEF None

LEMMA RestKept == TrackInv /\ RestInv /\ [Next]_vars => RestInv'
<1> SUFFICES ASSUME TrackInv, RestInv, [Next]_vars PROVE RestInv'
  OBVIOUS
<1>1. TrackInv'
  BY TrackKept
<1>2. /\ mem \in Nat /\ lastId \in Nat /\ timer \in BOOLEAN /\ FlushTypes
      /\ \A g \in Flushers : flush[g].on \in Nat /\ flush[g].target \in Nat
  BY DEF TrackInv, OrderInv, SaveTypes, FlushTypes
<1>3. MaxFailures \in Nat /\ MaxCleanups \in Nat
  BY SaveAssumption
<1>4. CASE TimerFires
  <2>1. lastId' \in {lastId, lastId + 1}
    BY <1>4 DEF TimerFires, StartDebounced
  <2> QED  BY <1>2, <1>4, <2>1 DEF TimerFires, RestInv
<1>5. CASE Flush
  <2>1. CallFlush("replace") /\ UNCHANGED <<mem, cancelled, hook, draining, cleanups, failures>>
    BY <1>5 DEF Flush
  <2>2. \A g \in Flushers : flush'[g].on <= lastId' /\ flush'[g].target <= mem'
    BY <2>1, FlushRefers DEF Flushers
  <2> QED  BY <2>1, <2>2 DEF RestInv
<1>6. CASE RunHandler
  <2>1. CallFlush("shutdown") /\ UNCHANGED <<mem, cancelled, draining, cleanups, failures>>
        /\ hook' = "none"
    BY <1>6 DEF RunHandler
  <2>2. \A g \in Flushers : flush'[g].on <= lastId' /\ flush'[g].target <= mem'
    BY <2>1, FlushRefers DEF Flushers
  <2> QED  BY <2>1, <2>2 DEF RestInv
<1>7. ASSUME NEW ok \in BOOLEAN, Settle(ok) PROVE RestInv'
  <2>1. \A g \in Flushers : flush'[g].on <= lastId' /\ flush'[g].target <= mem'
    BY <1>1, <1>7, SettleRefers
  <2>2. /\ UNCHANGED <<cancelled, hook, draining, cleanups>>
        /\ \/ failures' = failures
           \/ failures < MaxFailures /\ failures' = failures + 1
    <3>1. UNCHANGED <<cancelled, hook, draining, cleanups>>
      BY <1>7 DEF Settle
    <3>2. CASE ok BY <1>7, <3>2 DEF Settle
    <3>3. CASE ~ok BY <1>7, <3>3 DEF Settle
    <3> QED  BY <3>1, <3>2, <3>3
  <2> QED  BY <1>3, <2>1, <2>2 DEF RestInv
<1>8. CASE Change
  BY <1>2, <1>8 DEF Change, EnsureShutdownFlushRegistered, RestInv
<1>9. CASE RunCleanup BY <1>3, <1>9 DEF RunCleanup, RestInv
<1>10. CASE Merge \/ EndDrain \/ UNCHANGED vars
  BY <1>10 DEF Merge, EndDrain, vars, RestInv
<1>11. ASSUME NEW external \in BOOLEAN, DisposeShutdownHandler(external) PROVE RestInv'
  BY <1>2, <1>11 DEF DisposeShutdownHandler, RestInv
<1> QED BY <1>4, <1>5, <1>6, <1>7, <1>8, <1>9, <1>10, <1>11 DEF Next

SafeInv == TrackInv /\ HookInv /\ CountInv /\ RestInv

LEMMA InitSafe == Init => SafeInv
<1> SUFFICES ASSUME Init PROVE SafeInv
  OBVIOUS
<1>1. TrackInv
  BY InitTracked
<1>2. HookInv
  BY DEF Init, HookInv
<1>3. CountInv
  <2>1. queue = <<>> /\ Len(queue) = 0 /\ mem = 0 /\ lastId = 0 /\ timer = FALSE
    BY DEF Init
  <2>2. Waiting(queue) = {}
    BY <2>1 DEF Waiting
  <2>3. IsFiniteSet(Waiting(queue)) /\ Cardinality(Waiting(queue)) = 0
    BY <2>2, FS_EmptySet
  <2> QED  BY <2>1, <2>3, SaveAssumption DEF CountInv, Armed
<1>4. RestInv
  <2>1. \A f \in Flushers : flush[f].on = 0 /\ flush[f].target = 0
    BY DEF Init, None
  <2>2. lastId = 0 /\ mem = 0 /\ cleanups = 0 /\ failures = 0
    BY DEF Init
  <2>3. cancelled \in BOOLEAN /\ draining \in BOOLEAN /\ hook = "none"
    BY DEF Init
  <2> QED  BY <2>1, <2>2, <2>3, SaveAssumption DEF RestInv
<1> QED  BY <1>1, <1>2, <1>3, <1>4 DEF SafeInv

LEMMA SafeKept == SafeInv /\ [Next]_vars => SafeInv'
BY TrackKept, HookKept, CountKept, RestKept DEF SafeInv

\* The ranges the saves in the queue stay in.
LEMMA QueueBounded == SafeInv => queue \in Seq(Saves)
<1> SUFFICES ASSUME SafeInv PROVE queue \in Seq(Saves)
  OBVIOUS
<1>1. /\ queue \in Seq(Queued) /\ mem \in Nat /\ lastId \in Nat /\ MaxChanges \in Nat
      /\ mem <= MaxChanges /\ disk \in Nat
      /\ IsFiniteSet(Waiting(queue)) /\ Cardinality(Waiting(queue)) \in Nat
      /\ lastId + Cardinality(Waiting(queue)) + Armed(timer) <= mem
      /\ InOrder(queue, lastId) /\ Ascending(queue, disk, mem)
  BY SaveAssumption, FS_CardinalityType DEF SafeInv, TrackInv, OrderInv, SaveTypes, CountInv
<1>2. lastId <= MaxChanges /\ Cardinality(Waiting(queue)) <= MaxChanges
  <2>1. Armed(timer) \in Nat
    BY DEF Armed
  <2> QED  BY <1>1, <2>1
<1>3. ASSUME NEW i \in 1 .. Len(queue) PROVE queue[i] \in Saves
  <2>1. queue[i] \in Queued
    BY <1>1, <1>3, SaveInQueue
  <2>2. queue[i].id \in 1 .. MaxChanges /\ queue[i].snap \in 0 .. MaxChanges
    BY <1>1, <1>2, <1>3, <2>1 DEF InOrder, Ascending, Queued
  <2>3. queue[i].waiters \in 0 .. MaxChanges
    <3> DEFINE behind == {queue[i].id} \X (1 .. queue[i].waiters)
    <3>1. queue[i].waiters \in Nat
      BY <2>1 DEF Queued
    <3>2. IsFiniteSet(behind) /\ Cardinality(behind) = queue[i].waiters
      BY <3>1, BehindOne
    <3>3. behind \subseteq Waiting(queue)
      BY <1>3 DEF Waiting
    <3> HIDE DEF behind
    <3>4. Cardinality(behind) <= Cardinality(Waiting(queue))
      BY <1>1, <3>3, FS_Subset
    <3> QED  BY <1>1, <1>2, <3>1, <3>2, <3>4
  <2> QED  BY <2>1, <2>2, <2>3 DEF Queued, Saves, Changes
<1>4. queue \in [1 .. Len(queue) -> Saves] /\ Len(queue) \in Nat
  <2>1. queue \in [1 .. Len(queue) -> Queued] /\ Len(queue) \in Nat
    BY <1>1, LenProperties
  <2> QED  BY <1>3, <2>1
<1> QED  BY <1>4, SeqDef

LEMMA SafeImplies == SafeInv => PendingSafe
<1> SUFFICES ASSUME SafeInv PROVE PendingSafe
  OBVIOUS
<1>1. queue \in Seq(Saves)
  BY QueueBounded
<1>2. /\ mem \in Nat /\ disk \in Nat /\ evidence \in Nat /\ lastId \in Nat /\ MaxChanges \in Nat
      /\ disk <= mem /\ evidence <= mem /\ mem <= MaxChanges
      /\ timer \in BOOLEAN /\ disposed \in BOOLEAN /\ slot \in BOOLEAN
  BY SaveAssumption
  DEF SafeInv, TrackInv, OrderInv, SaveTypes, EvidenceInOrder, CountInv, HookInv
<1>3. lastId <= MaxChanges
  <2>1. lastId + Cardinality(Waiting(queue)) + Armed(timer) <= mem
        /\ Cardinality(Waiting(queue)) \in Nat
    BY FS_CardinalityType DEF SafeInv, CountInv
  <2>2. Armed(timer) \in Nat
    BY DEF Armed
  <2> QED  BY <1>2, <2>1, <2>2
<1>4. write \in [full : BOOLEAN, upto : Changes \cup {-1}]
  <2>1. write \in [full : BOOLEAN, upto : Int] /\ WriteInOrder
    BY DEF SafeInv, TrackInv, OrderInv, SaveTypes
  <2>2. CASE write = Unwritten BY <2>2 DEF Unwritten
  <2>3. CASE write # Unwritten
    <3>1. write.upto \in Changes
      BY <1>2, <2>1, <2>3 DEF WriteInOrder, Changes
    <3> QED  BY <2>1, <3>1
  <2> QED  BY <2>2, <2>3
<1>5. flush \in [Flushers -> Flushes]
  <2>1. FlushTypes /\ \A f \in Flushers : flush[f].on <= lastId /\ flush[f].target <= mem
    BY DEF SafeInv, TrackInv, RestInv
  <2>2. ASSUME NEW f \in Flushers PROVE flush[f] \in Flushes
    BY <1>2, <1>3, <2>1, <2>2 DEF FlushTypes, Flushes, Changes
  <2> QED  BY <2>1, <2>2 DEF FlushTypes
<1>6. pending # None => \E i \in DOMAIN queue : queue[i].id = pending /\ queue[i].debounced
  <2>1. DOMAIN queue = 1 .. Len(queue)
    BY <1>1, LenProperties
  <2> QED  BY <2>1 DEF SafeInv, TrackInv, PendingIsLast, LastDebounced
<1>7. TypeOK
  BY <1>1, <1>2, <1>3, <1>4, <1>5, <1>6 DEF TypeOK, SafeInv, RestInv, Changes
<1>8. ArmedTimerIsHooked /\ FlushCoversTracked
  BY TrackedCovers DEF SafeInv, HookInv, ArmedTimerIsHooked
<1> QED  BY <1>7, <1>8 DEF PendingSafe

(***************************************************************************)
(* persistence.ts:507-547: no pending save is forgotten.  Every variable   *)
(* stays in its range; a save that waits for its timer has a hook behind   *)
(* it; and a flush that returns has made everything durable that was       *)
(* pending when it was called, whatever is saved, flushed, failed or       *)
(* drained meanwhile, unless debounced saves had piled up or the manager   *)
(* has been replaced.                                                      *)
(***************************************************************************)
THEOREM NoSaveForgotten == Spec => []PendingSafe
<1>1. Init => SafeInv
  BY InitSafe
<1>2. SafeInv /\ [Next]_vars => SafeInv'
  BY SafeKept
<1>3. SafeInv => PendingSafe
  BY SafeImplies
<1> QED  BY <1>1, <1>2, <1>3, PTL DEF Spec
=============================================================================
