------------------------- MODULE StorageLeaseProofs -------------------------
(***************************************************************************)
(* Mutual exclusion of the lease for any number of processes, every stale  *)
(* window and every patience.                                              *)
(***************************************************************************)
EXTENDS StorageLease, TLAPS

\* The domain of the clock, and what the assumption says of the windows.
LEMMA Numbers ==
  /\ STALE \in Nat /\ STALE >= 1
  /\ PATIENCE \in Nat /\ PATIENCE > STALE + 1
  /\ Times \subseteq Nat
  /\ Dead \notin Procs /\ Probe \notin Procs
BY LeaseAssumption DEF Times

\* A lock directory that is there has an mtime; one that is not has none.
LEMMA DirKinds ==
  ASSUME TypeOK
  PROVE  /\ dir # NoDir => dir \in Dirs
         /\ dir \in Dirs => dir # NoDir
         /\ dir.maker \in Procs => dir \in Dirs
<1>1. NoDir \notin Dirs
  <2>1. NoDir.mtime.at = -1
    BY DEF NoDir, None
  <2>2. \A d \in Dirs : d.mtime.at \in 0 .. MaxTime + 1
    BY DEF Dirs, Mtimes
  <2> QED BY <2>1, <2>2, LeaseAssumption
<1>2. NoDir.maker \notin Procs
  BY Numbers DEF NoDir
<1> QED BY <1>1, <1>2 DEF TypeOK

\* The mtimes a process may write now.
LEMMA Written ==
  ASSUME TypeOK, NEW p \in Procs
  PROVE  /\ [at |-> now, by |-> p] \in Mtimes
         /\ [at |-> now + 1, by |-> Probe] \in Mtimes
BY LeaseAssumption DEF TypeOK, Mtimes, Times

\* Putting an mtime on a directory, or its maker's death, leaves it one.
LEMMA DirUpdates ==
  ASSUME NEW d \in Dirs, NEW m \in Mtimes
  PROVE  /\ [d EXCEPT !.mtime = m] \in Dirs
         /\ [d EXCEPT !.mtime = m].mtime = m
         /\ [d EXCEPT !.mtime = m].maker = d.maker
         /\ [d EXCEPT !.maker = Dead] \in Dirs
         /\ [d EXCEPT !.maker = Dead].mtime = d.mtime
         /\ [d EXCEPT !.maker = Dead].maker = Dead
BY DEF Dirs


-----------------------------------------------------------------------------
(* Types.                                                                  *)

\* A process that lets go knows no mtimes any more; the others keep theirs.
LEMMA ForgetTyped ==
  ASSUME TypeOK, NEW p \in Procs, Forget(p)
  PROVE  /\ pc' = [pc EXCEPT ![p] = "idle"] /\ pc' \in [Procs -> Steps]
         /\ own' \in [Procs -> SUBSET Mtimes]
         /\ proof' \in [Procs -> Times]
         /\ foreign' \in [Procs -> Mtimes \cup {None}]
         /\ lockMtime' \in [Procs -> Mtimes \cup {None}]
         /\ compromised' \in [Procs -> BOOLEAN]
         /\ \A q \in Procs : own'[q] # {} => Created(q)'
<1>1. /\ pc' = [pc EXCEPT ![p] = "idle"]
      /\ own' = [own EXCEPT ![p] = {}]
      /\ foreign' = [foreign EXCEPT ![p] = None]
      /\ lockMtime' = [lockMtime EXCEPT ![p] = None]
      /\ compromised' = [compromised EXCEPT ![p] = FALSE]
      /\ proof' = proof
  BY DEF Forget, Goto
<1>2. pc' \in [Procs -> Steps] /\ own' \in [Procs -> SUBSET Mtimes]
  BY <1>1 DEF TypeOK, Steps
<1>3. \A q \in Procs : own'[q] # {} => Created(q)'
  BY <1>1 DEF TypeOK, Created
<1>4. /\ foreign' \in [Procs -> Mtimes \cup {None}]
      /\ lockMtime' \in [Procs -> Mtimes \cup {None}]
      /\ compromised' \in [Procs -> BOOLEAN]
      /\ proof' \in [Procs -> Times]
  BY <1>1, Zenon DEF TypeOK
<1> QED BY <1>1, <1>2, <1>3, <1>4

\* A process moves to a step at which it need not know its own mtimes, or
\* from one at which it did to another.
LEMMA GotoTyped ==
  ASSUME TypeOK, NEW p \in Procs, NEW step \in Steps, Goto(p, step), own' = own,
         Created(p) => step \in {"probe", "first_stat", "held", "unlink"}
  PROVE  /\ pc' = [pc EXCEPT ![p] = step] /\ pc' \in [Procs -> Steps]
         /\ \A q \in Procs : own'[q] # {} => Created(q)'
<1>1. pc' = [pc EXCEPT ![p] = step]
  BY DEF Goto
<1>2. pc' \in [Procs -> Steps]
  BY <1>1 DEF TypeOK
<1>3. \A q \in Procs : own'[q] # {} => Created(q)'
  BY <1>1 DEF TypeOK, Created
<1> QED BY <1>1, <1>2, <1>3

LEMMA InitTypeOK == Init => TypeOK
<1> SUFFICES ASSUME Init PROVE TypeOK
  OBVIOUS
<1>1. 0 \in Times /\ 1 \in Times /\ 0 \in 0 .. MaxTime + 1
  BY LeaseAssumption DEF Times
<1>2. dir \in Dirs \cup {NoDir}
  BY <1>1 DEF Init, Dirs, Mtimes
<1> QED BY <1>1, <1>2 DEF Init, TypeOK, Steps

LEMMA BeginTyped ==
  ASSUME TypeOK, NEW p \in Procs, Begin(p)
  PROVE  TypeOK'
<1>1. /\ pc' = [pc EXCEPT ![p] = "mkdir"] /\ since' = [since EXCEPT ![p] = now]
      /\ proof' = [proof EXCEPT ![p] = now] /\ own' = [own EXCEPT ![p] = {}]
      /\ foreign' = [foreign EXCEPT ![p] = None]
      /\ UNCHANGED <<now, dir, held, apart>>
  BY DEF Begin, Goto
<1> QED BY <1>1 DEF TypeOK, held, Created, Steps

LEMMA MakeTyped ==
  ASSUME TypeOK, NEW p \in Procs, Make(p), ~Created(p),
         UNCHANGED <<now, since, own, held, apart>>
  PROVE  TypeOK'
<1>1. dir' \in Dirs
  BY Written DEF Make, Dirs
<1>2. /\ pc' = [pc EXCEPT ![p] = "probe"] /\ pc' \in [Procs -> Steps]
      /\ \A q \in Procs : own'[q] # {} => Created(q)'
  BY GotoTyped DEF Make, Steps
<1> QED BY <1>1, <1>2 DEF Make, TypeOK, held

LEMMA RetryTyped ==
  ASSUME TypeOK, NEW p \in Procs, Retry(p), ~Created(p), own' = own
  PROVE  pc' \in [Procs -> Steps] /\ \A q \in Procs : own'[q] # {} => Created(q)'
BY GotoTyped DEF Retry, Steps

LEMMA AcquireTyped ==
  ASSUME TypeOK, NEW p \in Procs, Mkdir(p) \/ MkdirAgain(p) \/ Stat(p) \/ Break(p) \/ Rmdir(p)
  PROVE  TypeOK'
<1>1. ~Created(p) /\ own' = own
  BY DEF Mkdir, MkdirAgain, Stat, Break, Rmdir, Created, Make
<1>2. CASE Mkdir(p)
  <2>1. CASE Make(p) BY <1>1, <1>2, <2>1, MakeTyped DEF Mkdir
  <2>2. CASE Goto(p, "stat") /\ UNCHANGED <<dir, foreign, proof>>
    BY <1>1, <1>2, <2>2, GotoTyped DEF Mkdir, TypeOK, Steps, held
  <2> QED BY <1>2, <2>1, <2>2 DEF Mkdir
<1>3. CASE MkdirAgain(p)
  <2>1. CASE Make(p) BY <1>1, <1>3, <2>1, MakeTyped DEF MkdirAgain
  <2>2. CASE Retry(p) /\ UNCHANGED <<dir, foreign, proof>>
    BY <1>1, <1>3, <2>2, RetryTyped DEF MkdirAgain, TypeOK, held
  <2> QED BY <1>3, <2>1, <2>2 DEF MkdirAgain
<1>4. CASE Stat(p)
  <2>1. pc' \in [Procs -> Steps] /\ \A q \in Procs : own'[q] # {} => Created(q)'
    BY <1>1, <1>4, GotoTyped, RetryTyped DEF Stat, Steps
  <2>2. foreign' \in [Procs -> Mtimes \cup {None}]
    BY <1>4, DirKinds DEF Stat, TypeOK, Dirs
  <2> QED BY <1>4, <2>1, <2>2 DEF Stat, TypeOK, held
<1>5. CASE Break(p)
  <2>1. pc' \in [Procs -> Steps] /\ \A q \in Procs : own'[q] # {} => Created(q)'
    BY <1>1, <1>5, GotoTyped, RetryTyped DEF Break, RemoveNowOrLater, Steps
  <2>2. dir' \in {dir, NoDir} /\ apart' \in {apart, TRUE}
    BY <1>5 DEF Break, RemoveNowOrLater
  <2> QED BY <1>5, <2>1, <2>2 DEF Break, TypeOK, held
<1>6. CASE Rmdir(p)
  <2>1. pc' \in [Procs -> Steps] /\ \A q \in Procs : own'[q] # {} => Created(q)'
    BY <1>1, <1>6, GotoTyped DEF Rmdir, Steps
  <2> QED BY <1>6, <2>1 DEF Rmdir, TypeOK, held
<1> QED BY <1>2, <1>3, <1>4, <1>5, <1>6

LEMMA SetUpTyped ==
  ASSUME TypeOK, NEW p \in Procs, ProbeUtimes(p) \/ FirstStat(p)
  PROVE  TypeOK'
<1>1. CASE ProbeUtimes(p)
  <2>1. CASE dir = NoDir BY <1>1, <2>1, ForgetTyped DEF ProbeUtimes, TypeOK
  <2>2. CASE dir # NoDir
    <3> DEFINE mtime == [at |-> now + 1, by |-> Probe]
    <3>1. mtime \in Mtimes /\ dir \in Dirs
      BY <2>2, Written, DirKinds
    <3> HIDE DEF mtime
    <3>2. /\ own' = [own EXCEPT ![p] = @ \cup {mtime}]
          /\ dir' = [dir EXCEPT !.mtime = mtime]
          /\ proof' = [proof EXCEPT ![p] = now]
          /\ pc' = [pc EXCEPT ![p] = "first_stat"]
          /\ UNCHANGED <<foreign, held, now, since, apart>>
      BY <1>1, <2>2 DEF ProbeUtimes, Goto, mtime
    <3>3. dir' \in Dirs
      BY <3>1, <3>2, DirUpdates
    <3> QED BY <3>1, <3>2, <3>3 DEF TypeOK, Steps, held, Created
  <2> QED BY <2>1, <2>2
<1>2. CASE FirstStat(p)
  <2>1. CASE dir = NoDir BY <1>2, <2>1, ForgetTyped DEF FirstStat, TypeOK
  <2>2. CASE dir # NoDir
    <3>1. dir.mtime \in Mtimes
      BY <2>2, DirKinds DEF Dirs
    <3>2. /\ own' = [own EXCEPT ![p] = @ \cup {dir.mtime}]
          /\ proof' = [proof EXCEPT ![p] = now]
          /\ lockMtime' = [lockMtime EXCEPT ![p] = dir.mtime]
          /\ pc' = [pc EXCEPT ![p] = "held"]
          /\ UNCHANGED <<foreign, compromised, now, dir, since, beat, apart>>
      BY <1>2, <2>2 DEF FirstStat, Goto
    <3> QED BY <3>1, <3>2 DEF TypeOK, Steps, Created
  <2> QED BY <2>1, <2>2
<1> QED BY <1>1, <1>2

\* What a heartbeat's stat does before its utimes or its verdict.
LEMMA BeatSteps ==
  ASSUME TypeOK, NEW p \in Procs, Beat(p), dir # NoDir
  PROVE  LET mtime == [at |-> now, by |-> p] IN
         /\ mtime \in Mtimes /\ dir.mtime \in Mtimes /\ dir \in Dirs
         /\ pc[p] = "held" /\ ~compromised[p] /\ beat[p] = None
         /\ proof' = [proof EXCEPT ![p] = now]
         /\ UNCHANGED <<now, pc, since, foreign>>
         /\ \/ /\ dir.mtime # lockMtime[p]
               /\ own' = [own EXCEPT ![p] = @ \cup {dir.mtime}]
               /\ compromised' = [compromised EXCEPT ![p] = TRUE]
               /\ UNCHANGED <<dir, lockMtime, beat, apart>>
            \/ /\ dir.mtime = lockMtime[p]
               /\ own' = [own EXCEPT ![p] = @ \cup {dir.mtime, mtime}]
               /\ dir' = [dir EXCEPT !.mtime = mtime]
               /\ lockMtime' = [lockMtime EXCEPT ![p] = mtime]
               /\ UNCHANGED <<beat, compromised, apart>>
            \/ /\ dir.mtime = lockMtime[p]
               /\ own' = [own EXCEPT ![p] = @ \cup {dir.mtime, mtime}]
               /\ beat' = [beat EXCEPT ![p] = mtime]
               /\ apart' = (apart \/ Stale(dir.mtime))
               /\ UNCHANGED <<dir, lockMtime, compromised>>
<1> DEFINE mtime == [at |-> now, by |-> p]
<1>1. mtime \in Mtimes /\ dir \in Dirs /\ dir.mtime \in Mtimes
  BY Written, DirKinds DEF Dirs
<1> HIDE DEF mtime
<1>2. /\ pc[p] = "held" /\ ~compromised[p] /\ beat[p] = None
      /\ proof' = [proof EXCEPT ![p] = now]
      /\ UNCHANGED <<now, pc, since, foreign>>
  BY DEF Beat
<1>3. own' = [own EXCEPT ![p] = @ \cup {dir.mtime} \cup (IF dir.mtime = lockMtime[p] THEN {mtime} ELSE {})]
  BY DEF Beat, mtime
<1>4. \/ /\ dir.mtime # lockMtime[p]
         /\ compromised' = [compromised EXCEPT ![p] = TRUE]
         /\ UNCHANGED <<dir, lockMtime, beat, apart>>
      \/ /\ dir.mtime = lockMtime[p]
         /\ dir' = [dir EXCEPT !.mtime = mtime]
         /\ lockMtime' = [lockMtime EXCEPT ![p] = mtime]
         /\ UNCHANGED <<beat, compromised, apart>>
      \/ /\ dir.mtime = lockMtime[p]
         /\ beat' = [beat EXCEPT ![p] = mtime]
         /\ apart' = (apart \/ Stale(dir.mtime))
         /\ UNCHANGED <<dir, lockMtime, compromised>>
  BY Zenon DEF Beat, Compromise, mtime
<1>5. dir.mtime # lockMtime[p] => own' = [own EXCEPT ![p] = @ \cup {dir.mtime}]
  BY <1>3
<1>6. dir.mtime = lockMtime[p] => own' = [own EXCEPT ![p] = @ \cup {dir.mtime, mtime}]
  BY <1>3
<1> QED BY <1>1, <1>2, <1>4, <1>5, <1>6, Zenon DEF mtime

LEMMA BeatTyped ==
  ASSUME TypeOK, NEW p \in Procs, Beat(p)
  PROVE  TypeOK'
<1>1. CASE dir = NoDir
  <2>1. /\ compromised' = [compromised EXCEPT ![p] = TRUE]
        /\ UNCHANGED <<now, dir, pc, since, own, proof, foreign, lockMtime, beat, apart>>
    BY <1>1 DEF Beat, Compromise
  <2> QED BY <2>1 DEF TypeOK, Created
<1>2. CASE dir # NoDir
  <2> DEFINE mtime == [at |-> now, by |-> p]
  <2>1. [dir EXCEPT !.mtime = mtime] \in Dirs
    BY <1>2, BeatSteps, DirUpdates
  <2>2. mtime \in Mtimes /\ dir.mtime \in Mtimes /\ pc[p] = "held"
    BY <1>2, BeatSteps
  <2>3. own' \in [Procs -> SUBSET Mtimes] /\ \A q \in Procs : own'[q] # {} => Created(q)'
    <3>1. own' = [own EXCEPT ![p] = @ \cup {dir.mtime}] \/ own' = [own EXCEPT ![p] = @ \cup {dir.mtime, mtime}]
      BY <1>2, BeatSteps
    <3>2. pc' = pc
      BY DEF Beat
    <3> HIDE DEF mtime
    <3> QED BY <2>2, <3>1, <3>2 DEF TypeOK, Created
  <2>4. dir' \in Dirs \cup {NoDir} /\ apart' \in BOOLEAN
    BY <1>2, <2>1, BeatSteps DEF TypeOK
  <2>5. /\ lockMtime' \in [Procs -> Mtimes \cup {None}]
        /\ beat' \in [Procs -> Mtimes \cup {None}]
        /\ compromised' \in [Procs -> BOOLEAN]
    <3> HIDE DEF mtime
    <3>1. \/ UNCHANGED <<lockMtime, beat>> /\ compromised' = [compromised EXCEPT ![p] = TRUE]
          \/ UNCHANGED <<beat, compromised>> /\ lockMtime' = [lockMtime EXCEPT ![p] = mtime]
          \/ UNCHANGED <<lockMtime, compromised>> /\ beat' = [beat EXCEPT ![p] = mtime]
      BY <1>2, BeatSteps DEF mtime
    <3> QED BY <2>2, <3>1 DEF TypeOK
  <2>6. proof' \in [Procs -> Times] /\ UNCHANGED <<now, pc, since, foreign>>
    BY <1>2, BeatSteps DEF TypeOK
  <2> QED BY <2>3, <2>4, <2>5, <2>6 DEF TypeOK
<1> QED BY <1>1, <1>2

LEMMA LandTyped ==
  ASSUME TypeOK, NEW p \in Procs, Land(p)
  PROVE  TypeOK'
<1>1. beat[p] \in Mtimes
  BY DEF Land, TypeOK
<1>2. dir' \in Dirs \cup {NoDir}
  BY <1>1, DirKinds, DirUpdates DEF Land, TypeOK
<1>3. /\ proof' \in [Procs -> Times]
      /\ lockMtime' \in [Procs -> Mtimes \cup {None}]
      /\ compromised' \in [Procs -> BOOLEAN]
  BY <1>1 DEF Land, TypeOK
<1>4. beat' = [beat EXCEPT ![p] = None] /\ UNCHANGED <<now, pc, since, own, foreign, apart>>
  BY DEF Land
<1> QED BY <1>2, <1>3, <1>4 DEF TypeOK, Created

LEMMA LetGoTyped ==
  ASSUME TypeOK, NEW p \in Procs, Release(p) \/ Unlink(p) \/ Crash(p)
  PROVE  TypeOK'
<1>1. CASE Forget(p)
  <2>1. /\ UNCHANGED <<now, since>> /\ apart' \in BOOLEAN
        /\ beat' \in [Procs -> Mtimes \cup {None}]
    BY DEF Release, Unlink, Crash, TypeOK
  <2>2. dir' \in Dirs \cup {NoDir}
    <3>1. Crash(p) => dir' \in Dirs \cup {NoDir}
      BY DirKinds DEF Crash, TypeOK, Dirs
    <3> QED BY <3>1 DEF Release, Unlink, TypeOK
  <2> QED BY <1>1, <2>1, <2>2, ForgetTyped DEF TypeOK
<1>2. CASE ~Forget(p)
  <2>1. /\ pc[p] = "held" /\ Goto(p, "unlink")
        /\ apart' = (apart \/ Stale(dir.mtime))
        /\ UNCHANGED <<dir, own, proof, foreign, lockMtime, compromised, now, since, beat>>
    BY <1>2 DEF Release, Unlink, Crash
  <2>2. pc' \in [Procs -> Steps] /\ \A q \in Procs : own'[q] # {} => Created(q)'
    BY <2>1, GotoTyped DEF Steps
  <2> QED BY <2>1, <2>2 DEF TypeOK
<1> QED BY <1>1, <1>2

LEMMA TickTyped ==
  ASSUME TypeOK, Tick
  PROVE  TypeOK'
<1>1. now' \in Times /\ UNCHANGED <<dir, pc, since, own, proof, foreign, lockMtime, beat, compromised>>
  BY LeaseAssumption DEF TypeOK, Tick, Times, held
<1>2. apart' \in BOOLEAN
  BY DEF Tick
<1> QED BY <1>1, <1>2 DEF TypeOK, Created

\* Each step keeps the variables in their types.
LEMMA NextTypeOK == TypeOK /\ [Next]_vars => TypeOK'
<1> SUFFICES ASSUME TypeOK, [Next]_vars PROVE TypeOK'
  OBVIOUS
<1>1. ASSUME NEW p \in Procs, Contend(p) PROVE TypeOK'
  BY <1>1, BeginTyped, AcquireTyped, SetUpTyped DEF Contend
<1>2. ASSUME NEW p \in Procs, Hold(p) \/ Crash(p) PROVE TypeOK'
  BY <1>2, BeatTyped, LandTyped, LetGoTyped DEF Hold
<1>3. CASE UNCHANGED vars BY <1>3 DEF vars, TypeOK, Created
<1> QED BY <1>1, <1>2, <1>3, TickTyped DEF Next

(***************************************************************************)
(* The lease's variables keep their types whatever processes do, stall and *)
(* die (lib/storage/transaction-lock.ts).                                  *)
(***************************************************************************)
THEOREM TypeCorrect == Spec => []TypeOK
BY InitTypeOK, NextTypeOK, PTL DEF Spec

-----------------------------------------------------------------------------
(* The inductive invariant.                                                *)

\* No mtime lies in the future, but for the rounding of the probe.
NoFuture ==
  /\ dir.mtime.at <= now + 1
  /\ \A p \in Procs :
       /\ \A m \in own[p] : m.at <= now + 1
       /\ proof[p] <= now
       /\ beat[p].at <= now

\* Who is about to break a directory has seen it stale ...
Judged(p) == pc[p] = "break" => foreign[p].at < now - STALE

\* ... and who holds a lease knows the mtimes it wrote or is about to write.
Remembered(p) ==
  /\ pc[p] \in {"held", "unlink"} => lockMtime[p] \in own[p]
  /\ beat[p] # None => pc[p] \in {"idle", "held", "unlink"}
  /\ beat[p] # None /\ pc[p] # "idle" => beat[p] \in own[p]

NotLate(p) == pc[p] # "rmdir" /\ (beat[p] # None => beat[p].at = now)

SettingUp(p) == pc[p] \in {"probe", "first_stat"} => dir.maker = p /\ dir.mtime.at >= now

LettingGo(p) == pc[p] = "unlink" => dir.maker = p /\ ~Stale(dir.mtime)

\* The directory is p's, as young as p's last proof, and no mtime p knows is
\* younger than it by more than the rounding - or a heartbeat is on its way.
Mine(p) ==
  /\ dir.maker = p
  /\ \/ beat[p] # None /\ ~Stale(dir.mtime)
     \/ dir.mtime.at >= proof[p] /\ \A m \in own[p] : m.at <= dir.mtime.at + 1

\* The directory was taken from p: it, and any to come, is younger than
\* every mtime p knows, so that p cannot take it for its own.
Gone(p) ==
  /\ dir.maker # p
  /\ \A m \in own[p] : m.at < now /\ (dir # NoDir => m.at < dir.mtime.at)

Standing(p) == pc[p] \in {"first_stat", "held", "unlink"} /\ ~compromised[p] => Mine(p) \/ Gone(p)

Sound(p) == NotLate(p) /\ SettingUp(p) /\ LettingGo(p) /\ Standing(p)

LeaseInv ==
  /\ NoFuture
  /\ \A p \in Procs : Judged(p) /\ Remembered(p)
  /\ ~apart => \A p \in Procs : Sound(p)

\* The variables of one process.
Same(q) ==
  /\ pc'[q] = pc[q] /\ own'[q] = own[q] /\ proof'[q] = proof[q]
  /\ foreign'[q] = foreign[q] /\ lockMtime'[q] = lockMtime[q]
  /\ beat'[q] = beat[q] /\ compromised'[q] = compromised[q]

\* Everything compared is a number.
LEMMA Ats ==
  ASSUME TypeOK
  PROVE  /\ now \in Nat /\ dir.mtime.at \in Int
         /\ dir = NoDir => dir.maker \notin Procs /\ dir.mtime.at = -1
         /\ None.at = -1
         /\ \A p \in Procs :
              /\ \A m \in own[p] : m.at \in Int
              /\ proof[p] \in Nat /\ foreign[p].at \in Int
              /\ beat[p].at \in Int /\ lockMtime[p].at \in Int
<1>1. None.at = -1
  BY DEF None
<1>2. \A m \in Mtimes : m.at \in Nat
  BY LeaseAssumption DEF Mtimes
<1>3. dir = NoDir => dir.maker \notin Procs /\ dir.mtime.at = -1
  BY Numbers DEF NoDir, None
<1>4. dir.mtime.at \in Int
  <2>1. CASE dir = NoDir BY <1>3, <2>1
  <2>2. CASE dir # NoDir BY <1>2, <2>2, DirKinds DEF Dirs
  <2> QED BY <2>1, <2>2
<1>5. now \in Nat /\ \A p \in Procs : proof[p] \in Nat
  BY Numbers DEF TypeOK
<1>6. ASSUME NEW p \in Procs
      PROVE  /\ \A m \in own[p] : m.at \in Int
             /\ foreign[p].at \in Int /\ beat[p].at \in Int /\ lockMtime[p].at \in Int
  <2>1. own[p] \in SUBSET Mtimes /\ {foreign[p], beat[p], lockMtime[p]} \subseteq Mtimes \cup {None}
    BY DEF TypeOK
  <2> QED BY <1>1, <1>2, <2>1
<1> QED BY <1>1, <1>3, <1>4, <1>5, <1>6

-----------------------------------------------------------------------------
(* What a step of another process does to q.                               *)

LEMMA Bystander ==
  ASSUME NEW q \in Procs, Same(q), now' = now, Judged(q), Remembered(q)
  PROVE  Judged(q)' /\ Remembered(q)'
BY DEF Same, Judged, Remembered

LEMMA Untouched ==
  ASSUME NEW q \in Procs, Same(q), now' = now, dir' = dir, Sound(q)
  PROVE  Sound(q)'
BY DEF Same, Sound, NotLate, SettingUp, LettingGo, Standing, Mine, Gone, Stale

LEMMA Retimed ==
  ASSUME TypeOK, NoFuture, NEW q \in Procs, Same(q), Sound(q), now' = now,
         dir # NoDir, dir' # NoDir, dir'.maker = dir.maker, dir'.mtime.at \in {now, now + 1}
  PROVE  Sound(q)'
<1>1. /\ now \in Nat /\ STALE \in Nat /\ dir.mtime.at \in Int /\ dir'.mtime.at \in Int
      /\ \A m \in own[q] : m.at \in Int /\ m.at <= now + 1
      /\ proof[q] \in Nat /\ proof[q] <= now
  BY Ats, Numbers DEF NoFuture
<1>2. dir'.mtime.at >= now /\ ~Stale(dir.mtime)'
  BY <1>1 DEF Stale
<1>3. SettingUp(q)' /\ LettingGo(q)' /\ NotLate(q)'
  BY <1>2 DEF Same, Sound, SettingUp, LettingGo, NotLate
<1>4. Mine(q) => Mine(q)'
  BY <1>1, <1>2 DEF Same, Mine
<1>5. Gone(q) => Gone(q)'
  BY <1>1, <1>2 DEF Same, Gone
<1> QED BY <1>3, <1>4, <1>5 DEF Same, Sound, Standing

LEMMA Made ==
  ASSUME TypeOK, NEW q \in Procs, Same(q), Sound(q), now' = now,
         dir = NoDir, dir'.maker # q, dir'.mtime.at = now
  PROVE  Sound(q)'
<1>1. now \in Nat /\ dir.maker # q /\ \A m \in own[q] : m.at \in Int
  BY Ats
<1>2. SettingUp(q)' /\ LettingGo(q)' /\ NotLate(q)' /\ ~Mine(q)
  BY <1>1 DEF Same, Sound, SettingUp, LettingGo, NotLate, Mine
<1>3. Gone(q) => Gone(q)'
  BY <1>1 DEF Same, Gone
<1> QED BY <1>2, <1>3 DEF Same, Sound, Standing

LEMMA Removed ==
  ASSUME TypeOK, NEW q \in Procs, Same(q), Sound(q), now' = now,
         dir' = NoDir, dir.maker # q \/ Stale(dir.mtime)
  PROVE  Sound(q)'
<1>1. /\ now \in Nat /\ STALE \in Nat /\ STALE >= 1 /\ dir.mtime.at \in Int
      /\ \A m \in own[q] : m.at \in Int
      /\ NoDir.maker # q
  BY Ats, Numbers DEF NoDir
<1>2. SettingUp(q)' /\ LettingGo(q)' /\ NotLate(q)'
  BY <1>1 DEF Same, Sound, SettingUp, LettingGo, NotLate, Stale
<1>3. Mine(q) => Gone(q)'
  BY <1>1 DEF Same, Mine, Gone, Stale
<1>4. Gone(q) => Gone(q)'
  BY <1>1 DEF Same, Gone
<1> QED BY <1>2, <1>3, <1>4 DEF Same, Sound, Standing

LEMMA Orphaned ==
  ASSUME NEW q \in Procs, Same(q), Sound(q), now' = now,
         dir # NoDir, dir.maker # q, dir'.maker # q, dir'.mtime = dir.mtime
  PROVE  Sound(q)'
<1>1. SettingUp(q)' /\ LettingGo(q)' /\ NotLate(q)' /\ ~Mine(q)
  BY DEF Same, Sound, SettingUp, LettingGo, NotLate, Mine
<1>2. Gone(q) => Gone(q)'
  BY DEF Same, Gone
<1> QED BY <1>1, <1>2 DEF Same, Sound, Standing

-----------------------------------------------------------------------------
(* What a step does to the process that takes it.                          *)

\* A step of p preserves the invariant if it does for p and, while no calls
\* were pulled apart, leaves everybody sound.
LEMMA OneMoves ==
  ASSUME LeaseInv, NEW p \in Procs, \A q \in Procs \ {p} : Same(q), now' = now,
         apart => apart', NoFuture', Judged(p)', Remembered(p)',
         ~apart' => \A q \in Procs : Sound(q)'
  PROVE  LeaseInv'
<1>1. \A q \in Procs : Judged(q)' /\ Remembered(q)'
  BY Bystander DEF LeaseInv
<1> QED BY <1>1 DEF LeaseInv

\* The steps of an acquisition that only look.
LEMMA Quiet ==
  ASSUME TypeOK, LeaseInv, NEW p \in Procs, beat[p] = None, own'[p] = {},
         NEW step \in {"idle", "mkdir", "stat", "break", "again"},
         pc' = [pc EXCEPT ![p] = step],
         \A q \in Procs \ {p} : own'[q] = own[q] /\ proof'[q] = proof[q] /\ foreign'[q] = foreign[q],
         proof'[p] \in {proof[p], now},
         step = "break" => foreign'[p].at < now - STALE,
         UNCHANGED <<now, dir, held, apart>>
  PROVE  LeaseInv'
<1>1. pc'[p] = step /\ \A q \in Procs \ {p} : pc'[q] = pc[q]
  BY DEF TypeOK
<1>2. \A q \in Procs \ {p} : Same(q)
  BY <1>1 DEF Same, held
<1>3. NoFuture'
  <2>1. now \in Nat /\ \A q \in Procs : proof[q] <= now
    BY Ats DEF LeaseInv, NoFuture
  <2>2. proof'[p] <= now
    BY <2>1
  <2>3. \A q \in Procs : own'[q] \subseteq own[q] /\ proof'[q] <= now /\ beat'[q] = beat[q]
    BY <2>1, <2>2 DEF held
  <2> QED BY <2>3 DEF LeaseInv, NoFuture
<1>4. Judged(p)' /\ Remembered(p)'
  BY <1>1 DEF Judged, Remembered, held
<1>5. ASSUME ~apart' PROVE \A q \in Procs : Sound(q)'
  <2>1. \A q \in Procs \ {p} : Sound(q)'
    BY <1>2, <1>5, Untouched DEF LeaseInv
  <2>2. Sound(p)'
    BY <1>1 DEF Sound, NotLate, SettingUp, LettingGo, Standing, held
  <2> QED BY <2>1, <2>2
<1> QED BY <1>2, <1>3, <1>4, <1>5, OneMoves

\* mkdir succeeds.
LEMMA MakeSound ==
  ASSUME TypeOK, LeaseInv, NEW p \in Procs, Make(p), ~Created(p), beat[p] = None,
         UNCHANGED <<now, since, own, held, apart>>
  PROVE  LeaseInv'
<1>1. /\ dir = NoDir
      /\ dir'.maker = p /\ dir'.mtime.at = now
      /\ pc'[p] = "probe" /\ proof'[p] = now /\ own'[p] = {} /\ beat'[p] = None
      /\ \A q \in Procs \ {p} : Same(q)
  BY DEF Make, Goto, TypeOK, Same, held
<1>2. now \in Nat /\ None.at = -1
  BY Ats
<1>3. NoFuture'
  <2>1. \A q \in Procs \ {p} : /\ \A m \in own'[q] : m.at <= now + 1
                               /\ proof'[q] <= now /\ beat'[q].at <= now
    BY <1>1 DEF Same, LeaseInv, NoFuture
  <2>2. dir'.mtime.at <= now + 1 /\ proof'[p] <= now /\ beat'[p].at <= now
    BY <1>1, <1>2
  <2> QED BY <1>1, <2>1, <2>2 DEF NoFuture
<1>4. Judged(p)' /\ Remembered(p)'
  BY <1>1 DEF Judged, Remembered
<1>5. ASSUME ~apart' PROVE \A q \in Procs : Sound(q)'
  <2>1. \A q \in Procs \ {p} : Sound(q)'
    BY <1>1, <1>5, Made DEF LeaseInv
  <2>2. Sound(p)'
    BY <1>1, <1>2 DEF Sound, NotLate, SettingUp, LettingGo, Standing
  <2> QED BY <2>1, <2>2
<1> QED BY <1>1, <1>3, <1>4, <1>5, OneMoves

\* A directory seen stale is removed, or its removal is put off.
LEMMA BreakSound ==
  ASSUME TypeOK, LeaseInv, NEW p \in Procs, Break(p), dir = NoDir \/ StillStale(p)
  PROVE  LeaseInv'
<1>1. /\ pc[p] = "break" /\ own[p] = {} /\ beat[p] = None
      /\ UNCHANGED <<now, since, own, proof, foreign, held>>
  BY DEF Break, TypeOK, Created, LeaseInv, Remembered
<1>2. \/ dir' = NoDir /\ pc' = [pc EXCEPT ![p] = "again"] /\ apart' = apart
      \/ dir' = dir /\ pc' = [pc EXCEPT ![p] = "rmdir"] /\ apart'
  BY DEF Break, RemoveNowOrLater, Goto
<1>3. pc'[p] \in {"again", "rmdir"} /\ \A q \in Procs \ {p} : Same(q)
  BY <1>1, <1>2 DEF TypeOK, Same, held
<1>4. now \in Nat /\ STALE \in Nat /\ dir.mtime.at \in Int
  BY Ats, Numbers
<1>5. NoFuture'
  <2>1. NoDir.mtime.at <= now + 1
    BY <1>4 DEF NoDir, None
  <2> QED BY <1>1, <1>2, <2>1 DEF LeaseInv, NoFuture, held
<1>6. Judged(p)' /\ Remembered(p)'
  BY <1>1, <1>3 DEF Judged, Remembered, held
<1>7. ASSUME ~apart' PROVE \A q \in Procs : Sound(q)'
  <2>1. dir' = NoDir /\ pc'[p] = "again"
    BY <1>2, <1>7 DEF TypeOK
  <2>2. ~apart
    BY <1>2, <1>7
  <2>3. dir = NoDir \/ Stale(dir.mtime)
    BY <1>1 DEF StillStale, LeaseInv, Judged, Stale
  <2>4. \A q \in Procs \ {p} : Sound(q)'
    <3> SUFFICES ASSUME NEW q \in Procs \ {p} PROVE Sound(q)'
      OBVIOUS
    <3>1. Same(q) /\ Sound(q) /\ now' = now
      BY <1>1, <1>3, <2>2 DEF LeaseInv
    <3>2. dir = NoDir => dir.maker # q
      BY Ats
    <3> QED BY <2>1, <2>3, <3>1, <3>2, Removed
  <2>5. Sound(p)'
    BY <1>1, <2>1 DEF Sound, NotLate, SettingUp, LettingGo, Standing, held
  <2> QED BY <2>4, <2>5
<1> QED BY <1>1, <1>2, <1>3, <1>5, <1>6, <1>7, OneMoves

\* The removal that was put off.
LEMMA RmdirSound ==
  ASSUME TypeOK, LeaseInv, NEW p \in Procs, Rmdir(p)
  PROVE  LeaseInv'
<1>1. /\ pc[p] = "rmdir" /\ own[p] = {} /\ beat[p] = None /\ dir' = NoDir
      /\ UNCHANGED <<now, since, own, proof, foreign, held, apart>>
      /\ pc' = [pc EXCEPT ![p] = "again"]
  BY DEF Rmdir, Goto, TypeOK, Created, LeaseInv, Remembered
<1>2. pc'[p] = "again" /\ \A q \in Procs \ {p} : Same(q)
  BY <1>1 DEF TypeOK, Same, held
<1>3. NoFuture'
  <2>1. NoDir.mtime.at <= now + 1
    BY Ats DEF NoDir, None
  <2> QED BY <1>1, <2>1 DEF LeaseInv, NoFuture, held
<1>4. Judged(p)' /\ Remembered(p)'
  BY <1>1, <1>2 DEF Judged, Remembered, held
<1>5. apart'
  BY <1>1 DEF LeaseInv, Sound, NotLate
<1> QED BY <1>1, <1>2, <1>3, <1>4, <1>5, OneMoves

LEMMA AcquireSound ==
  ASSUME TypeOK, LeaseInv, NEW p \in Procs,
         Begin(p) \/ Mkdir(p) \/ MkdirAgain(p) \/ Stat(p) \/ Break(p) \/ Rmdir(p)
  PROVE  LeaseInv'
<1>1. ASSUME pc[p] \in {"mkdir", "again", "stat", "break"}
      PROVE  beat[p] = None /\ own[p] = {} /\ ~Created(p)
  BY <1>1 DEF LeaseInv, Remembered, TypeOK, Created
<1>2. CASE Begin(p) BY <1>2, Quiet DEF Begin, Goto, TypeOK
<1>3. CASE Mkdir(p)
  <2>1. CASE Make(p) BY <1>1, <1>3, <2>1, MakeSound DEF Mkdir
  <2>2. CASE Goto(p, "stat") /\ UNCHANGED <<dir, foreign, proof>>
    BY <1>1, <1>3, <2>2, Quiet DEF Mkdir, Goto
  <2> QED BY <1>3, <2>1, <2>2 DEF Mkdir
<1>4. CASE MkdirAgain(p)
  <2>1. CASE Make(p) BY <1>1, <1>4, <2>1, MakeSound DEF MkdirAgain
  <2>2. CASE Retry(p) /\ UNCHANGED <<dir, foreign, proof>>
    BY <1>1, <1>4, <2>2, Quiet DEF MkdirAgain, Retry, Goto
  <2> QED BY <1>4, <2>1, <2>2 DEF MkdirAgain
<1>5. CASE Stat(p)
  <2>1. beat[p] = None /\ own'[p] = {} /\ UNCHANGED <<now, dir, since, own, proof, held, apart>>
    BY <1>1, <1>5 DEF Stat
  <2>2. CASE dir = NoDir BY <1>5, <2>1, <2>2, Quiet DEF Stat, Goto
  <2>3. CASE dir # NoDir
    <3>1. foreign' = [foreign EXCEPT ![p] = dir.mtime]
      BY <1>5, <2>3 DEF Stat
    <3>2. foreign'[p] = dir.mtime /\ \A q \in Procs \ {p} : foreign'[q] = foreign[q]
      BY <3>1 DEF TypeOK
    <3>3. \/ Stale(dir.mtime) /\ pc' = [pc EXCEPT ![p] = "break"]
          \/ pc' = [pc EXCEPT ![p] = "idle"] \/ pc' = [pc EXCEPT ![p] = "mkdir"]
      BY <1>5, <2>3 DEF Stat, Retry, Goto
    <3> QED BY <2>1, <3>2, <3>3, Quiet DEF Stale
  <2> QED BY <2>2, <2>3
<1>6. CASE Break(p)
  <2>1. CASE dir = NoDir \/ StillStale(p) BY <1>6, <2>1, BreakSound
  <2>2. CASE dir # NoDir /\ ~StillStale(p)
    <3>1. Retry(p) /\ UNCHANGED <<dir, apart>>
      BY <1>6, <2>2 DEF Break
    <3> QED BY <1>1, <1>6, <3>1, Quiet DEF Break, Retry, Goto
  <2> QED BY <2>1, <2>2
<1> QED BY <1>2, <1>3, <1>4, <1>5, <1>6, RmdirSound

\* Letting go of a directory that is one's own, stale, or left behind.
LEMMA ForgetSound ==
  ASSUME TypeOK, LeaseInv, NEW p \in Procs, Forget(p), now' = now,
         beat'[p] \in {beat[p], None}, \A q \in Procs \ {p} : beat'[q] = beat[q],
         apart => apart', dir'.mtime.at <= now + 1,
         ~apart' => \A q \in Procs \ {p} : Same(q) => Sound(q)'
  PROVE  LeaseInv'
<1>1. /\ pc'[p] = "idle" /\ own'[p] = {} /\ proof' = proof
      /\ \A q \in Procs \ {p} : Same(q)
  BY DEF Forget, Goto, TypeOK, Same
<1>2. now \in Nat /\ None.at = -1
  BY Ats
<1>3. NoFuture'
  <2>1. \A q \in Procs \ {p} : /\ \A m \in own'[q] : m.at <= now + 1
                               /\ proof'[q] <= now /\ beat'[q].at <= now
    BY <1>1 DEF Same, LeaseInv, NoFuture
  <2>2. proof'[p] <= now /\ beat'[p].at <= now
    BY <1>1, <1>2 DEF LeaseInv, NoFuture
  <2> QED BY <1>1, <2>1, <2>2 DEF NoFuture
<1>4. Judged(p)' /\ Remembered(p)'
  BY <1>1 DEF Judged, Remembered
<1>5. ASSUME ~apart' PROVE \A q \in Procs : Sound(q)'
  <2>1. NotLate(p)'
    BY <1>1, <1>5 DEF LeaseInv, Sound, NotLate
  <2>2. Sound(p)'
    BY <1>1, <2>1 DEF Sound, SettingUp, LettingGo, Standing
  <2> QED BY <1>1, <1>5, <2>2
<1> QED BY <1>1, <1>3, <1>4, <1>5, OneMoves

\* The precision probe and the first stat.
LEMMA SetUpSound ==
  ASSUME TypeOK, LeaseInv, NEW p \in Procs, ProbeUtimes(p) \/ FirstStat(p)
  PROVE  LeaseInv'
<1>1. /\ pc[p] \in {"probe", "first_stat"} /\ beat[p] = None /\ now' = now
      /\ apart' = apart /\ beat' = beat
  BY DEF ProbeUtimes, FirstStat, LeaseInv, Remembered, held, Forget
<1>2. now \in Nat /\ None.at = -1 /\ dir.mtime.at \in Int
  BY Ats
<1>3. CASE dir = NoDir
  <2>1. Forget(p) /\ dir' = dir
    BY <1>3 DEF ProbeUtimes, FirstStat
  <2>2. dir'.mtime.at <= now + 1
    BY <2>1 DEF LeaseInv, NoFuture
  <2>3. ~apart' => \A q \in Procs \ {p} : Same(q) => Sound(q)'
    BY <1>1, <2>1, Untouched DEF LeaseInv
  <2> QED BY <1>1, <2>1, <2>2, <2>3, ForgetSound
<1>4. CASE dir # NoDir /\ ProbeUtimes(p)
  <2> DEFINE mtime == [at |-> now + 1, by |-> Probe]
  <2>1. mtime.at = now + 1 /\ mtime \in Mtimes /\ dir \in Dirs
    BY <1>4, Written, DirKinds
  <2> HIDE DEF mtime
  <2>2. /\ own' = [own EXCEPT ![p] = @ \cup {mtime}]
        /\ dir' = [dir EXCEPT !.mtime = mtime]
        /\ proof' = [proof EXCEPT ![p] = now]
        /\ pc' = [pc EXCEPT ![p] = "first_stat"]
        /\ UNCHANGED <<foreign, held>>
    BY <1>4 DEF ProbeUtimes, Goto, mtime
  <2>3. /\ own'[p] = own[p] \cup {mtime} /\ proof'[p] = now /\ pc'[p] = "first_stat"
        /\ \A q \in Procs \ {p} : Same(q)
    BY <2>2 DEF TypeOK, Same, held
  <2>4. dir'.maker = dir.maker /\ dir'.mtime = mtime /\ dir' \in Dirs
    BY <2>1, <2>2, DirUpdates
  <2>5. NoFuture'
    <3>1. \A q \in Procs \ {p} : /\ \A m \in own'[q] : m.at <= now + 1
                                 /\ proof'[q] <= now /\ beat'[q].at <= now
      BY <2>3 DEF Same, LeaseInv, NoFuture
    <3>2. \A m \in own'[p] : m.at <= now + 1
      BY <1>2, <2>1, <2>3 DEF LeaseInv, NoFuture
    <3>3. dir'.mtime.at <= now + 1 /\ proof'[p] <= now /\ beat'[p].at <= now
      BY <1>1, <1>2, <2>1, <2>3, <2>4
    <3> QED BY <1>1, <3>1, <3>2, <3>3 DEF NoFuture
  <2>6. Judged(p)' /\ Remembered(p)'
    BY <1>1, <2>3 DEF Judged, Remembered
  <2>7. ASSUME ~apart' PROVE \A q \in Procs : Sound(q)'
    <3>1. dir.maker = p
      BY <1>1, <2>7 DEF LeaseInv, Sound, SettingUp
    <3>2. dir' # NoDir
      BY <2>4, <3>1, Numbers DEF NoDir
    <3>3. \A q \in Procs \ {p} : Sound(q)'
      BY <1>1, <1>4, <2>1, <2>3, <2>4, <2>7, <3>2, Retimed DEF LeaseInv
    <3>4. \A m \in own[p] : m.at \in Int /\ m.at <= now + 1
      BY Ats DEF LeaseInv, NoFuture
    <3>5. Mine(p)'
      BY <1>1, <1>2, <2>1, <2>3, <2>4, <3>1, <3>4 DEF Mine
    <3>6. Sound(p)'
      BY <1>1, <1>2, <2>1, <2>3, <2>4, <3>1, <3>5 DEF Sound, NotLate, SettingUp, LettingGo, Standing
    <3> QED BY <3>3, <3>6
  <2> QED BY <1>1, <2>3, <2>5, <2>6, <2>7, OneMoves
<1>5. CASE dir # NoDir /\ FirstStat(p)
  <2>1. /\ own' = [own EXCEPT ![p] = @ \cup {dir.mtime}]
        /\ proof' = [proof EXCEPT ![p] = now]
        /\ lockMtime' = [lockMtime EXCEPT ![p] = dir.mtime]
        /\ pc' = [pc EXCEPT ![p] = "held"]
        /\ pc[p] = "first_stat"
        /\ UNCHANGED <<foreign, compromised, dir>>
    BY <1>5 DEF FirstStat, Goto
  <2>2. /\ own'[p] = own[p] \cup {dir.mtime} /\ proof'[p] = now
        /\ lockMtime'[p] = dir.mtime /\ pc'[p] = "held"
        /\ \A q \in Procs \ {p} : Same(q)
    BY <1>1, <2>1 DEF TypeOK, Same
  <2>3. NoFuture'
    <3>1. \A q \in Procs \ {p} : /\ \A m \in own'[q] : m.at <= now + 1
                                 /\ proof'[q] <= now /\ beat'[q].at <= now
      BY <2>2 DEF Same, LeaseInv, NoFuture
    <3>2. \A m \in own'[p] : m.at <= now + 1
      BY <2>2 DEF LeaseInv, NoFuture
    <3>3. dir'.mtime.at <= now + 1 /\ proof'[p] <= now /\ beat'[p].at <= now
      BY <1>1, <1>2, <2>1, <2>2 DEF LeaseInv, NoFuture
    <3> QED BY <1>1, <3>1, <3>2, <3>3 DEF NoFuture
  <2>4. Judged(p)' /\ Remembered(p)'
    BY <1>1, <2>2 DEF Judged, Remembered
  <2>5. ASSUME ~apart' PROVE \A q \in Procs : Sound(q)'
    <3>1. dir.maker = p /\ dir.mtime.at >= now
      BY <1>1, <2>5 DEF LeaseInv, Sound, SettingUp
    <3>2. \A q \in Procs \ {p} : Sound(q)'
      BY <1>1, <2>1, <2>2, <2>5, Untouched DEF LeaseInv
    <3>3. \A m \in own[p] : m.at \in Int /\ m.at <= now + 1
      BY Ats DEF LeaseInv, NoFuture
    <3>4. Mine(p)'
      BY <1>1, <1>2, <2>1, <2>2, <3>1, <3>3 DEF Mine
    <3>5. Sound(p)'
      BY <1>1, <2>2, <3>4 DEF Sound, NotLate, SettingUp, LettingGo, Standing
    <3> QED BY <3>2, <3>5
  <2> QED BY <1>1, <2>2, <2>3, <2>4, <2>5, OneMoves
<1> QED BY <1>3, <1>4, <1>5

\* The heartbeat: its stat, and its utimes when nothing runs in between.
LEMMA BeatSound ==
  ASSUME TypeOK, LeaseInv, NEW p \in Procs, Beat(p)
  PROVE  LeaseInv'
<1>1. pc[p] = "held" /\ ~compromised[p] /\ beat[p] = None /\ UNCHANGED <<now, pc, since, foreign>>
  BY DEF Beat
<1>2. now \in Nat /\ None.at = -1 /\ dir.mtime.at \in Int /\ STALE \in Nat
  BY Ats, Numbers
<1>3. lockMtime[p] \in own[p]
  BY <1>1 DEF LeaseInv, Remembered
<1>4. CASE dir = NoDir
  <2>1. /\ compromised' = [compromised EXCEPT ![p] = TRUE]
        /\ UNCHANGED <<dir, own, proof, lockMtime, beat, apart>>
    BY <1>4 DEF Beat, Compromise
  <2>2. compromised'[p] /\ \A q \in Procs \ {p} : Same(q)
    BY <1>1, <2>1 DEF TypeOK, Same
  <2>3. NoFuture' /\ Judged(p)' /\ Remembered(p)'
    BY <1>1, <2>1 DEF LeaseInv, NoFuture, Judged, Remembered
  <2>4. ASSUME ~apart' PROVE \A q \in Procs : Sound(q)'
    <3>1. \A q \in Procs \ {p} : Sound(q)'
      BY <1>1, <2>1, <2>2, <2>4, Untouched DEF LeaseInv
    <3>2. Sound(p)'
      BY <1>1, <2>1, <2>2 DEF Sound, NotLate, SettingUp, LettingGo, Standing
    <3> QED BY <3>1, <3>2
  <2> QED BY <1>1, <2>1, <2>2, <2>3, <2>4, OneMoves
<1>5. CASE dir # NoDir
  <2> DEFINE mtime == [at |-> now, by |-> p]
  <2>1. mtime.at = now /\ mtime \in Mtimes /\ dir.mtime \in Mtimes /\ dir \in Dirs
    BY <1>5, BeatSteps
  <2>2. /\ proof' = [proof EXCEPT ![p] = now]
        /\ \/ /\ dir.mtime # lockMtime[p]
              /\ own' = [own EXCEPT ![p] = @ \cup {dir.mtime}]
              /\ compromised' = [compromised EXCEPT ![p] = TRUE]
              /\ UNCHANGED <<dir, lockMtime, beat, apart>>
           \/ /\ dir.mtime = lockMtime[p]
              /\ own' = [own EXCEPT ![p] = @ \cup {dir.mtime, mtime}]
              /\ dir' = [dir EXCEPT !.mtime = mtime]
              /\ lockMtime' = [lockMtime EXCEPT ![p] = mtime]
              /\ UNCHANGED <<beat, compromised, apart>>
           \/ /\ dir.mtime = lockMtime[p]
              /\ own' = [own EXCEPT ![p] = @ \cup {dir.mtime, mtime}]
              /\ beat' = [beat EXCEPT ![p] = mtime]
              /\ apart' = (apart \/ Stale(dir.mtime))
              /\ UNCHANGED <<dir, lockMtime, compromised>>
    BY <1>5, BeatSteps
  <2> HIDE DEF mtime
  <2>3. /\ own[p] \subseteq own'[p] /\ own'[p] \subseteq own[p] \cup {dir.mtime, mtime}
        /\ proof'[p] = now
    BY <2>2 DEF TypeOK
  <2>4. \A q \in Procs \ {p} : Same(q)
    BY <1>1, <2>2 DEF Same, TypeOK
  <2>5. beat'[p] \in {None, mtime} /\ (beat'[p] = mtime => mtime \in own'[p])
    <3>1. mtime # None
      BY <1>2, <2>1
    <3>2. \/ beat' = beat
          \/ beat' = [beat EXCEPT ![p] = mtime] /\ own' = [own EXCEPT ![p] = @ \cup {dir.mtime, mtime}]
      BY <2>2
    <3> QED BY <1>1, <3>1, <3>2 DEF TypeOK
  <2>6. lockMtime'[p] \in own'[p]
    BY <1>3, <2>2, <2>3 DEF TypeOK
  <2>7. dir' = dir \/ (dir'.maker = dir.maker /\ dir'.mtime = mtime /\ dir' \in Dirs)
    BY <2>1, <2>2, DirUpdates
  <2>8. apart => apart'
    BY <2>2
  <2>9. NoFuture'
    <3>1. \A q \in Procs \ {p} : /\ \A m \in own'[q] : m.at <= now + 1
                                 /\ proof'[q] <= now /\ beat'[q].at <= now
      BY <2>4 DEF Same, LeaseInv, NoFuture
    <3>2. \A m \in own'[p] : m.at <= now + 1
      BY <1>2, <2>1, <2>3 DEF LeaseInv, NoFuture
    <3>3. dir'.mtime.at <= now + 1 /\ proof'[p] <= now /\ beat'[p].at <= now
      BY <1>2, <2>1, <2>3, <2>5, <2>7 DEF LeaseInv, NoFuture
    <3> QED BY <1>1, <3>1, <3>2, <3>3 DEF NoFuture
  <2>10. Judged(p)' /\ Remembered(p)'
    BY <1>1, <2>5, <2>6 DEF Judged, Remembered
  <2>11. ASSUME ~apart' PROVE \A q \in Procs : Sound(q)'
    <3>1. \A q \in Procs : Sound(q)
      BY <2>8, <2>11 DEF LeaseInv
    <3>2. \A q \in Procs \ {p} : Sound(q)'
      <4> SUFFICES ASSUME NEW q \in Procs \ {p} PROVE Sound(q)'
        OBVIOUS
      <4>1. CASE dir' = dir BY <1>1, <2>4, <3>1, <4>1, Untouched
      <4>2. CASE dir'.maker = dir.maker /\ dir'.mtime = mtime /\ dir' \in Dirs
        <5>1. dir' # NoDir
          BY <1>2, <2>1, <4>2 DEF NoDir
        <5> QED BY <1>1, <1>5, <2>1, <2>4, <3>1, <4>2, <5>1, Retimed DEF LeaseInv
      <4> QED BY <2>7, <4>1, <4>2
    <3>3. ASSUME dir.mtime = lockMtime[p] PROVE dir.maker = p
      <4>1. Mine(p) \/ Gone(p)
        BY <1>1, <3>1 DEF Sound, Standing
      <4>2. ~Gone(p)
        BY <1>2, <1>3, <1>5, <3>3 DEF Gone
      <4> QED BY <4>1, <4>2 DEF Mine
    <3>4. compromised'[p] \/ Mine(p)'
      <4>1. CASE compromised' = [compromised EXCEPT ![p] = TRUE]
        BY <4>1 DEF TypeOK
      <4>2. CASE dir.mtime = lockMtime[p] /\ dir' = [dir EXCEPT !.mtime = mtime]
        <5>1. dir'.maker = p /\ dir'.mtime.at = now
          BY <2>1, <3>3, <4>2, DirUpdates
        <5>2. \A m \in own'[p] : m.at <= now + 1
          BY <1>1, <2>9 DEF NoFuture
        <5> QED BY <1>2, <2>3, <5>1, <5>2 DEF Mine
      <4>3. CASE dir.mtime = lockMtime[p] /\ beat' = [beat EXCEPT ![p] = mtime]
                 /\ apart' = (apart \/ Stale(dir.mtime)) /\ dir' = dir
        <5>1. dir'.maker = p /\ beat'[p] = mtime /\ mtime # None
          BY <1>2, <2>1, <3>3, <4>3 DEF TypeOK
        <5>2. ~Stale(dir.mtime)'
          BY <1>1, <2>11, <4>3 DEF Stale
        <5> QED BY <5>1, <5>2 DEF Mine
      <4> QED BY <2>2, <4>1, <4>2, <4>3
    <3>5. Sound(p)'
      BY <1>1, <2>1, <2>5, <3>4 DEF Sound, NotLate, SettingUp, LettingGo, Standing
    <3> QED BY <3>2, <3>5
  <2> QED BY <1>1, <2>4, <2>8, <2>9, <2>10, <2>11, OneMoves
<1> QED BY <1>4, <1>5

\* A heartbeat's utimes that was still under way.
LEMMA LandSound ==
  ASSUME TypeOK, LeaseInv, NEW p \in Procs, Land(p)
  PROVE  LeaseInv'
<1>1. /\ beat[p] # None /\ beat' = [beat EXCEPT ![p] = None]
      /\ UNCHANGED <<now, pc, since, own, foreign, apart>>
  BY DEF Land
<1>2. beat[p] \in Mtimes /\ beat[p].at \in Int /\ beat[p].at <= now
  BY <1>1, Ats DEF TypeOK, LeaseInv, NoFuture
<1>3. now \in Nat /\ None.at = -1 /\ STALE \in Nat
  BY Ats, Numbers
<1>4. pc[p] \in {"idle", "held", "unlink"} /\ (pc[p] # "idle" => beat[p] \in own[p])
  BY <1>1 DEF LeaseInv, Remembered
<1>5. /\ dir = NoDir => dir' = dir
      /\ dir # NoDir => dir' \in Dirs /\ dir'.maker = dir.maker /\ dir'.mtime = beat[p]
  BY <1>2, DirKinds, DirUpdates DEF Land
<1>6. /\ \A q \in Procs \ {p} : Same(q)
      /\ beat'[p] = None
      /\ proof'[p] \in {proof[p], now}
      /\ pc[p] = "held" => lockMtime'[p] \in {lockMtime[p], beat[p]}
      /\ pc[p] # "held" => lockMtime'[p] = lockMtime[p] /\ compromised'[p] = compromised[p]
      /\ pc[p] = "held" /\ dir = NoDir => compromised'[p]
      /\ compromised[p] => compromised'[p]
  BY <1>1 DEF Land, TypeOK, Same
<1>7. NoFuture'
  <2>1. \A q \in Procs \ {p} : /\ \A m \in own'[q] : m.at <= now + 1
                               /\ proof'[q] <= now /\ beat'[q].at <= now
    BY <1>6 DEF Same, LeaseInv, NoFuture
  <2>2. dir'.mtime.at <= now + 1
    BY <1>2, <1>3, <1>5 DEF LeaseInv, NoFuture
  <2>3. /\ proof'[p] <= now /\ beat'[p].at <= now
        /\ \A m \in own'[p] : m.at <= now + 1
    BY <1>1, <1>3, <1>6 DEF LeaseInv, NoFuture
  <2> QED BY <1>1, <2>1, <2>2, <2>3 DEF NoFuture
<1>8. Judged(p)' /\ Remembered(p)'
  BY <1>1, <1>4, <1>6 DEF LeaseInv, Judged, Remembered
<1>9. ASSUME ~apart' PROVE \A q \in Procs : Sound(q)'
  <2>1. \A q \in Procs : Sound(q)
    BY <1>1, <1>9 DEF LeaseInv
  <2>2. beat[p].at = now
    BY <1>1, <2>1 DEF Sound, NotLate
  <2>3. dir # NoDir => dir' # NoDir
    BY <1>1, <1>5 DEF NoDir
  <2>4. \A q \in Procs \ {p} : Sound(q)'
    <3> SUFFICES ASSUME NEW q \in Procs \ {p} PROVE Sound(q)'
      OBVIOUS
    <3>1. CASE dir = NoDir BY <1>1, <1>5, <1>6, <2>1, <3>1, Untouched
    <3>2. CASE dir # NoDir
      BY <1>1, <1>5, <1>6, <2>1, <2>2, <2>3, <3>2, Retimed DEF LeaseInv
    <3> QED BY <3>1, <3>2
  <2>5. ASSUME pc[p] = "unlink" PROVE dir.maker = p
    BY <2>1, <2>5 DEF Sound, LettingGo
  <2>6. dir = NoDir => dir.maker # p
    BY Ats
  <2>7. LettingGo(p)'
    BY <1>1, <1>3, <1>5, <2>2, <2>5, <2>6 DEF LettingGo, Stale
  <2>8. Standing(p)'
    <3> SUFFICES ASSUME pc[p] \in {"held", "unlink"}, ~compromised'[p] PROVE Mine(p)' \/ Gone(p)'
      BY <1>1, <1>4 DEF Standing
    <3>1. dir # NoDir
      BY <1>6, <2>5, <2>6
    <3>2. Mine(p) \/ Gone(p)
      BY <1>6, <2>1 DEF Sound, Standing
    <3>3. \A m \in own'[p] : m.at <= now + 1
      BY <1>1, <1>7 DEF NoFuture
    <3>4. proof'[p] <= now
      BY <1>1, <1>7 DEF NoFuture
    <3>5. Mine(p) => Mine(p)'
      BY <1>3, <1>5, <2>2, <3>1, <3>3, <3>4 DEF Mine
    <3>6. Gone(p) => Gone(p)'
      BY <1>1, <1>5, <2>2, <3>1 DEF Gone
    <3> QED BY <3>2, <3>5, <3>6
  <2>9. Sound(p)'
    BY <1>1, <1>4, <1>6, <2>7, <2>8 DEF Sound, NotLate, SettingUp
  <2> QED BY <2>4, <2>9
<1> QED BY <1>1, <1>6, <1>7, <1>8, <1>9, OneMoves

\* The directory a holder recognises is its own.
LEMMA Owner ==
  ASSUME TypeOK, NEW p \in Procs, Sound(p), pc[p] = "held", ~compromised[p],
         dir # NoDir, Recognised(p)
  PROVE  Mine(p) /\ dir.maker = p
<1>1. Mine(p) \/ Gone(p)
  BY DEF Sound, Standing
<1>2. dir.mtime.at \in Int
  BY Ats
<1>3. ~Gone(p)
  BY <1>2 DEF Gone, Recognised
<1> QED BY <1>1, <1>3 DEF Mine

\* A release, its unlink, and the death of the process.
LEMMA LetGoSound ==
  ASSUME TypeOK, LeaseInv, NEW p \in Procs, Release(p) \/ Unlink(p) \/ Crash(p)
  PROVE  LeaseInv'
<1>1. now' = now /\ now \in Nat /\ STALE \in Nat
  BY Ats, Numbers DEF Release, Unlink, Crash
<1>2. NoDir.mtime.at <= now + 1 /\ dir.mtime.at <= now + 1
  BY <1>1 DEF NoDir, None, LeaseInv, NoFuture
<1>3. ASSUME ~apart PROVE \A q \in Procs : Sound(q)
  BY <1>3 DEF LeaseInv
<1>4. CASE Forget(p) /\ dir' = dir /\ beat' = beat /\ apart' = apart
  <2>1. ~apart' => \A q \in Procs \ {p} : Same(q) => Sound(q)'
    BY <1>1, <1>3, <1>4, Untouched
  <2> QED BY <1>1, <1>2, <1>4, <2>1, ForgetSound
<1>5. CASE Forget(p) /\ dir' = NoDir /\ beat' = beat /\ apart' = apart
           /\ (~apart => dir.maker = p)
  <2>1. ~apart' => \A q \in Procs \ {p} : Same(q) => Sound(q)'
    BY <1>1, <1>3, <1>5, Removed
  <2> QED BY <1>1, <1>2, <1>5, <2>1, ForgetSound
<1>6. CASE Release(p)
  <2>1. CASE compromised[p] \/ dir = NoDir \/ ~Recognised(p)
    BY <1>4, <1>6, <2>1 DEF Release
  <2>2. CASE ~(compromised[p] \/ dir = NoDir \/ ~Recognised(p))
    <3>1. pc[p] = "held" /\ beat' = beat
      BY <1>6 DEF Release
    <3>2. ~apart => dir.maker = p
      BY <1>3, <2>2, <3>1, Owner
    <3>3. CASE dir' = NoDir /\ Forget(p) /\ apart' = apart
      BY <1>5, <3>1, <3>2, <3>3
    <3>4. CASE /\ pc' = [pc EXCEPT ![p] = "unlink"]
               /\ apart' = (apart \/ Stale(dir.mtime))
               /\ UNCHANGED <<dir, own, proof, foreign, lockMtime, compromised>>
      <4>1. pc'[p] = "unlink" /\ \A q \in Procs \ {p} : Same(q)
        BY <3>1, <3>4 DEF TypeOK, Same
      <4>2. NoFuture'
        BY <1>1, <3>1, <3>4 DEF LeaseInv, NoFuture
      <4>3. Judged(p)' /\ Remembered(p)'
        BY <3>1, <3>4, <4>1 DEF LeaseInv, Judged, Remembered
      <4>4. ASSUME ~apart' PROVE \A q \in Procs : Sound(q)'
        <5>1. ~apart /\ ~Stale(dir.mtime)
          BY <3>4, <4>4
        <5>2. \A q \in Procs \ {p} : Sound(q)'
          BY <1>1, <1>3, <3>4, <4>1, <5>1, Untouched
        <5>3. NotLate(p)' /\ LettingGo(p)'
          BY <1>1, <1>3, <3>1, <3>2, <3>4, <4>1, <5>1 DEF Sound, NotLate, LettingGo, Stale
        <5>4. Standing(p)'
          BY <1>1, <1>3, <3>1, <3>4, <5>1 DEF Sound, Standing, Mine, Gone, Stale
        <5> QED BY <4>1, <5>2, <5>3, <5>4 DEF Sound, SettingUp
      <4> QED BY <1>1, <3>4, <4>1, <4>2, <4>3, <4>4, OneMoves
    <3> QED BY <1>6, <2>2, <3>3, <3>4 DEF Release, Goto
  <2> QED BY <2>1, <2>2
<1>7. CASE Unlink(p)
  <2>1. ~apart => dir.maker = p
    BY <1>3, <1>7 DEF Unlink, Sound, LettingGo
  <2> QED BY <1>5, <1>7, <2>1 DEF Unlink
<1>8. CASE Crash(p)
  <2>1. /\ Forget(p) /\ apart' = apart /\ beat' = [beat EXCEPT ![p] = None]
        /\ dir' = IF dir # NoDir /\ dir.maker = p THEN [dir EXCEPT !.maker = Dead] ELSE dir
    BY <1>8 DEF Crash
  <2>2. beat'[p] = None /\ \A q \in Procs \ {p} : beat'[q] = beat[q]
    BY <2>1 DEF TypeOK
  <2>3. \/ dir' = dir
        \/ dir # NoDir /\ dir.maker = p /\ dir'.maker = Dead /\ dir'.mtime = dir.mtime
    BY <2>1, DirKinds, DirUpdates, <1>2
  <2>4. ASSUME ~apart', NEW q \in Procs \ {p}, Same(q) PROVE Sound(q)'
    BY <1>1, <1>3, <2>1, <2>3, <2>4, Untouched, Orphaned, Numbers
  <2> QED BY <1>1, <1>2, <2>1, <2>2, <2>3, <2>4, ForgetSound
<1> QED BY <1>6, <1>7, <1>8

\* Time passes.  Between two calls of one process it pulls them apart;
\* otherwise nothing the invariant compares with the clock gets younger.
LEMMA TickSound ==
  ASSUME TypeOK, LeaseInv, Tick
  PROVE  LeaseInv'
<1>1. /\ now' = now + 1 /\ UNCHANGED <<dir, pc, since, own, proof, foreign, lockMtime, beat, compromised>>
      /\ ~apart' => ~apart /\ \A p \in Procs :
           beat[p] = None /\ pc[p] \notin {"probe", "first_stat", "unlink"}
  BY DEF Tick, held
<1>2. /\ now \in Nat /\ STALE \in Nat /\ dir.mtime.at \in Int
      /\ \A p \in Procs : /\ \A m \in own[p] : m.at \in Int
                          /\ proof[p] \in Nat /\ foreign[p].at \in Int /\ beat[p].at \in Int
  BY Ats, Numbers
<1>3. NoFuture'
  BY <1>1, <1>2 DEF LeaseInv, NoFuture
<1>4. \A p \in Procs : Judged(p)' /\ Remembered(p)'
  BY <1>1, <1>2 DEF LeaseInv, Judged, Remembered
<1>5. ASSUME ~apart', NEW p \in Procs PROVE Sound(p)'
  <2>1. Sound(p) /\ beat[p] = None /\ pc[p] \notin {"probe", "first_stat", "unlink"}
    BY <1>1, <1>5 DEF LeaseInv
  <2>2. NotLate(p)' /\ SettingUp(p)' /\ LettingGo(p)'
    BY <1>1, <2>1 DEF Sound, NotLate, SettingUp, LettingGo
  <2>3. Mine(p) => Mine(p)'
    BY <1>1, <2>1 DEF Mine
  <2>4. Gone(p) => Gone(p)'
    BY <1>1, <1>2 DEF Gone
  <2> QED BY <1>1, <2>1, <2>2, <2>3, <2>4 DEF Sound, Standing
<1> QED BY <1>3, <1>4, <1>5 DEF LeaseInv

LEMMA InitLease == Init => LeaseInv
<1> SUFFICES ASSUME Init PROVE LeaseInv
  OBVIOUS
<1>1. dir.mtime.at \in {-1, 0}
  BY DEF Init, NoDir, None
<1>2. now = 1 /\ \A p \in Procs : /\ pc[p] = "idle" /\ own[p] = {} /\ proof[p] = 1
                                  /\ beat[p] = None /\ beat[p].at = -1
  BY DEF Init, None
<1>3. NoFuture
  BY <1>1, <1>2 DEF NoFuture
<1>4. \A p \in Procs : Judged(p) /\ Remembered(p) /\ Sound(p)
  BY <1>2 DEF Judged, Remembered, Sound, NotLate, SettingUp, LettingGo, Standing
<1> QED BY <1>3, <1>4 DEF LeaseInv

LEMMA NextLease == TypeOK /\ LeaseInv /\ [Next]_vars => LeaseInv'
<1> SUFFICES ASSUME TypeOK, LeaseInv, [Next]_vars PROVE LeaseInv'
  OBVIOUS
<1>1. ASSUME NEW p \in Procs, Contend(p) PROVE LeaseInv'
  BY <1>1, AcquireSound, SetUpSound DEF Contend
<1>2. ASSUME NEW p \in Procs, Hold(p) \/ Crash(p) PROVE LeaseInv'
  BY <1>2, BeatSound, LandSound, LetGoSound DEF Hold
<1>3. CASE UNCHANGED vars
  BY <1>3 DEF vars, LeaseInv, NoFuture, Judged, Remembered, Sound, NotLate, SettingUp,
     LettingGo, Standing, Mine, Gone, Stale
<1> QED BY <1>1, <1>2, <1>3, TickSound DEF Next

-----------------------------------------------------------------------------
(* What the invariant gives.                                               *)

(***************************************************************************)
(* assertValid() (transaction-lock.ts:243-247) passes only in the process  *)
(* that made the directory now at the path, and so never in two, unless a  *)
(* process was overtaken between two calls that nothing makes one: for any *)
(* number of processes, any stale window, and processes that miss whole    *)
(* heartbeats or die.                                                      *)
(***************************************************************************)
THEOREM ValidIsOwner == Spec => []ValidMeansOwner
<1>1. Init => TypeOK /\ LeaseInv
  BY InitTypeOK, InitLease
<1>2. TypeOK /\ LeaseInv /\ [Next]_vars => (TypeOK /\ LeaseInv)'
  BY NextTypeOK, NextLease
<1>3. TypeOK /\ LeaseInv => ValidMeansOwner
  <2> SUFFICES ASSUME TypeOK, LeaseInv, ~apart, NEW p \in Procs, Valid(p) PROVE dir.maker = p
    BY DEF ValidMeansOwner, StolenLeaseFails
  <2> QED BY Owner DEF Valid, LeaseInv
<1> QED BY <1>1, <1>2, <1>3, PTL DEF Spec

\* Who makes the directory go away.
LEMMA Removers ==
  ASSUME TypeOK, Next, dir # NoDir, dir' = NoDir
  PROVE  \E q \in Procs : Break(q) \/ Rmdir(q) \/ Release(q) \/ Unlink(q)
<1>1. dir \in Dirs /\ NoDir \notin Dirs
  <2>1. [NoDir EXCEPT !.mtime = None] = NoDir /\ NoDir.mtime = None /\ None.at = -1
    BY DEF NoDir, None
  <2>2. \A d \in Dirs : d.mtime.at >= 0
    BY LeaseAssumption DEF Dirs, Mtimes
  <2> QED BY <2>1, <2>2, DirKinds
<1>2. dir' # dir
  OBVIOUS
<1>3. ~Tick
  BY <1>2 DEF Tick
<1>4. ASSUME NEW q \in Procs, Begin(q) \/ Mkdir(q) \/ MkdirAgain(q) \/ Stat(q) \/ FirstStat(q)
      PROVE  FALSE
  BY <1>2, <1>4 DEF Begin, Mkdir, MkdirAgain, Stat, FirstStat, Make
<1>5. ASSUME NEW q \in Procs, ProbeUtimes(q) PROVE dir' \in Dirs
  <2> DEFINE mtime == [at |-> now + 1, by |-> Probe]
  <2>1. dir' = [dir EXCEPT !.mtime = mtime] /\ mtime \in Mtimes
    BY <1>5, Written DEF ProbeUtimes
  <2> HIDE DEF mtime
  <2> QED BY <1>1, <2>1, DirUpdates
<1>6. ASSUME NEW q \in Procs, Beat(q) PROVE dir' \in Dirs
  <2> DEFINE mtime == [at |-> now, by |-> q]
  <2>1. dir' \in {dir, [dir EXCEPT !.mtime = mtime]} /\ mtime \in Mtimes
    BY <1>6, BeatSteps
  <2> HIDE DEF mtime
  <2> QED BY <1>1, <2>1, DirUpdates
<1>7. ASSUME NEW q \in Procs, Land(q) PROVE dir' \in Dirs
  <2> DEFINE mtime == beat[q]
  <2>1. dir' = [dir EXCEPT !.mtime = mtime] /\ mtime \in Mtimes
    BY <1>7 DEF Land, TypeOK
  <2> HIDE DEF mtime
  <2> QED BY <1>1, <2>1, DirUpdates
<1>8. ASSUME NEW q \in Procs, Crash(q) PROVE dir' \in Dirs
  <2>1. dir' \in {dir, [dir EXCEPT !.maker = Dead]} /\ dir.mtime \in Mtimes
    BY <1>1, <1>8 DEF Crash, Dirs
  <2> QED BY <1>1, <2>1, DirUpdates
<1> QED BY <1>1, <1>3, <1>4, <1>5, <1>6, <1>7, <1>8 DEF Next, Contend, Hold

\* A directory whose maker is valid goes away in a release of its own only.
LEMMA OnlyOwnRemoval ==
  ASSUME TypeOK, LeaseInv, Next, ~apart', NEW p \in Procs, Valid(p), dir' = NoDir
  PROVE  pc'[p] # "held"
<1>1. pc[p] = "held" /\ ~compromised[p] /\ dir # NoDir /\ Recognised(p) /\ now - proof[p] < STALE
  BY DEF Valid
<1>2. PICK q \in Procs : Break(q) \/ Rmdir(q) \/ Release(q) \/ Unlink(q)
  BY <1>1, Removers
<1>3. apart => apart'
  BY <1>2 DEF Break, Rmdir, Release, Unlink, RemoveNowOrLater, TypeOK
<1>4. \A r \in Procs : Sound(r)
  BY <1>3 DEF LeaseInv
<1>5. Mine(p) /\ dir.maker = p
  BY <1>1, <1>4, Owner
<1>6. now \in Nat /\ STALE \in Nat /\ dir.mtime.at \in Int /\ proof[p] \in Nat
  BY Ats, Numbers
<1>7. ~Stale(dir.mtime)
  BY <1>1, <1>5, <1>6 DEF Mine, Stale
<1>8. ASSUME Break(q) PROVE FALSE
  <2>1. StillStale(q) /\ pc[q] = "break"
    BY <1>1, <1>8 DEF Break
  <2> QED BY <1>7, <2>1 DEF StillStale, LeaseInv, Judged, Stale
<1>9. ~Rmdir(q)
  BY <1>4 DEF Rmdir, Sound, NotLate
<1>10. ASSUME Release(q) PROVE pc'[p] # "held"
  <2>1. pc[q] = "held" /\ ~compromised[q] /\ Recognised(q)
    BY <1>1, <1>10 DEF Release
  <2>2. q = p
    BY <1>1, <1>4, <1>5, <2>1, Owner
  <2> QED BY <1>10, <2>2 DEF Release, Forget, Goto, TypeOK
<1>11. ASSUME Unlink(q) PROVE FALSE
  BY <1>1, <1>4, <1>5, <1>11 DEF Unlink, Sound, LettingGo
<1> QED BY <1>2, <1>8, <1>9, <1>10, <1>11

(***************************************************************************)
(* While no calls were pulled apart, nobody but its maker removes a        *)
(* directory whose maker could still pass assertValid(): not a stale       *)
(* break, not another's release or exit (transaction-lock.ts:228-236).     *)
(***************************************************************************)
THEOREM LiveLeaseStays == Spec => LiveLeaseNeverRemoved
<1>1. Init => TypeOK /\ LeaseInv
  BY InitTypeOK, InitLease
<1>2. TypeOK /\ LeaseInv /\ [Next]_vars => (TypeOK /\ LeaseInv)'
  BY NextTypeOK, NextLease
<1>3. TypeOK /\ LeaseInv /\ [Next]_vars =>
        [\A p \in Procs :
           ~apart' /\ Valid(p) /\ dir' = NoDir => pc'[p] # "held"]_vars
  BY OnlyOwnRemoval
<1> QED BY <1>1, <1>2, <1>3, PTL DEF Spec, LiveLeaseNeverRemoved

(***************************************************************************)
(* Nobody reports contention because of the directory of a holder that     *)
(* died before the wait began (transaction-lock.ts:17-29): a wait runs out *)
(* only over a directory younger than its own start.                       *)
(***************************************************************************)
THEOREM DeadHolderBreaks == Spec => DeadHolderIsBroken
<1>1. ASSUME TypeOK, NEW p \in Procs, Stat(p), pc'[p] = "idle"
      PROVE  dir.mtime.at > since[p] + 1
  <2>1. /\ now \in Nat /\ dir.mtime.at \in Int /\ since[p] \in Nat
        /\ STALE \in Nat /\ PATIENCE \in Nat /\ PATIENCE > STALE + 1
    <3>1. TypeOK /\ since[p] \in Times
      BY <1>1 DEF TypeOK
    <3> QED BY <3>1, Ats, Numbers
  <2>2. ~Stale(dir.mtime) /\ OutOfPatience(p)
    BY <1>1 DEF Stat, Retry, Goto, TypeOK
  <2> QED BY <2>1, <2>2 DEF Stale, OutOfPatience
<1>2. TypeOK /\ [Next]_vars =>
        [\A p \in Procs :
           /\ Stat(p)
           /\ pc'[p] = "idle" /\ dir.maker = Dead
           => dir.mtime.at > since[p] + 1]_vars
  BY <1>1
<1> QED BY <1>2, TypeCorrect, PTL DEF Spec, DeadHolderIsBroken

=============================================================================
