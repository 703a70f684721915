---------------------------- MODULE WorktreeLock ----------------------------
(***************************************************************************)
(* The advisory lock beside the accounts file (worktree-lock.ts) and the   *)
(* warning that two sessions share it (load-save.ts).  Every load and save *)
(* looks at the lock; a session that finds it free, its own, stale or a    *)
(* dead session's writes its own name, and one that finds another's warns  *)
(* and goes on.                                                            *)
(*                                                                         *)
(* The lock file is read, truncated and written in separate calls, and     *)
(* nothing holds other processes off meanwhile.                            *)
(***************************************************************************)
EXTENDS Naturals, FiniteSets

CONSTANTS
  Procs,      \* the sessions
  Old,        \* sessions that died before; the lock of one may be left
  Host,       \* session -> host
  Ops,        \* of "load", "save": what a session may have in flight at once
  StaleAfter, \* STALE_THRESHOLD_MS
  Throttle,   \* COLLISION_WARNING_THROTTLE_MS
  Fails,      \* of "crash", "io": what may go wrong
  MaxClock, MaxChecks  \* bounds: the time, and the checks of one session

VARIABLES
  clock,
  lock,     \* the file: None, Torn, or whose it is and since when
  state,    \* session -> "up", "leaving", "down" (shut down) or "dead" (killed)
  owned,    \* the sessions with the path among their ownedLockPaths
  leave,    \* session -> what its shutdown cleanup read
  check,    \* session, operation -> its acquireOrDetectLock
  warned,   \* session -> host of the other -> when it warned, or Never
  warnings, \* history: session -> host -> the times it warned, one by one
  done,     \* session -> number of its checks
  taken     \* history: the last lock that was replaced or removed

vars == <<clock, lock, state, owned, leave, check, warned, warnings, done, taken>>

Checks == Procs \X Ops
Hosts == {Host[p] : p \in DOMAIN Host}
Never == MaxClock + 1
Free(what) == [owner |-> what, active |-> 0, left |-> TRUE]
None == Free("none")
Torn == Free("torn")
Held(l) == l \notin {None, Torn}

\* What an earlier session may have left, one that had the process id of a new
\* one included.
Leftovers == {None, Torn} \cup [owner : Procs \cup Old, active : {0}, left : {TRUE}]
Locks == Leftovers \cup [owner : Procs, active : 0 .. MaxClock, left : {FALSE}]

\* raced: another session wrote or removed the file since this one read it.
Idle == [phase |-> "idle", seen |-> None, info |-> None, raced |-> FALSE]
Nothing == [by |-> "none", lock |-> None, live |-> FALSE, raced |-> FALSE]

Init ==
  /\ clock = 0
  /\ lock \in Leftovers
  /\ state = [p \in Procs |-> "up"] /\ owned = {}
  /\ leave = [p \in Procs |-> Idle]
  /\ check = [c \in Checks |-> Idle]
  /\ warned = [p \in Procs |-> [h \in Hosts |-> Never]]
  /\ warnings = [p \in Procs |-> [h \in Hosts |-> {}]]
  /\ done = [p \in Procs |-> 0] /\ taken = Nothing

-----------------------------------------------------------------------------
Tick ==
  /\ clock < MaxClock
  /\ clock' = clock + 1
  /\ UNCHANGED <<lock, state, owned, leave, check, warned, warnings, done, taken>>

Running(p) == state[p] \in {"up", "leaving"}
Stale(l) == clock - l.active > StaleAfter

\* processAlive, as p sees it: a process of another host cannot be asked.
Alive(o, p) == Host[o] # Host[p] \/ (o \in Procs /\ Running(o))

\* What p does to the file spoils what the others have read of it.
Raced(r) == IF r.phase = "idle" THEN r ELSE [r EXCEPT !.raced = TRUE]
SpoilChecks(p, f) == [c \in Checks |-> IF c[1] = p THEN f[c] ELSE Raced(f[c])]
SpoilLeaves(p) == [q \in Procs |-> IF q = p THEN leave[q] ELSE Raced(leave[q])]

Took(p, raced) ==
  [by |-> p, lock |-> lock, live |-> Held(lock) /\ lock.owner # p /\ ~Stale(lock) /\ Alive(lock.owner, p),
   raced |-> raced]

CheckIs(c, r) == check' = [check EXCEPT ![c] = r]

\* readLock: a missing file, or a text that does not parse, is no lock.
ReadLock(c) ==
  /\ state[c[1]] = "up" /\ check[c].phase = "idle" /\ done[c[1]] < MaxChecks
  /\ done' = [done EXCEPT ![c[1]] = @ + 1]
  /\ CheckIs(c, [Idle EXCEPT !.phase = "read", !.seen = lock])
  /\ UNCHANGED <<clock, lock, state, owned, leave, warned, warnings, taken>>

(* buildOwnLockInfo                                                        *)
OwnInfo(p) == [owner |-> p, active |-> clock, left |-> FALSE]

HasWarned(p, h) == warned[p][h] # Never /\ clock - warned[p][h] < Throttle

(* recordCollisionWarning                                                  *)
Warn(p, h) ==
  /\ warned' = [warned EXCEPT ![p] = [g \in Hosts |->
       IF g = h THEN clock ELSE IF HasWarned(p, g) THEN warned[p][g] ELSE Never]]
  /\ warnings' = [warnings EXCEPT ![p][h] = @ \cup {<<clock, Cardinality(@)>>}]

\* Ours to write: free, our own, stale, or a dead session's.
Ours(p, l) == ~Held(l) \/ l.owner = p \/ Stale(l) \/ ~Alive(l.owner, p)

Decide(c) ==
  LET p == c[1]
      seen == check[c].seen
  IN /\ Running(p) /\ check[c].phase = "read"
     /\ IF Ours(p, seen)
          THEN /\ CheckIs(c, [check[c] EXCEPT !.phase = "writing", !.info = OwnInfo(p)])
               /\ UNCHANGED <<warned, warnings>>
          ELSE /\ CheckIs(c, Idle)
               /\ IF HasWarned(p, Host[seen.owner]) THEN UNCHANGED <<warned, warnings>>
                  ELSE Warn(p, Host[seen.owner])
     /\ UNCHANGED <<clock, lock, state, owned, leave, done, taken>>

\* writeOurLock opens the file, which empties it, and then writes it.
Truncate(c) ==
  /\ Running(c[1]) /\ check[c].phase = "writing"
  /\ lock' = Torn /\ taken' = Took(c[1], check[c].raced)
  /\ check' = SpoilChecks(c[1], [check EXCEPT ![c].phase = "truncated"])
  /\ leave' = SpoilLeaves(c[1])
  /\ UNCHANGED <<clock, state, owned, warned, warnings, done>>

Write(c) ==
  /\ Running(c[1]) /\ check[c].phase = "truncated"
  /\ lock' = check[c].info /\ taken' = Took(c[1], check[c].raced)
  /\ check' = SpoilChecks(c[1], [check EXCEPT ![c].phase = "written"])
  /\ leave' = SpoilLeaves(c[1])
  /\ UNCHANGED <<clock, state, owned, warned, warnings, done>>

\* The path is this session's to release when it shuts down.
Own(c) ==
  /\ Running(c[1]) /\ check[c].phase = "written"
  /\ owned' = owned \cup {c[1]} /\ CheckIs(c, Idle)
  /\ UNCHANGED <<clock, lock, state, leave, warned, warnings, done, taken>>

\* A read or a write of the sidecar that fails is only logged.
Fail(c) ==
  /\ "io" \in Fails /\ Running(c[1])
  /\ check[c].phase \in {"read", "writing", "truncated"}
  /\ CheckIs(c, Idle)
  /\ UNCHANGED <<clock, lock, state, owned, leave, warned, warnings, done, taken>>

-----------------------------------------------------------------------------
(* ensureShutdownReleaseRegistered: the cleanup, while a check may still    *)
(* be in flight.                                                           *)
Shutdown(p) ==
  /\ state[p] = "up"
  /\ state' = [state EXCEPT ![p] = "leaving"] /\ owned' = owned \ {p}
  /\ leave' = [leave EXCEPT ![p] = IF p \in owned THEN [Idle EXCEPT !.phase = "reading"] ELSE Idle]
  /\ UNCHANGED <<clock, lock, check, warned, warnings, done, taken>>

ReleaseRead(p) ==
  /\ state[p] = "leaving" /\ leave[p].phase = "reading"
  /\ leave' = [leave EXCEPT ![p] = IF Held(lock) /\ lock.owner = p
                                    THEN [Idle EXCEPT !.phase = "unlinking", !.seen = lock] ELSE Idle]
  /\ UNCHANGED <<clock, lock, state, owned, check, warned, warnings, done, taken>>

Unlink(p) ==
  /\ state[p] = "leaving" /\ leave[p].phase = "unlinking"
  /\ \/ /\ lock' = None /\ taken' = Took(p, leave[p].raced)
        /\ check' = SpoilChecks(p, check)
        /\ leave' = [SpoilLeaves(p) EXCEPT ![p] = Idle]
     \/ /\ "io" \in Fails /\ leave' = [leave EXCEPT ![p] = Idle]
        /\ UNCHANGED <<lock, taken, check>>
  /\ UNCHANGED <<clock, state, owned, warned, warnings, done>>

NoChecks(p) == [c \in Checks |-> IF c[1] = p THEN Idle ELSE check[c]]

Exit(p) ==
  /\ state[p] = "leaving" /\ leave[p].phase = "idle"
  /\ state' = [state EXCEPT ![p] = "down"] /\ check' = NoChecks(p)
  /\ UNCHANGED <<clock, lock, owned, leave, warned, warnings, done, taken>>

Crash(p) ==
  /\ "crash" \in Fails /\ Running(p)
  /\ state' = [state EXCEPT ![p] = "dead"] /\ check' = NoChecks(p)
  /\ leave' = [leave EXCEPT ![p] = Idle] /\ owned' = owned \ {p}
  /\ UNCHANGED <<clock, lock, warned, warnings, done, taken>>

Next ==
  \/ Tick
  \/ \E c \in Checks : ReadLock(c)
  \/ \E c \in Checks : Decide(c)
  \/ \E c \in Checks : Truncate(c)
  \/ \E c \in Checks : Write(c)
  \/ \E c \in Checks : Own(c)
  \/ \E c \in Checks : Fail(c)
  \/ \E p \in Procs : Shutdown(p)
  \/ \E p \in Procs : ReleaseRead(p)
  \/ \E p \in Procs : Unlink(p)
  \/ \E p \in Procs : Exit(p)
  \/ \E p \in Procs : Crash(p)

Spec == Init /\ [][Next]_vars

-----------------------------------------------------------------------------
TypeOK ==
  /\ clock \in 0 .. MaxClock /\ lock \in Locks /\ owned \subseteq Procs
  /\ state \in [Procs -> {"up", "leaving", "down", "dead"}]
  /\ leave \in [Procs -> [phase : {"idle", "reading", "unlinking"}, seen : Locks, info : {None}, raced : BOOLEAN]]
  /\ check \in [Checks -> [phase : {"idle", "read", "writing", "truncated", "written"},
                           seen : Locks, info : Locks, raced : BOOLEAN]]
  /\ warned \in [Procs -> [Hosts -> 0 .. Never]] /\ done \in [Procs -> 0 .. MaxChecks]

(* A session that finds another at work warns: the lock of a live session  *)
(* that is not stale gives way without a word only to one that was looking *)
(* at the file while somebody else wrote it.                               *)
SilentOnlyInARace == taken.live => taken.raced

(* However many loads and saves look at once, a session warns of a host    *)
(* once in a window.                                                       *)
WarnedOnce ==
  \A p \in Procs : \A h \in Hosts : \A a, b \in warnings[p][h] :
    a[2] < b[2] => a[1] + Throttle <= b[1]

(* A lock a running session has written is one its shutdown will look for. *)
NoLockForgotten ==
  \A p \in Procs : state[p] = "up" /\ lock.owner = p /\ ~lock.left =>
    p \in owned \/ \E op \in Ops : check[<<p, op>>].phase = "written"

LockSafe == SilentOnlyInARace /\ WarnedOnce /\ NoLockForgotten

(* Refuted: a late shutdown leaves a newer session's lock alone, and leaves *)
(* none of its own.                                                        *)
ReleasesItsOwn == taken.live => taken.by \notin Procs \/ state[taken.by] # "leaving"
NoneLeft == \A p \in Procs : state[p] = "down" => lock.owner # p \/ lock.left
=============================================================================
