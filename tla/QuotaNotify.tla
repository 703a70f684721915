---------------------------- MODULE QuotaNotify ----------------------------
(***************************************************************************)
(* The quota monitors of the processes that share one accounts file        *)
(* (lib/quota-notifications.ts).  A check looks at the usage of every      *)
(* account, claims the right to announce what it saw in a state file under *)
(* a lease, and announces it after the lease is gone; a failed delivery    *)
(* gives the claim back.  A forced check, for a request that waits, looks  *)
(* and announces nothing.                                                  *)
(*                                                                         *)
(* A window's headroom is a level in 0..Top; Unseen, above them all, is    *)
(* the level nobody has seen yet.                                          *)
(***************************************************************************)
EXTENDS Naturals, FiniteSets, FiniteSetsExt

CONSTANTS
  Procs, Accounts, Windows,
  Top,        \* the headroom of a window that was just reset
  Thresholds, \* levels to announce
  Every,      \* notifyEveryCheck
  Interval,   \* intervalMs
  InOrder,    \* claims are made in the order of the looks they are about
  Faults,     \* what may fail: "delivery", "lease", "dispose" in a delivery, "lost" file
  MaxClock    \* bound

VARIABLES
  left,    \* what the backend has: account -> window -> level
  clock,
  state,   \* the state file: [pct, delivered, at]; at = 0: none
  memory,  \* process -> what it last wrote there
  monitor, \* process -> [timer, disposed]
  checks,  \* process -> [phase, seen, now, baseline, crossed, previous, after]
  told,    \* history: window -> threshold -> claims to announce it that stand,
           \* since one that saw the window above it, or Lost
  last,    \* history: the latest stamp of an announcement that was made
  early    \* history: one was made too early

vars == <<left, clock, state, memory, monitor, checks, told, last, early>>

Unseen == Top + 1

\* The claim that stands was neither announced nor given back.
Lost == 3

NoState == [pct |-> [w \in Windows |-> Unseen], delivered |-> 0, at |-> 0]

Quiet == [phase |-> "idle", seen |-> NoState.pct, now |-> 0,
          baseline |-> NoState, crossed |-> {}, previous |-> 0, after |-> 0]

Init ==
  /\ left = [a \in Accounts |-> [w \in Windows |-> Top]]
  /\ clock = 1
  /\ state = NoState /\ memory = [p \in Procs |-> NoState]
  /\ monitor = [p \in Procs |-> [timer |-> TRUE, disposed |-> FALSE]]
  /\ checks = [p \in Procs |-> Quiet]
  /\ told = [w \in Windows |-> [t \in Thresholds |-> 0]]
  /\ last = 0 /\ early = FALSE

-----------------------------------------------------------------------------
Goes(p, phase) == checks' = [checks EXCEPT ![p].phase = phase]

\* aggregateQuotaUsage: the headroom of the best account that answered.
Aggregate(answered) == [w \in Windows |-> Max({left[a][w] : a \in answered})]

\* transitionQuotaWindow: the thresholds it crosses downward.
Crossed(before, now) == {t \in Thresholds : now <= t /\ before > t}

\* The newer of what the process remembers and what it reads.
Baseline(p) == IF memory[p].at > state.at THEN memory[p] ELSE state

Latest(s, r) == IF s > r THEN s ELSE r

(***************************************************************************)
(* The world: quota is used and reset, time passes, a monitor is disposed, *)
(* the state file is lost.                                                 *)
(***************************************************************************)
Use(a, w) ==
  /\ left[a][w] > 0
  /\ left' = [left EXCEPT ![a][w] = @ - 1]
  /\ UNCHANGED <<clock, state, memory, monitor, checks, told, last, early>>

Reset(a, w) ==
  /\ left[a][w] < Top
  /\ left' = [left EXCEPT ![a][w] = Top]
  /\ UNCHANGED <<clock, state, memory, monitor, checks, told, last, early>>

Tick ==
  /\ clock < MaxClock
  /\ clock' = clock + 1
  /\ UNCHANGED <<left, state, memory, monitor, checks, told, last, early>>

Dispose(p) ==
  /\ ~monitor[p].disposed
  /\ "dispose" \in Faults \/ checks[p].phase \notin {"seen", "claimed"}
  /\ monitor' = [monitor EXCEPT ![p] = [timer |-> FALSE, disposed |-> TRUE]]
  /\ UNCHANGED <<left, clock, state, memory, checks, told, last, early>>

StateLost ==
  /\ "lost" \in Faults /\ state.at # 0 /\ \A p \in Procs : checks[p].phase \in {"idle", "polling", "probing"}
  /\ state' = NoState
  /\ UNCHANGED <<left, clock, memory, monitor, checks, told, last, early>>

(***************************************************************************)
(* A check.                                                                *)
(***************************************************************************)
\* The timer's tick: skipped while a check runs.
Poll(p) ==
  /\ monitor[p].timer
  /\ IF checks[p].phase = "idle"
       THEN Goes(p, "polling") /\ monitor' = [monitor EXCEPT ![p].timer = FALSE]
       ELSE UNCHANGED <<monitor, checks>>
  /\ UNCHANGED <<left, clock, state, memory, told, last, early>>

\* runNow.
Probe(p) ==
  /\ ~monitor[p].disposed /\ checks[p].phase = "idle"
  /\ Goes(p, "probing")
  /\ UNCHANGED <<left, clock, state, memory, monitor, told, last, early>>

\* The end of a tick: a poll arms the next one.
Ends(p) ==
  /\ checks' = [checks EXCEPT ![p] = Quiet]
  /\ monitor' = [monitor EXCEPT ![p].timer = @ \/ (checks[p].phase # "probing" /\ ~monitor[p].disposed)]

Probed(p) ==
  /\ checks[p].phase = "probing"
  /\ Ends(p)
  /\ UNCHANGED <<left, clock, state, memory, told, last, early>>

\* Nobody answered, or the monitor was disposed meanwhile.
Unanswered(p) ==
  /\ checks[p].phase = "polling"
  /\ Ends(p)
  /\ UNCHANGED <<left, clock, state, memory, told, last, early>>

Look(p) ==
  /\ checks[p].phase = "polling" /\ ~monitor[p].disposed
  /\ InOrder => \A q \in Procs : checks[q].phase # "seen"
  /\ \E answered \in (SUBSET Accounts) \ {{}} :
       checks' = [checks EXCEPT ![p].phase = "seen", ![p].seen = Aggregate(answered), ![p].now = clock]
  /\ UNCHANGED <<left, clock, state, memory, monitor, told, last, early>>

\* The state that announces what p saw, from the baseline b.
Claimed(p, b, announces) ==
  LET previous == Latest(state.delivered, memory[p].delivered)
  IN [pct |-> checks[p].seen, at |-> checks[p].now,
      delivered |-> IF announces THEN checks[p].now ELSE previous]

Told(before, seen) ==
  [w \in Windows |-> [t \in Thresholds |->
     IF seen[w] > t THEN 0
     ELSE IF before[w] > t /\ told[w][t] < 2 THEN told[w][t] + 1 ELSE told[w][t]]]

\* Mutant: the process believes what it remembers of the state file.
ClaimRemembered(p) ==
  LET c == checks[p]
      b == IF memory[p].at > 0 THEN memory[p] ELSE state
      crossed == {w \in Windows : Crossed(b.pct[w], c.seen[w]) # {}}
      next == Claimed(p, b, crossed # {})
  IN /\ c.phase = "seen"
     /\ state' = next /\ memory' = [memory EXCEPT ![p] = next]
     /\ told' = Told(b.pct, c.seen)
     /\ IF crossed # {}
          THEN /\ checks' = [checks EXCEPT ![p].phase = "claimed", ![p].baseline = b, ![p].crossed = crossed]
               /\ UNCHANGED monitor
          ELSE Ends(p)
     /\ UNCHANGED <<left, clock, last, early>>

Claim(p) ==
  LET c == checks[p]
      b == Baseline(p)
      crossed == {w \in Windows : Crossed(b.pct[w], c.seen[w]) # {}}
      previous == Latest(state.delivered, memory[p].delivered)
      due == Every /\ (previous = 0 \/ previous > c.now \/ c.now - previous >= Interval)
      announces == crossed # {} \/ due
      next == Claimed(p, b, announces)
  IN /\ c.phase = "seen"
     /\ state' = next /\ memory' = [memory EXCEPT ![p] = next]
     /\ told' = Told(b.pct, c.seen)
     /\ IF announces
          THEN /\ checks' = [checks EXCEPT ![p].phase = "claimed", ![p].baseline = b,
                                           ![p].crossed = crossed,
                                           ![p].previous = previous, ![p].after = last]
               /\ UNCHANGED monitor
          ELSE Ends(p)
     /\ UNCHANGED <<left, clock, last, early>>

\* The lease is not to be had, or the write fails: the check is dropped.
ClaimRefused(p) ==
  /\ "lease" \in Faults /\ checks[p].phase = "seen"
  /\ Ends(p)
  /\ UNCHANGED <<left, clock, state, memory, told, last, early>>

Deliver(p) ==
  LET c == checks[p]
  IN /\ c.phase = "claimed" /\ ~monitor[p].disposed
     /\ early' = (early \/ (c.crossed = {} /\ c.after # 0 /\ c.after + Interval > c.now))
     /\ last' = Latest(last, c.now)
     /\ Ends(p)
     /\ UNCHANGED <<left, clock, state, memory, told>>

Undelivered(p) ==
  /\ checks[p].phase = "claimed"
  /\ "delivery" \in Faults \/ monitor[p].disposed
  /\ Goes(p, "releasing")
  /\ told' = LET c == checks[p]
             IN [w \in Windows |-> [t \in Thresholds |->
                  IF t \in Crossed(c.baseline.pct[w], c.seen[w])
                    THEN IF told[w][t] = 2 THEN 1 ELSE 0 ELSE told[w][t]]]
  /\ UNCHANGED <<left, clock, state, memory, monitor, last, early>>

\* releaseUndeliveredClaim: the crossed windows go back, unless the file was written since.
Release(p) ==
  LET c == checks[p]
      reverted == [pct |-> [w \in Windows |-> IF w \in c.crossed THEN c.baseline.pct[w] ELSE c.seen[w]],
                   delivered |-> c.previous, at |-> clock]
  IN /\ c.phase = "releasing"
     /\ IF state.at = c.now
          THEN state' = reverted /\ memory' = [memory EXCEPT ![p] = reverted]
          ELSE /\ state' = IF state.at = 0 THEN memory[p] ELSE state
               /\ UNCHANGED memory
     /\ Ends(p)
     /\ UNCHANGED <<left, clock, told, last, early>>

\* It has no lease or the write fails, which is logged and forgotten.
ReleaseFails(p) ==
  LET c == checks[p]
  IN /\ "lease" \in Faults /\ c.phase = "releasing"
     /\ told' = [w \in Windows |-> [t \in Thresholds |->
                  IF t \in Crossed(c.baseline.pct[w], c.seen[w]) /\ told[w][t] = 0
                    THEN Lost ELSE told[w][t]]]
     /\ Ends(p)
     /\ UNCHANGED <<left, clock, state, memory, last, early>>

Next ==
  \/ \E a \in Accounts, w \in Windows : Use(a, w) \/ Reset(a, w)
  \/ Tick \/ StateLost
  \/ \E p \in Procs :
       \/ Dispose(p) \/ Poll(p) \/ Probe(p) \/ Probed(p) \/ Unanswered(p) \/ Look(p)
       \/ Claim(p) \/ ClaimRefused(p) \/ Deliver(p) \/ Undelivered(p) \/ Release(p)
       \/ ReleaseFails(p)

Spec == Init /\ [][Next]_vars

-----------------------------------------------------------------------------
Levels == [Windows -> 0..Unseen]

States == [pct : Levels, delivered : 0..MaxClock, at : 0..MaxClock]

TypeOK ==
  /\ left \in [Accounts -> [Windows -> 0..Top]] /\ clock \in 1..MaxClock
  /\ state \in States /\ memory \in [Procs -> States]
  /\ \A p \in Procs : checks[p].phase \in {"idle", "polling", "probing", "seen", "claimed", "releasing"}

(***************************************************************************)
(* A threshold is announced once until a claim has seen the window above   *)
(* it again ("concurrent OpenCode processes in one scope alert once").     *)
(***************************************************************************)
AnnouncedOnce == \A w \in Windows, t \in Thresholds : told[w][t] # 2

(***************************************************************************)
(* When no claim is open, a window that the next check takes to be below a *)
(* threshold has been announced, or giving its claim back failed as well   *)
(* as its delivery: a failed delivery alone is not forgotten.              *)
(***************************************************************************)
NothingForgotten ==
  (\A p \in Procs : checks[p].phase \notin {"claimed", "releasing"}) =>
    \A p \in Procs, w \in Windows, t \in Thresholds : Baseline(p).pct[w] <= t => told[w][t] # 0

(***************************************************************************)
(* A message that announces no crossing is never sent earlier than an      *)
(* interval after the last one.                                            *)
(***************************************************************************)
Spaced == ~early

(***************************************************************************)
(* A monitor that is not disposed has a timer or a poll that will arm it,  *)
(* whatever forced checks it runs.                                         *)
(***************************************************************************)
KeepsPolling ==
  \A p \in Procs : monitor[p].disposed \/ monitor[p].timer \/ checks[p].phase \notin {"idle", "probing"}

NotifySafe == AnnouncedOnce /\ NothingForgotten /\ Spaced /\ KeepsPolling
=============================================================================
