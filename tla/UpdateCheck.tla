---------------------------- MODULE UpdateCheck ----------------------------
(***************************************************************************)
(* The daily update check (auto-update-checker.ts): processes share a file *)
(* with the last answer of the registry; one that learns of a newer        *)
(* version promises it in a toast and deletes the host's cache of the      *)
(* plugin when it exits, so that the next start installs the latest.       *)
(***************************************************************************)
EXTENDS Integers

CONSTANTS
  Procs,       \* host processes
  Local,       \* those that load the plugin from a checkout
  Linked,      \* TRUE: the cache resolves to a directory outside of it
  AutoUpdate,  \* the setting
  Day,         \* CHECK_INTERVAL_MS
  Faults,      \* which of "fetch", "write", "kill", "rm" may happen
  MaxVersion,  \* bound: versions published
  MaxClock     \* bound: time

VARIABLES
  registry,  \* the latest version published
  disk,      \* the version in the host's cache; 0 when it was deleted
  file,      \* CACHE_FILE
  clock,
  proc,      \* each process
  was,       \* history: the version published when the clock showed t
  promised   \* history: the version promised by the processes that then exited

vars == <<registry, disk, file, clock, proc, was, promised>>

NoFile == [at |-> -1, latest |-> 0]
Off == [state |-> "off", running |-> 0, current |-> 0, stamp |-> 0, latest |-> 0, promise |-> 0, evicts |-> FALSE]

Init ==
  /\ registry = 1 /\ disk = 1 /\ file = NoFile /\ clock = 0
  /\ proc = [p \in Procs |-> Off]
  /\ was = [t \in 0..MaxClock |-> IF t = 0 THEN 1 ELSE 0]
  /\ promised = 0

Publish ==
  /\ registry < MaxVersion /\ registry' = registry + 1
  /\ UNCHANGED <<disk, file, clock, proc, was, promised>>

Tick ==
  /\ clock < MaxClock /\ clock' = clock + 1
  /\ was' = [was EXCEPT ![clock + 1] = registry]
  /\ UNCHANGED <<registry, disk, file, proc, promised>>

\* The host starts, installing the latest version when its cache has none.
Start(p) ==
  LET installed == IF disk = 0 THEN registry ELSE disk IN
  /\ proc[p].state = "off"
  /\ disk' = installed
  /\ proc' = [proc EXCEPT ![p] = [Off EXCEPT !.state = "started", !.running = installed]]
  /\ UNCHANGED <<registry, file, clock, was, promised>>

\* loadCache and the freshness check; a stamp in the future is no stamp.
Fresh == file.at \in 0..clock /\ clock - file.at < Day

\* The outcome of a check: a newer version is promised, and the eviction scheduled.
Notified(c, latest) ==
  [c EXCEPT !.state = "idle",
            !.promise = IF latest > c.current THEN latest ELSE 0,
            !.evicts = @ \/ (latest > c.current /\ AutoUpdate)]

\* checkAndNotify: nothing for a checkout; a fresh answer is used as it is.
\* getCurrentVersion reads the package on disk, which another process may have
\* deleted or replaced since this one loaded it.
Check(p) ==
  /\ proc[p].state = "started"
  /\ proc' = [proc EXCEPT ![p] =
       IF p \in Local THEN [@ EXCEPT !.state = "idle"]
       ELSE IF Fresh THEN Notified([@ EXCEPT !.current = disk], file.latest)
       ELSE [@ EXCEPT !.state = "asked", !.current = disk, !.stamp = clock]]
  /\ UNCHANGED <<registry, disk, file, clock, was, promised>>

\* The registry answers, or the fetch fails or times out: null.
Answer(p) ==
  /\ proc[p].state = "asked"
  /\ \E latest \in {registry} \union (IF "fetch" \in Faults THEN {0} ELSE {}) :
       proc' = [proc EXCEPT ![p].state = "answered", ![p].latest = latest]
  /\ UNCHANGED <<registry, disk, file, clock, was, promised>>

\* What saveCache writes: the time before the fetch, and the answer.
Stamped(c) == [at |-> c.stamp, latest |-> c.latest]

\* saveCache, whose failure is only logged, and the toast.
Settle(p) ==
  /\ proc[p].state = "answered"
  /\ file' = Stamped(proc[p]) \/ ("write" \in Faults /\ UNCHANGED file)
  /\ proc' = [proc EXCEPT ![p] = Notified(@, @.latest)]
  /\ UNCHANGED <<registry, disk, clock, was, promised>>

\* isEvictableCachePath: nothing that resolves outside the cache is deleted.
Evictable == ~Linked

\* The exit listener: clearManagedOpenCodePluginCache; rm may fail.
AfterExit(c) == IF c.evicts /\ Evictable THEN 0 ELSE disk

\* A clean exit.
Exit(p) ==
  /\ proc[p].state # "off"
  /\ \/ disk' = AfterExit(proc[p])
        /\ promised' = IF proc[p].evicts /\ proc[p].promise > promised THEN proc[p].promise
                       ELSE promised
     \/ "rm" \in Faults /\ proc[p].evicts /\ UNCHANGED <<disk, promised>>
  /\ proc' = [proc EXCEPT ![p] = Off]
  /\ UNCHANGED <<registry, file, clock, was>>

\* A killed process runs no listener.
Kill(p) ==
  /\ "kill" \in Faults /\ proc[p].state # "off"
  /\ proc' = [proc EXCEPT ![p] = Off]
  /\ UNCHANGED <<registry, disk, file, clock, was, promised>>

Next ==
  \/ Publish \/ Tick
  \/ \E p \in Procs : Start(p) \/ Check(p) \/ Answer(p) \/ Settle(p) \/ Exit(p) \/ Kill(p)

Spec == Init /\ [][Next]_vars

-----------------------------------------------------------------------------
TypeOK ==
  /\ registry \in 1..MaxVersion /\ disk \in 0..MaxVersion /\ clock \in 0..MaxClock
  /\ file \in [at : -1..MaxClock, latest : 0..MaxVersion]
  /\ \A p \in Procs : proc[p].state \in {"off", "started", "asked", "answered", "idle"}

\* The shared file never passes an older answer off as one of its time, so an
\* update is missed for a day after it is published and no longer.
StampIsTrue == file.latest = 0 \/ file.latest >= was[file.at]

\* "Restart OpenCode to install it automatically": a process that promised a
\* version and exited is followed by one that runs it.
PromiseKept == disk = 0 \/ disk >= promised

\* A checkout is never offered an update, nor the cache deleted on its behalf.
CheckoutUntouched == \A p \in Local : ~proc[p].evicts

\* An update is offered to a process that runs an older version (not when
\* another process evicted the cache before this one read its version).
OfferIsNewer == \A p \in Procs : proc[p].promise # 0 => proc[p].promise > proc[p].running

UpdateSafe == StampIsTrue /\ PromiseKept /\ CheckoutUntouched
=============================================================================
