---------------------------- MODULE ManagerCache ----------------------------
(***************************************************************************)
(* Which account manager the plugin's requests use: the cached one, the    *)
(* promise they share when there is none, its invalidation by logins and   *)
(* monitors, its reload by tools, and its reload when the stat watcher     *)
(* sees that another process changed the accounts file (index.ts).         *)
(*                                                                         *)
(* A version of the file is a number; a manager is known by the version it *)
(* was loaded from, 0 when the read failed: that gives no accounts and no  *)
(* error.  The file is never really empty here.                            *)
(***************************************************************************)
EXTENDS Naturals, Sequences

CONSTANTS
  Fetches,      \* requests of the host
  ToolsOverlap, \* the cache may be replaced while a tool reloads it
  StartFails,   \* a load that a starting request awaits may come back empty
  MaxWrites,    \* bound: changes of the file
  MaxLoads,     \* bound: loads
  MaxFailures   \* bound: loads that come back empty or rejected

VARIABLES
  file,     \* the version of the accounts file
  own,      \* lastWrittenAccounts: the version this process wrote, until compared
  foreign,  \* the last version another process wrote
  managers, \* the managers so far: [seen, disposed]
  cached,   \* cachedAccountManager; 0: none
  shared,   \* accountManagerPromise: its load; 0: none
  loads,    \* the loads so far: [seen, for, incumbent], for "done" once settled
  fetches,  \* request -> [phase, held, on]
  watch,    \* the watcher: [observed, timer, attempt, load]
  retry,    \* the timer that retries an empty reload: [left, armed, incumbent]
  tool,     \* the load of reloadCachedAccountManager, 0: none
  failures

vars == <<file, own, foreign, managers, cached, shared, loads, fetches, watch, retry, tool, failures>>

MaxAttempts == 2  \* retries of an external reload
MaxRetries == 3   \* EMPTY_RELOAD_MAX_RETRIES

Idle == [phase |-> "idle", held |-> 0, on |-> 0]

NoRetry == [left |-> MaxRetries, armed |-> FALSE, incumbent |-> 0]

Init ==
  /\ file = 1 /\ own = 0 /\ foreign = 1
  /\ managers = <<>> /\ cached = 0 /\ shared = 0 /\ loads = <<>>
  /\ fetches = [f \in Fetches |-> Idle]
  /\ watch = [observed |-> 1, timer |-> FALSE, attempt |-> 0, load |-> 0]
  /\ retry = NoRetry
  /\ tool = 0
  /\ failures = 0

-----------------------------------------------------------------------------
Empty(m) == managers[m].seen = 0
NewLoad == Len(loads) + 1
Begin(who, incumbent, version) ==
  loads' = Append(loads, [seen |-> version, for |-> who, incumbent |-> incumbent])
CanLoad == Len(loads) < MaxLoads

\* What a load can come to: the version read when it began, nothing, or an error.
Outcomes(l, mayBeEmpty) ==
  {loads[l].seen}
    \cup (IF failures < MaxFailures /\ mayBeEmpty THEN {0} ELSE {})

Counted(seen) == failures' = IF seen = 0 THEN failures + 1 ELSE failures

Settled(l) == loads' = [loads EXCEPT ![l].for = "done"]

Fresh == Len(managers) + 1
Loaded(seen, disposed) == Append(managers, [seen |-> seen, disposed |-> disposed])
Disposed(ms, gone) == [m \in DOMAIN ms |-> IF m \in gone THEN [ms[m] EXCEPT !.disposed = TRUE] ELSE ms[m]]

\* isUntrustworthyEmptyReload.
Untrustworthy(incumbent, seen) == incumbent # 0 /\ seen = 0 /\ ~Empty(incumbent)

\* scheduleEmptyReloadRetry: incumbent 0 retries the tool's reload.
Scheduled(incumbent) ==
  IF retry.left = 0 THEN [retry EXCEPT !.left = MaxRetries]
  ELSE [left |-> retry.left - 1, armed |-> TRUE, incumbent |-> incumbent]

(***************************************************************************)
(* The file changes.                                                       *)
(***************************************************************************)
ExternalWrite ==
  /\ file < MaxWrites
  /\ file' = file + 1 /\ foreign' = file'
  /\ UNCHANGED <<own, managers, cached, shared, loads, fetches, watch, retry, tool, failures>>

OwnWrite == file' = file + 1 /\ own' = file'

NoToolReload == ToolsOverlap \/ tool = 0

\* The debounced save of the cached manager.
Save ==
  /\ cached # 0 /\ file < MaxWrites
  /\ OwnWrite
  /\ UNCHANGED <<foreign, managers, cached, shared, loads, fetches, watch, retry, tool, failures>>

\* invalidateAccountManagerCache, after a login or a monitor's rotation.
Invalidate ==
  /\ file < MaxWrites /\ NoToolReload
  /\ OwnWrite
  /\ managers' = Disposed(managers, {cached})
  /\ cached' = 0 /\ shared' = 0
  /\ UNCHANGED <<foreign, loads, fetches, watch, retry, tool, failures>>

\* reloadCachedAccountManager, after a tool's write: the outgoing manager is flushed first.
ToolReload ==
  /\ file < MaxWrites /\ cached # 0 /\ tool = 0 /\ CanLoad
  /\ ToolsOverlap \/ watch.load = 0
  /\ OwnWrite
  /\ Begin("tool", cached, file')
  /\ tool' = NewLoad
  /\ UNCHANGED <<foreign, managers, cached, shared, fetches, watch, retry, failures>>

ToolReloaded ==
  LET l == tool
  IN /\ l # 0
     /\ \E seen \in Outcomes(l, TRUE) :
          /\ Counted(seen)
          /\ IF Untrustworthy(loads[l].incumbent, seen)
               THEN /\ managers' = Loaded(seen, TRUE)
                    /\ retry' = Scheduled(0)
                    /\ UNCHANGED <<cached, shared>>
               ELSE /\ managers' = Disposed(Loaded(seen, FALSE), {loads[l].incumbent})
                    /\ retry' = NoRetry
                    /\ cached' = Fresh /\ shared' = l
     /\ Settled(l)
     /\ tool' = 0
     /\ UNCHANGED <<file, own, foreign, fetches, watch>>

(***************************************************************************)
(* Requests.  One that finds no cached manager awaits the shared load; the *)
(* reactions of a settled load run together, those of the requests that    *)
(* are starting and those that hold a manager already in any order.        *)
(***************************************************************************)
ShareLoad ==
  IF shared # 0 THEN UNCHANGED <<loads, shared>> ELSE CanLoad /\ Begin("fetch", 0, file) /\ shared' = NewLoad

\* A load is started even when there is a cached manager; then nobody awaits it.
StartFetch(f) ==
  /\ fetches[f].phase = "idle"
  /\ ShareLoad
  /\ fetches' = [fetches EXCEPT ![f] =
       IF cached = 0 THEN [phase |-> "starting", held |-> 0, on |-> shared']
       ELSE [phase |-> "serving", held |-> cached, on |-> 0]]
  /\ UNCHANGED <<file, own, foreign, managers, cached, watch, retry, tool, failures>>

\* The next traversal of the accounts takes the manager that is cached by then.
Traverse(f) ==
  /\ fetches[f].phase = "serving" /\ cached # fetches[f].held
  /\ IF cached = 0
       THEN ShareLoad /\ fetches' = [fetches EXCEPT ![f].phase = "again", ![f].on = shared']
       ELSE /\ fetches' = [fetches EXCEPT ![f].held = cached]
            /\ UNCHANGED <<loads, shared>>
  /\ UNCHANGED <<file, own, foreign, managers, cached, watch, retry, tool, failures>>

EndFetch(f) ==
  /\ fetches[f].phase = "serving"
  /\ fetches' = [fetches EXCEPT ![f] = Idle]
  /\ UNCHANGED <<file, own, foreign, managers, cached, shared, loads, watch, retry, tool, failures>>

Waiting(l) == {f \in Fetches : fetches[f].on = l}

FetchLoaded(l) ==
  LET starting == {f \in Waiting(l) : fetches[f].phase = "starting"}
      again == Waiting(l) \ starting
      Serve(g, m) == [g EXCEPT !.phase = "serving", !.held = m, !.on = 0]
  IN /\ loads[l].for = "fetch" /\ Waiting(l) # {} /\ Settled(l)
     /\ \E seen \in Outcomes(l, starting = {} \/ StartFails), refusedFirst \in BOOLEAN :
          LET refusing == {f \in again : cached = 0 /\ Untrustworthy(fetches[f].held, seen)}
              adopts == cached = 0 /\ (starting # {} \/ again # refusing)
              refuses == refusing # {} /\ (~adopts \/ refusedFirst)
              using == IF adopts THEN Fresh ELSE cached
          IN /\ Counted(seen)
             /\ managers' = Loaded(seen, cached # 0 \/ refuses)
             /\ cached' = using
             /\ shared' = IF refuses /\ shared = l THEN 0 ELSE shared
             /\ retry' = IF refuses
                           THEN Scheduled(fetches[CHOOSE f \in refusing : TRUE].held) ELSE retry
             /\ fetches' = [f \in Fetches |->
                  IF f \notin Waiting(l) THEN fetches[f]
                  ELSE IF f \in refusing /\ refuses THEN Serve(fetches[f], fetches[f].held)
                  ELSE Serve(fetches[f], using)]
     /\ UNCHANGED <<file, own, foreign, watch, tool>>

\* The load rejects: its requests fail, and the next one loads again.
FetchLoadFails(l) ==
  /\ loads[l].for = "fetch" /\ failures < MaxFailures
  /\ failures' = failures + 1
  /\ Settled(l)
  /\ shared' = IF shared = l THEN 0 ELSE shared
  /\ fetches' = [f \in Fetches |-> IF f \in Waiting(l) THEN Idle ELSE fetches[f]]
  /\ UNCHANGED <<file, own, foreign, managers, cached, watch, retry, tool>>

(***************************************************************************)
(* repopulateAccountManagerCache, and the timer that retries it or the     *)
(* tool's reload.                                                          *)
(***************************************************************************)
RetryFires ==
  /\ retry.armed /\ CanLoad
  /\ retry' = [retry EXCEPT !.armed = FALSE]
  /\ IF retry.incumbent # 0
       THEN Begin("retry", retry.incumbent, file) /\ UNCHANGED tool
     ELSE IF cached # 0 /\ tool = 0 /\ (ToolsOverlap \/ watch.load = 0)
       THEN Begin("tool", cached, file) /\ tool' = NewLoad
       ELSE UNCHANGED <<loads, tool>>
  /\ UNCHANGED <<file, own, foreign, managers, cached, shared, fetches, watch, failures>>

Repopulated(l) ==
  /\ loads[l].for = "retry"
  /\ \E seen \in Outcomes(l, TRUE) :
       /\ Counted(seen)
       /\ IF cached # 0
            THEN /\ managers' = Loaded(seen, TRUE)
                 /\ UNCHANGED <<cached, shared, retry>>
          ELSE IF Untrustworthy(loads[l].incumbent, seen)
            THEN /\ managers' = Loaded(seen, TRUE)
                 /\ retry' = Scheduled(loads[l].incumbent)
                 /\ UNCHANGED <<cached, shared>>
            ELSE /\ managers' = Loaded(seen, FALSE)
                 /\ retry' = NoRetry
                 /\ cached' = Fresh /\ shared' = l
  /\ Settled(l)
  /\ UNCHANGED <<file, own, foreign, fetches, watch, tool>>

\* The load of a tool or of a retry rejects: what there was stays.
ReloadFails(l) ==
  /\ loads[l].for \in {"tool", "retry"} /\ failures < MaxFailures
  /\ failures' = failures + 1
  /\ Settled(l)
  /\ tool' = IF tool = l THEN 0 ELSE tool
  /\ UNCHANGED <<file, own, foreign, managers, cached, shared, fetches, watch, retry>>

(***************************************************************************)
(* The watcher.  It polls; what this process wrote itself is not reloaded. *)
(***************************************************************************)
Poll ==
  /\ watch.observed # file
  /\ own' = 0
  /\ watch' = [watch EXCEPT !.observed = file, !.timer = own # file, !.attempt = 0]
  /\ UNCHANGED <<file, foreign, managers, cached, shared, loads, fetches, retry, tool, failures>>

\* reloadForExternalAccountsChange up to its load: the cached manager is retired.
ExternalReload ==
  /\ watch.timer /\ watch.load = 0 /\ CanLoad /\ NoToolReload
  /\ own' = 0
  /\ IF own = file
       THEN /\ watch' = [watch EXCEPT !.timer = FALSE]
            /\ UNCHANGED <<managers, loads>>
       ELSE /\ Begin("watch", 0, file)
            /\ managers' = Disposed(managers, {cached})
            /\ watch' = [watch EXCEPT !.timer = FALSE, !.load = NewLoad]
  /\ UNCHANGED <<file, foreign, cached, shared, fetches, retry, tool, failures>>

ExternalReloaded ==
  LET l == watch.load
  IN /\ l # 0
     /\ \E seen \in Outcomes(l, TRUE) :
          /\ Counted(seen)
          /\ IF seen = 0
               THEN /\ managers' = Loaded(seen, TRUE)
                    /\ watch' = [watch EXCEPT !.load = 0, !.attempt = @ + 1,
                                              !.timer = @ \/ watch.attempt < MaxAttempts]
                    /\ UNCHANGED <<cached, shared>>
               ELSE /\ managers' = Disposed(Loaded(seen, FALSE), {cached})
                    /\ cached' = Fresh /\ shared' = l
                    /\ watch' = [watch EXCEPT !.load = 0, !.observed = loads[l].seen]
     /\ Settled(l)
     /\ UNCHANGED <<file, own, foreign, fetches, retry, tool>>

Next ==
  \/ ExternalWrite \/ Save \/ Invalidate \/ ToolReload \/ ToolReloaded
  \/ \E f \in Fetches : StartFetch(f) \/ Traverse(f) \/ EndFetch(f)
  \/ \E l \in DOMAIN loads :
       FetchLoaded(l) \/ FetchLoadFails(l) \/ Repopulated(l) \/ ReloadFails(l)
  \/ RetryFires
  \/ Poll \/ ExternalReload \/ ExternalReloaded

Spec == Init /\ [][Next]_vars

-----------------------------------------------------------------------------
TypeOK ==
  /\ {own, foreign} \subseteq 0..file /\ file \in 1..MaxWrites
  /\ {cached} \cup {fetches[f].held : f \in Fetches} \subseteq 0..Len(managers)
  /\ {shared, watch.load, tool} \subseteq 0..Len(loads)
  /\ \A m \in DOMAIN managers : managers[m].seen \in 0..file
  /\ \A f \in Fetches : fetches[f].phase \in {"idle", "starting", "again", "serving"}

(***************************************************************************)
(* A manager that is no longer cached is retired, so that it cannot write  *)
(* the pool as it was over what its successor loaded.                      *)
(***************************************************************************)
OrphansRetired == \A m \in DOMAIN managers : m # cached => managers[m].disposed

(***************************************************************************)
(* When the last change of the file is another process's and the watcher   *)
(* is at rest, without having given up, the cached manager is of that      *)
(* version and is not retired.                                             *)
(***************************************************************************)
AtRest ==
  /\ watch.observed = file /\ ~watch.timer /\ watch.load = 0
  /\ watch.attempt <= MaxAttempts

RestMeansCurrent ==
  AtRest /\ foreign = file /\ cached # 0 =>
    managers[cached].seen = file /\ ~managers[cached].disposed

\* Stronger, and not so: a save of this process that lands between another
\* process's change and the next poll hides that change for good.
ForeignAdopted == AtRest /\ cached # 0 => managers[cached].seen >= foreign

(***************************************************************************)
(* A request never trades the accounts it serves from for none.            *)
(***************************************************************************)
ServedPoolKept ==
  \A f \in Fetches : fetches[f].phase = "serving" => ~Empty(fetches[f].held)

CacheSafe == OrphansRetired /\ RestMeansCurrent /\ ServedPoolKept
=============================================================================
