---------------------------- MODULE PoolReadings ----------------------------
(***************************************************************************)
(* The readings behind the pool-wide status line (tui-quota-overview.ts,   *)
(* tui.ts).  Every terminal takes the snapshot in the shared cache file    *)
(* while it is fresh, and otherwise asks the usage endpoint for every      *)
(* stored account, two at a time.  An account that cannot be read keeps    *)
(* the reading it had.  The account that serves requests is newer still:   *)
(* its last response's headers are laid over the snapshot.                 *)
(*                                                                         *)
(* What the provider would report for a seat is a version, which a request *)
(* makes the next one.  Stamp 0 is a reading without a time of its own,    *)
(* from a build that did not write one.                                    *)
(***************************************************************************)
EXTENDS Naturals, FiniteSets, FiniteSetsExt

CONSTANTS
  Seats,      \* the accounts
  Pools,      \* what may be stored: functions from positions to seats, the
              \* disabled and the repeated accounts left out
  Terminals,  \* processes with a pool line
  FreshFor,   \* TUI_QUOTA_SNAPSHOT_FRESH_MS
  OldBuild,   \* the first snapshot was written by a build without stamps
  Hazards,    \* of "served", "dies", "login", "moves": what happens meanwhile;
              \* "slow start": a pass may look at the file long after its now
  MaxVersion, MaxToken, MaxClock  \* bounds

VARIABLES
  clock,
  used,     \* provider: seat -> version
  base,     \* history: time -> seat -> version when that tick began
  dead,     \* the seats whose credentials no longer work
  token,    \* seat -> number of its stored refresh token
  pool,     \* what is stored
  latest,   \* readSharedQuotaStatus: the last response's reading
  file,     \* the overview cache file
  pass,     \* terminal -> its refreshQuotaOverview in flight
  view      \* terminal -> what its line was last told

vars == <<clock, used, base, dead, token, pool, latest, file, pass, view>>
world == <<clock, used, base, dead, token, pool, latest>>

NoHeaders == [print |-> <<"none", 0>>, version |-> 0, at |-> 0]
NoSnapshot == [at |-> 0, readings |-> {}]
Idle == [phase |-> "idle", now |-> 0, cached |-> NoSnapshot, stored |-> <<>>, prints |-> <<>>,
         results |-> <<>>, snapshot |-> NoSnapshot]
Loading == [type |-> "loading", snapshot |-> NoSnapshot, stale |-> FALSE, now |-> 0]

Fingerprint(s) == <<s, token[s]>>

Reading(i, print, version, at) ==
  [index |-> i, print |-> print, of |-> print[1], version |-> version, at |-> at,
   failed |-> 0, since |-> 0]

Init ==
  /\ clock = 1 /\ used = [s \in Seats |-> 1]
  /\ base = [t \in 0 .. MaxClock |-> [s \in Seats |-> 1]]
  /\ dead = {} /\ token = [s \in Seats |-> 1] /\ pool \in Pools
  /\ latest = NoHeaders
  /\ file = IF OldBuild
              THEN [at |-> 1, readings |-> {Reading(i, Fingerprint(pool[i]), 1, 0) : i \in DOMAIN pool}]
              ELSE NoSnapshot
  /\ pass = [t \in Terminals |-> Idle]
  /\ view = [t \in Terminals |-> Loading]

-----------------------------------------------------------------------------
(* The world.                                                              *)

\* A request is answered; its reading reaches the shared cache, or does not.
Serve(s) ==
  /\ "served" \in Hazards /\ used[s] < MaxVersion /\ s \notin dead
  /\ used' = [used EXCEPT ![s] = @ + 1]
  /\ latest' \in {latest, [print |-> Fingerprint(s), version |-> used[s] + 1, at |-> clock]}
  /\ UNCHANGED <<clock, base, dead, token, pool, file, pass, view>>

\* The login of a seat dies, or is done again under a new token.
Dies(s) ==
  /\ "dies" \in Hazards /\ s \notin dead
  /\ dead' = dead \cup {s}
  /\ UNCHANGED <<clock, used, base, token, pool, latest, file, pass, view>>

Login(s) ==
  /\ "login" \in Hazards /\ token[s] < MaxToken
  /\ dead' = dead \ {s} /\ token' = [token EXCEPT ![s] = @ + 1]
  /\ UNCHANGED <<clock, used, base, pool, latest, file, pass, view>>

\* Accounts are added, removed, moved or disabled.
PoolChanges ==
  /\ "moves" \in Hazards /\ pool' \in Pools \ {pool}
  /\ UNCHANGED <<clock, used, base, dead, token, latest, file, pass, view>>

\* A pass that has its now looks at the file before any time is up, unless slow.
Tick ==
  /\ clock < MaxClock
  /\ "slow start" \in Hazards \/ \A t \in Terminals : pass[t].phase # "begun"
  /\ clock' = clock + 1
  /\ base' = [base EXCEPT ![clock + 1] = used]
  /\ UNCHANGED <<used, dead, token, pool, latest, file, pass, view>>

-----------------------------------------------------------------------------
(* One pass.                                                               *)

IsFresh(at, now) == now < at + FreshFor

Goes(t, p) == pass' = [pass EXCEPT ![t] = p]

\* refreshQuotaOverview: the interval, or an event; one pass at a time.
Begin(t) ==
  /\ pass[t].phase = "idle"
  /\ Goes(t, [Idle EXCEPT !.phase = "begun", !.now = clock])
  /\ UNCHANGED <<world, file, view>>

ReadCache(t) ==
  /\ pass[t].phase = "begun"
  /\ Goes(t, IF file # NoSnapshot /\ IsFresh(file.at, pass[t].now)
               THEN [pass[t] EXCEPT !.phase = "merging", !.snapshot = file]
               ELSE [pass[t] EXCEPT !.phase = "cached", !.cached = file])
  /\ UNCHANGED <<world, file, view>>

Unavailable(t) == view' = [view EXCEPT ![t] = [Loading EXCEPT !.type = "unavailable"]]

LoadStorage(t) ==
  /\ pass[t].phase = "cached"
  /\ IF DOMAIN pool = {} THEN Goes(t, Idle) /\ Unavailable(t)
     ELSE /\ Goes(t, [pass[t] EXCEPT !.phase = "fetching", !.stored = pool,
                                     !.prints = [i \in DOMAIN pool |-> Fingerprint(pool[i])]])
          /\ UNCHANGED view
  /\ UNCHANGED <<world, file>>

MAX_CONCURRENCY == 2
Chunk(p, i) == Cardinality({j \in DOMAIN p.stored : j < i}) \div MAX_CONCURRENCY
Asked(p, i) ==
  /\ i \in DOMAIN p.stored \ DOMAIN p.results
  /\ \A j \in DOMAIN p.stored : Chunk(p, j) < Chunk(p, i) => j \in DOMAIN p.results

(* fetchOverviewAccount.  The access token may have to be refreshed first:  *)
(* the refresh token of the pass's own copy is then the stored one, which  *)
(* somebody may have rotated already, or the next.                         *)
Refreshed(p, i) ==
  {p.prints[i]} \cup {<<p.stored[i], n>> : n \in token[p.stored[i]] .. Min({token[p.stored[i]] + 1, MaxToken})}

Fetch(t, i) ==
  LET p == pass[t]
      s == p.stored[i]
  IN /\ p.phase = "fetching" /\ Asked(p, i)
     /\ \E print \in IF s \in dead THEN {p.prints[i]} ELSE Refreshed(p, i) :
        \E result \in IF s \in dead THEN {<<"credential", 0>>}
                      ELSE {<<"transient", 0>>, <<"read", used[s]>>} :
          /\ token' = [token EXCEPT ![s] = Max({@, print[2]})]
          /\ Goes(t, [p EXCEPT !.prints[i] = print,
                               !.results = [j \in DOMAIN @ \cup {i} |-> IF j = i THEN result ELSE @[j]]])
     /\ UNCHANGED <<clock, used, base, dead, pool, latest, file, view>>

\* The cached reading of the same position and credential.
Previous(p, i) == {r \in p.cached.readings : r.index = i /\ r.print = p.prints[i]}

Kept(p, r) ==
  LET failed == p.results[r.index][1] = "credential"
  IN [r EXCEPT !.at = IF @ = 0 THEN p.cached.at ELSE @,
               !.failed = IF failed THEN p.now ELSE @,
               !.since = IF ~failed THEN @ ELSE IF @ # 0 THEN @ ELSE IF r.failed # 0 THEN r.failed ELSE p.now]

Read(p) == {i \in DOMAIN p.stored : p.results[i][1] = "read"}
CarriedOver(p) == {Kept(p, r) : r \in UNION {Previous(p, i) : i \in DOMAIN p.stored \ Read(p)}}

\* A snapshot with a reading carried over is as old as that.
Gathered(p) ==
  [at |-> IF CarriedOver(p) = {} THEN p.now ELSE Min({p.cached.at, p.now}),
   readings |-> {Reading(i, p.prints[i], p.results[i][2], p.now) : i \in Read(p)} \cup CarriedOver(p)]

Collect(t) ==
  LET p == pass[t]
  IN /\ p.phase = "fetching" /\ DOMAIN p.results = DOMAIN p.stored
     /\ IF Gathered(p).readings = {}
          THEN Goes(t, [p EXCEPT !.phase = "merging", !.snapshot = p.cached])
          ELSE Goes(t, [p EXCEPT !.phase = "writing", !.snapshot = Gathered(p)])
     /\ UNCHANGED <<world, file, view>>

\* A write that fails is only logged.
Write(t) ==
  /\ pass[t].phase = "writing"
  /\ file' \in {file, pass[t].snapshot}
  /\ Goes(t, [pass[t] EXCEPT !.phase = "merging"])
  /\ UNCHANGED <<world, view>>

(* mergeOverviewWithLatestAccount.                                         *)
Newer(snapshot, r) ==
  r.print = latest.print /\ latest.at > snapshot.at /\ latest.at > r.at

Merged(snapshot) ==
  [snapshot EXCEPT !.readings = {
     IF ~Newer(snapshot, r) THEN r
     ELSE LET recovered == r.failed = 0 \/ latest.at > r.failed
          IN [r EXCEPT !.version = latest.version, !.at = latest.at,
                       !.failed = IF recovered THEN 0 ELSE @, !.since = IF recovered THEN 0 ELSE @]
     : r \in @}]

Merge(t) ==
  LET p == pass[t]
      merged == Merged(p.snapshot)
  IN /\ p.phase = "merging"
     /\ IF merged.readings = {} THEN Unavailable(t)
        ELSE view' = [view EXCEPT ![t] = [type |-> "ready", snapshot |-> merged,
                                          stale |-> ~IsFresh(merged.at, p.now), now |-> p.now]]
     /\ Goes(t, Idle)
     /\ UNCHANGED <<world, file>>

Next ==
  \/ Tick \/ PoolChanges
  \/ \E s \in Seats : Serve(s)
  \/ \E s \in Seats : Dies(s)
  \/ \E s \in Seats : Login(s)
  \/ \E t \in Terminals : Begin(t)
  \/ \E t \in Terminals : ReadCache(t)
  \/ \E t \in Terminals : LoadStorage(t)
  \/ \E t \in Terminals : \E i \in DOMAIN pass[t].stored : Fetch(t, i)
  \/ \E t \in Terminals : Collect(t)
  \/ \E t \in Terminals : Write(t)
  \/ \E t \in Terminals : Merge(t)

Spec == Init /\ [][Next]_vars

-----------------------------------------------------------------------------
Snapshots == {file} \cup {view[t].snapshot : t \in Terminals}
               \cup {pass[t].cached : t \in Terminals} \cup {pass[t].snapshot : t \in Terminals}
StampOf(s, r) == IF r.at = 0 THEN s.at ELSE r.at

TypeOK ==
  /\ clock \in 1 .. MaxClock /\ dead \subseteq Seats /\ pool \in Pools
  /\ used \in [Seats -> 1 .. MaxVersion] /\ token \in [Seats -> 1 .. MaxToken]
  /\ latest.at \in 0 .. MaxClock
  /\ \A t \in Terminals :
       /\ pass[t].phase \in {"idle", "begun", "cached", "fetching", "writing", "merging"}
       /\ view[t].type \in {"loading", "unavailable", "ready"} /\ view[t].stale \in BOOLEAN
  /\ \A s \in Snapshots : \A r \in s.readings : r.version \in 1 .. MaxVersion /\ r.at \in 0 .. MaxClock

(* A reading is no older than the time it claims, wherever it has been:    *)
(* read by a pass that began earlier, carried over after failures, laid    *)
(* over by another process, or written by an old build.                    *)
HonestReadings ==
  \A s \in Snapshots : \A r \in s.readings : r.version >= base[StampOf(s, r)][r.print[1]]

(* A line that is not marked stale shows no reading older than FreshFor,   *)
(* although its snapshot may hold readings of several passes.              *)
StaleIsSaid ==
  \A t \in Terminals : view[t].type = "ready" /\ ~view[t].stale =>
    \A r \in view[t].snapshot.readings : IsFresh(StampOf(view[t].snapshot, r), view[t].now)

(* A pass that could not read an account neither drops it nor gives its    *)
(* place another account's numbers, whoever moved in meanwhile.            *)
NobodyDropped ==
  \A t \in Terminals : pass[t].phase = "writing" =>
    LET p == pass[t]
    IN /\ \A r \in p.snapshot.readings : p.stored[r.index] = r.print[1]
       /\ \A r \in p.cached.readings :
            r.index \in DOMAIN p.stored /\ p.prints[r.index] = r.print =>
              \E q \in p.snapshot.readings : q.index = r.index /\ q.print = r.print

(* An account marked as unreadable shows a reading from before it was, and *)
(* stays marked until it answers again.                                    *)
FailuresStand ==
  \A s \in Snapshots : \A r \in s.readings :
    (r.failed = 0 /\ r.since = 0) \/ (r.since # 0 /\ r.since <= r.failed /\ r.at <= r.failed)

ReadingsSound == HonestReadings /\ StaleIsSaid /\ NobodyDropped /\ FailuresStand

(* Refuted: the response's numbers are newer than the poll's they replace. *)
NewestShown ==
  \A t \in Terminals : pass[t].phase = "merging" =>
    \A r \in pass[t].snapshot.readings : Newer(pass[t].snapshot, r) => latest.version >= r.version
====
