-------------------------- MODULE RotationMonitor --------------------------
(***************************************************************************)
(* The observations a custom rotation policy is given                      *)
(* (custom-rotation/monitor.ts, observations.ts): every seat of the pool   *)
(* is asked for its usage and for its reset credits, each in its own time, *)
(* two seats at once, while responses bring headers, the storage path      *)
(* changes, a redeemed credit makes everything before it worthless, and    *)
(* the plugin is disposed of.                                              *)
(*                                                                         *)
(* What the provider would report of a seat is a version, which a request  *)
(* or a redemption makes the next one.                                     *)
(***************************************************************************)
EXTENDS Integers, FiniteSets, FiniteSetsExt

CONSTANTS
  Seats,      \* numbers, in the order of the pool
  Pools,      \* path -> the seats stored there, the disabled and the repeated left out
  Every,      \* kind -> how long a reading lasts: "usage", "resets"
  CheckEvery, \* between two checks, and the first retry
  Late,       \* response headers may be recorded long after they were made
  Hazards,    \* of "fail", "move", "shrink", "dispose", "headers", "redeem"
  MaxVersion, MaxMoves, MaxClock  \* bounds

VARIABLES
  clock,
  used,      \* provider: seat -> version
  base,      \* history: time -> seat -> version when that tick began
  redeemed,  \* history: seat -> its version when a redemption was announced
  redeeming, \* a redemption that has not been announced yet
  reply,     \* seat -> the headers of its response under way
  path, pool, moves,
  monitor,   \* the monitor's own variables
  check,     \* the check that is running
  poll,      \* seat -> its poll
  states,    \* kind -> id -> when to ask next, and the failures in a row
  seen       \* kind -> id -> its observation

vars == <<clock, used, base, redeemed, redeeming, reply, path, pool, moves, monitor, check, poll, states, seen>>
world == <<clock, used, base, redeemed, redeeming, reply, path, pool, moves>>

Kinds == {"usage", "resets"}
Paths == DOMAIN Pools
Ids == Paths \X Seats    \* rotationAccountId: the scope and the seat
NotDue == -1
NoReply == [scope |-> 1, version |-> 0]
NoCheck == [phase |-> "idle", gen |-> 0, scope |-> 1, storage |-> {}, ends |-> {}]
NoPoll == [phase |-> "idle", gen |-> 0, scope |-> 1, due |-> {}, at |-> 0, from |-> 0]
Asked == [next |-> 0, failures |-> 0]
Unknown == [version |-> 0, at |-> NotDue, source |-> "none"]
Forgotten(x) == [k \in Kinds |-> [i \in Ids |-> x]]

Init ==
  /\ clock = 0 /\ used = [s \in Seats |-> 1] /\ base = [t \in 0 .. MaxClock |-> [s \in Seats |-> 1]]
  /\ redeemed = [s \in Seats |-> 0] /\ redeeming = FALSE /\ reply = [s \in Seats |-> NoReply]
  /\ path = 1 /\ pool = Pools /\ moves = 0
  /\ monitor = [timer |-> 0, running |-> FALSE, generation |-> 0, pending |-> FALSE, scope |-> 0,
                aborted |-> FALSE]
  /\ check = NoCheck /\ poll = [s \in Seats |-> NoPoll]
  /\ states = Forgotten(Asked) /\ seen = Forgotten(Unknown)

-----------------------------------------------------------------------------
(* The observations.                                                       *)

\* field: an observation stamped later than this one stands.
Field(previous, version, at, source) ==
  IF previous.at > at THEN previous ELSE [version |-> version, at |-> at, source |-> source]

\* snapshot, to a policy: what is older than its interval is stale.
IsFresh(kind, o, now) == o.source # "none" /\ now < o.at + Every[kind]

Record(kind, id, version, at, source) ==
  seen' = [seen EXCEPT ![kind][id] = Field(@, version, at, source)]

-----------------------------------------------------------------------------
(* The world.                                                              *)

\* A response, and its headers, which are recorded under the scope of the request
\* if that is the scope still (index.ts:3935).
Serve(s) ==
  /\ "headers" \in Hazards /\ used[s] < MaxVersion /\ reply[s] = NoReply
  /\ used' = [used EXCEPT ![s] = @ + 1]
  /\ reply' = [reply EXCEPT ![s] = [scope |-> path, version |-> used[s] + 1]]
  /\ UNCHANGED <<clock, base, redeemed, redeeming, path, pool, moves, monitor, check, poll, states, seen>>

Headers(s) ==
  /\ reply[s] # NoReply
  /\ IF reply[s].scope = path THEN Record("usage", <<path, s>>, reply[s].version, clock, "headers")
     ELSE UNCHANGED seen
  /\ reply' = [reply EXCEPT ![s] = NoReply]
  /\ UNCHANGED <<clock, used, base, redeemed, redeeming, path, pool, moves, monitor, check, poll, states>>

\* Unless they are late, nothing of the seat comes between the two.
Waits(s) == ~Late /\ reply[s] # NoReply

Redeem(s) ==
  /\ "redeem" \in Hazards /\ used[s] < MaxVersion /\ ~redeeming /\ ~Waits(s)
  /\ used' = [used EXCEPT ![s] = @ + 1] /\ redeeming' = TRUE
  /\ UNCHANGED <<clock, base, redeemed, reply, path, pool, moves, monitor, check, poll, states, seen>>

\* setStoragePath, or a seat that is removed or added again.
Move ==
  /\ moves < MaxMoves /\ moves' = moves + 1
  /\ \/ "move" \in Hazards /\ path' \in Paths \ {path} /\ UNCHANGED pool
     \/ "shrink" \in Hazards /\ UNCHANGED path
        /\ \E s \in Pools[path] :
             pool' = [pool EXCEPT ![path] = IF s \in @ THEN @ \ {s} ELSE @ \cup {s}]
  /\ UNCHANGED <<clock, used, base, redeemed, redeeming, reply, monitor, check, poll, states, seen>>

\* A timer that is due fires before any time is up.
Tick ==
  /\ clock < MaxClock /\ monitor.timer # clock /\ \A s \in Seats : ~Waits(s)
  /\ clock' = clock + 1 /\ base' = [base EXCEPT ![clock + 1] = used]
  /\ UNCHANGED <<used, redeemed, redeeming, reply, path, pool, moves, monitor, check, poll, states, seen>>

-----------------------------------------------------------------------------
(* One check.                                                              *)

\* The timer fires; a check that is running still is the one it waits for.
Fire ==
  /\ monitor.timer # NotDue /\ monitor.timer <= clock
  /\ IF monitor.running THEN monitor' = [monitor EXCEPT !.timer = NotDue] /\ UNCHANGED check
     ELSE /\ monitor' = [monitor EXCEPT !.timer = NotDue, !.running = TRUE, !.pending = FALSE]
          /\ check' = [NoCheck EXCEPT !.phase = "loading", !.gen = monitor.generation, !.scope = path]
  /\ UNCHANGED <<world, poll, states, seen>>

\* loadAccounts reads the path of its own time; it may fail.
Load ==
  /\ check.phase = "loading"
  /\ \/ check' = [check EXCEPT !.phase = "loaded", !.storage = pool[path]]
     \/ "fail" \in Hazards /\ check' = [check EXCEPT !.phase = "ending"]
  /\ UNCHANGED <<world, monitor, poll, states, seen>>

\* Another scope starts anew; a seat that is gone is forgotten.
Loaded ==
  LET ids == {<<check.scope, s>> : s \in check.storage}
      anew == monitor.scope # check.scope
      kept(f, x) == [k \in Kinds |-> [i \in Ids |-> IF anew \/ i \notin ids THEN x ELSE f[k][i]]]
  IN /\ check.phase = "loaded"
     /\ IF monitor.aborted \/ check.scope # path
          THEN /\ check' = [check EXCEPT !.phase = "ending"]
               /\ UNCHANGED <<monitor, states, seen>>
          ELSE /\ check' = [check EXCEPT !.phase = "polling", !.ends = {}]
               /\ monitor' = [monitor EXCEPT !.scope = check.scope]
               /\ seen' = kept(seen, Unknown) /\ states' = kept(states, Asked)
     /\ UNCHANGED <<world, poll>>

\* Two seats at a time, in the order of the pool.
Chunk(s) == Cardinality({x \in check.storage : x < s}) \div 2
Turn(s) == s \in check.storage \ check.ends /\ \A x \in check.storage : Chunk(x) < Chunk(s) => x \in check.ends
OnGoing == ~monitor.aborted /\ check.gen = monitor.generation

\* The seats of a chunk start together, each with what is due for it.
StartChunk ==
  LET starts == {s \in check.storage : Turn(s)}
      due(s) == {k \in Kinds : states[k][<<check.scope, s>>].next <= clock}
      idle(s) == due(s) = {} \/ monitor.aborted
  IN /\ check.phase = "polling" /\ starts # {} /\ OnGoing
     /\ \A s \in starts : poll[s].phase = "idle"
     /\ poll' = [s \in Seats |-> IF s \notin starts \/ idle(s) THEN poll[s]
          ELSE [NoPoll EXCEPT !.phase = "credentials", !.gen = monitor.generation, !.scope = check.scope,
                              !.due = due(s)]]
     /\ check' = [check EXCEPT !.ends = @ \cup {s \in starts : idle(s)},
                               !.phase = IF \A s \in starts : idle(s) THEN @ ELSE "waiting"]
     /\ UNCHANGED <<world, monitor, states, seen>>

\* canObserve, asked again after every await.
CanObserve(p) == ~monitor.aborted /\ p.scope = path /\ p.gen = monitor.generation

PollIs(s, p) == poll' = [poll EXCEPT ![s] = p]

\* The seat's poll is over; the chunk is when all of them are.
Over(s) ==
  /\ PollIs(s, NoPoll)
  /\ check' = [check EXCEPT !.ends = @ \cup {s},
                            !.phase = IF \A x \in Seats \ {s} : poll[x].phase = "idle" THEN "polling" ELSE @]

\* The next of a poll's requests: its observation is of no later than now.
Ask(s, kind) == PollIs(s, [poll[s] EXCEPT !.phase = kind, !.at = clock, !.from = used[s]]) /\ UNCHANGED check
First(due) == IF "usage" \in due THEN "usage" ELSE "resets"

\* A failure in a row doubles the wait, up to a bound.
Backoff(kind, id, most) ==
  LET failures == Min({6, states[kind][id].failures + 1})
  IN [next |-> clock + Min({most, CheckEvery * 2 ^ (failures - 1)}), failures |-> failures]

\* ensureCodexUsageAccessToken: whatever it persisted has dropped the cached
\* manager by now (ManagerCache).
Credentials(s) ==
  LET p == poll[s]
      id == <<p.scope, s>>
  IN /\ p.phase = "credentials"
     /\ \/ /\ IF CanObserve(p) THEN Ask(s, First(p.due)) ELSE Over(s)
           /\ UNCHANGED states
        \/ /\ "fail" \in Hazards /\ Over(s)
           /\ IF CanObserve(p)
                THEN states' = [k \in Kinds |-> [states[k] EXCEPT ![id] = Backoff(k, id, Every["usage"])]]
                ELSE UNCHANGED states
     /\ UNCHANGED <<world, monitor, seen>>

\* The answer of a request is what the provider had when it answered, since
\* the request was made.
Answer(s) ==
  LET p == poll[s]
      id == <<p.scope, s>>
      kind == p.phase
      next == IF kind = "usage" /\ "resets" \in p.due /\ CanObserve(p) THEN Ask(s, "resets") ELSE Over(s)
  IN /\ kind \in Kinds /\ next
     /\ IF ~CanObserve(p) THEN UNCHANGED <<states, seen>>
        ELSE \/ \E version \in p.from .. used[s] :
                  /\ Record(kind, id, version, p.at, kind)
                  /\ states' = [states EXCEPT ![kind][id] = [next |-> clock + Every[kind], failures |-> 0]]
             \/ /\ "fail" \in Hazards
                /\ states' = [states EXCEPT ![kind][id] = Backoff(kind, id, Every[kind])]
                /\ UNCHANGED seen
     /\ UNCHANGED <<world, monitor>>

\* The check ends when every chunk has, or when it is not wanted any more; the
\* timer that waited for it is set again.
End ==
  /\ \/ check.phase = "ending"
     \/ check.phase = "polling" /\ (check.storage \subseteq check.ends \/ ~OnGoing)
  /\ check' = NoCheck
  /\ monitor' = [monitor EXCEPT !.running = FALSE,
       !.timer = IF monitor.aborted THEN NotDue ELSE clock + IF monitor.pending THEN 0 ELSE CheckEvery]
  /\ UNCHANGED <<world, poll, states, seen>>

-----------------------------------------------------------------------------
\* refresh: a reset credit was redeemed (index.ts:2465).
Refresh ==
  /\ redeeming /\ redeeming' = FALSE /\ redeemed' = used
  /\ IF monitor.aborted THEN UNCHANGED <<monitor, states, seen>>
     ELSE /\ monitor' = [monitor EXCEPT !.generation = @ + 1, !.pending = TRUE, !.timer = clock]
          /\ states' = Forgotten(Asked) /\ seen' = Forgotten(Unknown)
  /\ UNCHANGED <<clock, used, base, reply, path, pool, moves, check, poll>>

Dispose ==
  /\ "dispose" \in Hazards /\ ~monitor.aborted
  /\ monitor' = [monitor EXCEPT !.aborted = TRUE, !.timer = NotDue]
  /\ seen' = Forgotten(Unknown)
  /\ UNCHANGED <<world, check, poll, states>>

Next ==
  \/ Tick \/ Move \/ Fire \/ Load \/ Loaded \/ StartChunk \/ End \/ Refresh \/ Dispose
  \/ \E s \in Seats : Serve(s)
  \/ \E s \in Seats : Headers(s)
  \/ \E s \in Seats : Redeem(s)
  \/ \E s \in Seats : Credentials(s)
  \/ \E s \in Seats : Answer(s)

Spec == Init /\ [][Next]_vars

-----------------------------------------------------------------------------
TypeOK ==
  /\ clock \in 0 .. MaxClock /\ used \in [Seats -> 1 .. MaxVersion] /\ path \in Paths
  /\ \A q \in Paths : pool[q] \subseteq Seats
  /\ monitor.timer \in NotDue .. MaxClock + CheckEvery /\ monitor.running \in BOOLEAN
  /\ check.phase \in {"idle", "loading", "loaded", "polling", "waiting", "ending"}
  /\ \A s \in Seats : poll[s].phase \in {"idle", "credentials"} \cup Kinds
  /\ \A k \in Kinds : \A i \in Ids :
       /\ states[k][i].failures \in 0 .. 6 /\ states[k][i].next \in Nat
       /\ seen[k][i].version \in 0 .. MaxVersion /\ seen[k][i].source \in {"none", "headers"} \cup Kinds

(* An observation is no older than the time it is stamped with, so that    *)
(* what a policy sees as fresh is.                                         *)
HonestObservations ==
  \A k \in Kinds : \A i \in Ids : seen[k][i].source # "none" => seen[k][i].version >= base[seen[k][i].at][i[2]]

(* Nothing asked before a redemption was announced is believed after it.   *)
SinceRedeemed ==
  ~monitor.aborted => \A k \in Kinds : \A i \in Ids :
    seen[k][i].source # "none" => seen[k][i].version >= redeemed[i[2]]

(* An endpoint is not asked again while the reading it gave is fresh,      *)
(* unless something failed for that seat since.                            *)
AskedEarly(s) ==
  LET p == poll[s]
      o == seen[p.phase][<<p.scope, s>>]
  IN p.phase \in Kinds /\ o.source = p.phase /\ IsFresh(p.phase, o, p.at)
Spaced == \A s \in Seats : AskedEarly(s) => states[poll[s].phase][<<poll[s].scope, s>>].failures # 0

(* A monitor that is not disposed of goes on, and a refresh in the middle  *)
(* of a check is followed by another.                                      *)
KeepsChecking ==
  /\ monitor.running <=> check.phase # "idle"
  /\ monitor.aborted \/ monitor.running \/ monitor.timer # NotDue
  /\ monitor.aborted \/ monitor.pending \/ ~monitor.running \/ check.gen = monitor.generation

(* A disposed monitor stores no reading of its own.                        *)
DisposedIsEmpty ==
  monitor.aborted => \A k \in Kinds : \A i \in Ids : seen[k][i].source \notin Kinds

MonitorSafe == HonestObservations /\ SinceRedeemed /\ Spaced /\ KeepsChecking /\ DisposedIsEmpty

(* Refuted: one endpoint's trouble does not hurry the other.               *)
SpacedAnyway == \A s \in Seats : ~AskedEarly(s)
=============================================================================
