---- MODULE ConfigFile ----
(***************************************************************************)
(* The plugin's settings file, shared by every process and the user's      *)
(* editor.  Each request loads it (the text is read again only when the    *)
(* file's stat changed); the codex-pool tool rewrites the account pools in *)
(* it under a lock.  Two seats of one workspace may be pooled; the         *)
(* workspace's own key is the legacy spelling for both.                    *)
(***************************************************************************)
EXTENDS Naturals, Sequences, FiniteSets

CONSTANTS
    Procs,     \* processes with the plugin
    Edits,     \* texts the user's editor may leave
    Requests,  \* codex-pool calls
    Scoped,    \* account storage is per project
    Hazards,   \* of "edit", "join", "stale", "left"
    MaxAsks, MaxVersion, MaxClock   \* bounds: calls, writes, time

Seats == {"s1", "s2"}
Keys == {"m", "M", "n"}              \* "M" is the model "m" spelled otherwise
Models == {"m", "n"}
ModelOf(key) == IF key = "M" THEN "m" ELSE key
NoKeys == [k \in Keys |-> {}]
NoModes == [k \in Keys |-> "none"]

(* A text: whether it parses, the two records of pools and modes (an       *)
(* absent key is {} or "none"), any other setting, and whether that one is *)
(* valid.                                                                  *)
Text(parses, pools, modes, other, valid) ==
    [parses |-> parses, pools |-> pools, modes |-> modes, other |-> other,
     valid |-> valid]
Broken == Text(FALSE, NoKeys, NoModes, 0, FALSE)
Empty == Text(TRUE, NoKeys, NoModes, 0, TRUE)
Settings(pools, modes, other) == [pools |-> pools, modes |-> modes, other |-> other]
DEFAULT_CONFIG == Settings(NoKeys, NoModes, 0)

LOCK_RETRY_BUDGET_FULL == 3
LOCK_RETRY_BUDGET_PROBE == 1
LOCK_CONTENTION_FAST_FAIL_WINDOW == 2

Cold == [cached |-> FALSE, stat |-> 0, text |-> Broken, config |-> DEFAULT_CONFIG]
VARIABLES
    disk,      \* the file: its stat (0: missing), text, and writes so far
    accounts,  \* the stored seats
    cache,     \* process -> pluginConfigCache
    load,      \* process -> the stat a load under way has taken
    queue,     \* process -> its modelAccountPoolMutationQueue
    stage,     \* process -> how far the head of its queue is
    lock,      \* the process that holds the lock, "none", or "left"
    contended, \* process -> lastLockContentionAt
    clock,
    asks,      \* calls made
    routed,    \* history: model -> the seats its pool should route to
    stalled    \* history: process -> time its queue waited since it last moved

vars == <<disk, accounts, cache, load, queue, stage, lock, contended, clock,
          asks, routed, stalled>>

-----------------------------------------------------------------------------
(* What a text means.                                                      *)

KeysFor(pools, model) == {k \in Keys : ModelOf(k) = model /\ pools[k] # {}}

(* getModelAccountPool: the first key that spells the model.               *)
PoolOf(pools, model) ==
    IF model = "m" /\ pools["M"] # {} THEN pools["M"] ELSE pools[model]

MatchingSeats(ids, seats) == IF "w" \in ids THEN seats ELSE ids \cap seats

(* readPluginConfig: `last` is kept when nothing can be parsed, and below  *)
(* the keys that are valid when one of them is not.                        *)
ReadPluginConfig(text, last) ==
    IF ~text.parses THEN last
    ELSE IF text.valid THEN Settings(text.pools, text.modes, text.other)
    ELSE [last EXCEPT
            !.pools = IF text.pools = NoKeys THEN @ ELSE text.pools,
            !.modes = IF text.modes = NoModes THEN @ ELSE text.modes]

-----------------------------------------------------------------------------
(* The mutation of one model's pool.                                       *)

(* expandLegacyModelPoolKeys over the accounts the tool loaded; skipped    *)
(* when the storage is per project.                                        *)
Expanded(ids, seats) ==
    IF "w" \in ids /\ ~Scoped /\ seats # {} THEN (ids \ {"w"}) \cup seats ELSE ids

Stored(text, model) == UNION {text.pools[k] : k \in KeysFor(text.pools, model)}

NextAccountIds(text, r) ==
    LET previous == Stored(text, r.model)
        normal == Expanded(previous, r.seats)
    IN  CASE r.what = "set" -> r.ids
          [] r.what = "add" -> normal \cup r.ids
          [] r.what = "remove" -> normal \ r.ids
          [] r.what = "clear" -> {}
          [] r.what = "set-mode" -> previous

PreviousPoolMode(text, model) ==
    LET first == IF model = "m" /\ text.modes["M"] # "none" THEN "M" ELSE model
    IN  IF text.modes[first] = "none" THEN "preferred" ELSE text.modes[first]

NextPoolMode(text, r) ==
    CASE r.what = "clear" -> "preferred"
      [] r.what = "set-mode" -> "strict"
      [] OTHER -> PreviousPoolMode(text, r.model)

(* One key per model afterwards, a mode only beside a pool; every other    *)
(* key of the file as it was.                                              *)
Rewritten(text, r) ==
    LET ids == NextAccountIds(text, r)
        others == {k \in Keys : ModelOf(k) # r.model}
    IN  [text EXCEPT
          !.pools = [k \in Keys |-> IF k \in others THEN @[k]
                                    ELSE IF k = r.model THEN ids ELSE {}],
          !.modes = [k \in Keys |->
                      IF k \in others THEN @[k]
                      ELSE IF k = r.model /\ ids # {} /\ NextPoolMode(text, r) # "preferred"
                           THEN NextPoolMode(text, r) ELSE "none"]]

(* What the call asks for, in terms of seats.                              *)
Wanted(before, r) ==
    CASE r.what = "set" -> r.ids
      [] r.what = "add" -> before \cup r.ids
      [] r.what = "remove" -> before \ r.ids
      [] r.what = "clear" -> {}
      [] r.what = "set-mode" -> before

-----------------------------------------------------------------------------
SeatsRouted(text) ==
    [m \in Models |-> MatchingSeats(PoolOf(text.pools, m), Seats)]

Idle == [at |-> "idle", since |-> 0, budget |-> 0, text |-> Broken]

Init ==
    /\ \E text \in Edits : /\ disk = [stat |-> 1, text |-> text, writes |-> 1]
                           /\ routed = SeatsRouted(text)
    /\ accounts = IF "join" \in Hazards THEN {"s1"} ELSE Seats
    /\ cache = [p \in Procs |-> Cold]
    /\ load = [p \in Procs |-> {}]
    /\ queue = [p \in Procs |-> <<>>]
    /\ stage = [p \in Procs |-> Idle]
    /\ lock = "none"
    /\ contended = [p \in Procs |-> {}]
    /\ clock = 0
    /\ asks = 0
    /\ stalled = [p \in Procs |-> 0]

Replace(text) ==
    disk' = [stat |-> disk.writes + 1, text |-> text, writes |-> disk.writes + 1]

(* The user's editor saves: in one piece, or a truncated file first; or    *)
(* the file is deleted.  It takes no lock, so it may also fall inside a    *)
(* mutation.                                                               *)
Edit ==
    /\ disk.writes < MaxVersion
    /\ "edit" \in Hazards \/ \A p \in Procs : stage[p].at # "writing"
    /\ \/ \E text \in Edits :
            /\ Replace(text)
            /\ routed' = SeatsRouted(text)
       \/ /\ Replace(Broken)
          /\ UNCHANGED routed
       \/ /\ disk' = [disk EXCEPT !.stat = 0, !.text = Empty]
          /\ routed' = SeatsRouted(Empty)
    /\ UNCHANGED <<accounts, cache, load, queue, stage, lock, contended, clock,
                   asks, stalled>>

(* A login stores the other seat of the workspace.                         *)
Join ==
    /\ accounts # Seats
    /\ accounts' = Seats
    /\ UNCHANGED <<disk, cache, load, queue, stage, lock, contended, clock,
                   asks, routed, stalled>>

(* A process ends, maybe in the middle of a mutation, and starts again.    *)
Restart(p) ==
    /\ cache[p].cached \/ queue[p] # <<>>
    /\ cache' = [cache EXCEPT ![p] = Cold]
    /\ load' = [load EXCEPT ![p] = {}]
    /\ queue' = [queue EXCEPT ![p] = <<>>]
    /\ stage' = [stage EXCEPT ![p] = Idle]
    /\ lock' = IF lock = p THEN "left" ELSE lock
    /\ contended' = [contended EXCEPT ![p] = {}]
    /\ stalled' = [stalled EXCEPT ![p] = 0]
    /\ UNCHANGED <<disk, accounts, clock, asks, routed>>

-----------------------------------------------------------------------------
(* loadPluginConfig: the stat, then unless it is the cached one the text.  *)
(* Other processes may write between the two.                              *)
Missing(entry) == [cached |-> TRUE, stat |-> 0, text |-> Broken, config |-> entry.config]

StatTaken(p) ==
    /\ load[p] = {}
    /\ ~(cache[p].cached /\ cache[p].stat = disk.stat)
    /\ IF disk.stat = 0
       THEN cache' = [cache EXCEPT ![p] = Missing(@)] /\ UNCHANGED load
       ELSE load' = [load EXCEPT ![p] = {disk.stat}] /\ UNCHANGED cache
    /\ UNCHANGED <<disk, accounts, queue, stage, lock, contended, clock, asks,
                   routed, stalled>>

StatOfLoad(p) == CHOOSE stat \in load[p] : TRUE

TextRead(p) ==
    /\ load[p] # {}
    /\ cache' = [cache EXCEPT ![p] =
         IF disk.stat = 0 THEN Missing(@)
         ELSE [cached |-> TRUE, stat |-> StatOfLoad(p), text |-> disk.text,
               config |-> IF @.cached /\ @.text = disk.text THEN @.config
                          ELSE ReadPluginConfig(disk.text, @.config)]]
    /\ load' = [load EXCEPT ![p] = {}]
    /\ UNCHANGED <<disk, accounts, queue, stage, lock, contended, clock, asks,
                   routed, stalled>>

-----------------------------------------------------------------------------
(* A codex-pool call: the accounts are loaded, numbers become stable keys, *)
(* and the mutation joins the process's queue.                             *)
Ask(p) ==
    /\ asks < MaxAsks
    /\ \E r \in Requests :
         /\ r.ids \subseteq accounts
         /\ queue' = [queue EXCEPT ![p] = Append(@,
              [what |-> r.what, model |-> r.model, ids |-> r.ids, seats |-> accounts])]
    /\ asks' = asks + 1
    /\ UNCHANGED <<disk, accounts, cache, load, stage, lock, contended, clock,
                   routed, stalled>>

(* nextLockRetryBudget.                                                    *)
Budget(p) ==
    IF \E at \in contended[p] : clock - at < LOCK_CONTENTION_FAST_FAIL_WINDOW
    THEN LOCK_RETRY_BUDGET_PROBE ELSE LOCK_RETRY_BUDGET_FULL

Waiting(p) == stage[p].at = "idle" /\ queue[p] # <<>>

(* The head of the queue asks for the lock.                                *)
LockAsked(p) ==
    /\ Waiting(p)
    /\ stage' = [stage EXCEPT ![p] = [Idle EXCEPT
         !.at = "waiting", !.since = clock, !.budget = Budget(p)]]
    /\ UNCHANGED <<disk, accounts, cache, load, queue, lock, contended, clock,
                   asks, routed, stalled>>

Locked(p) ==
    /\ stage[p].at = "waiting"
    /\ lock = "none"
    /\ lock' = p
    /\ contended' = [contended EXCEPT ![p] = {}]
    /\ stage' = [stage EXCEPT ![p] = [Idle EXCEPT !.at = "locked"]]
    /\ stalled' = [stalled EXCEPT ![p] = 0]
    /\ UNCHANGED <<disk, accounts, cache, load, queue, clock, asks, routed>>

(* The last try of the budget is due: it takes the lock or is refused.     *)
LastTry(p) == stage[p].at = "waiting" /\ clock - stage[p].since >= stage[p].budget

Expired(p) == LastTry(p) /\ lock # "none"

(* The call is over: the next one of the queue is tried at once.           *)
Popped(p) ==
    /\ queue' = [queue EXCEPT ![p] = Tail(@)]
    /\ stage' = [stage EXCEPT ![p] = Idle]

(* ConfigLockContentionError: no change was made.                          *)
LockRefused(p) ==
    /\ Expired(p)
    /\ contended' = [contended EXCEPT ![p] = {clock}]
    /\ Popped(p)
    /\ stalled' = [stalled EXCEPT ![p] = IF Len(queue[p]) = 1 THEN 0 ELSE @]
    /\ UNCHANGED <<disk, accounts, cache, load, lock, clock, asks, routed>>

(* The lock is given back; a failure to do so is only logged.              *)
Release(p) ==
    IF lock # p THEN UNCHANGED lock
    ELSE lock' \in {"none"} \cup ({"left"} \cap Hazards)

TextUnderLock(p) == disk.text

(* The text is read under the lock.  One that does not parse, or a mode    *)
(* for a model without a pool, ends the call with an error.                *)
TextLocked(p) ==
    /\ stage[p].at = "locked"
    /\ LET r == Head(queue[p])
           text == TextUnderLock(p)
       IN  IF ~text.parses \/ (r.what = "set-mode" /\ Stored(text, r.model) = {})
           THEN Popped(p) /\ Release(p)
           ELSE /\ stage' = [stage EXCEPT ![p] = [@ EXCEPT
                     !.at = "writing", !.text = text]]
                /\ UNCHANGED <<queue, lock>>
    /\ UNCHANGED <<disk, accounts, cache, load, contended, clock, asks, routed, stalled>>

(* The new text replaces the file by a rename, unless nothing changed.     *)
Renamed(p) ==
    /\ stage[p].at = "writing"
    /\ LET r == Head(queue[p])
           text == Rewritten(stage[p].text, r)
       IN  /\ IF text = stage[p].text THEN UNCHANGED disk
              ELSE disk.writes < MaxVersion /\ Replace(text)
           /\ routed' = [routed EXCEPT ![r.model] = Wanted(@, r)]
    /\ Popped(p)
    /\ Release(p)
    /\ UNCHANGED <<accounts, cache, load, contended, clock, asks, stalled>>

(* A lock nobody refreshes for ten seconds is taken over: one its holder   *)
(* left behind, or one whose holder was blocked that long.                 *)
Reclaimed ==
    /\ lock = "left" \/ ("stale" \in Hazards /\ lock \in Procs)
    /\ lock' = "none"
    /\ UNCHANGED <<disk, accounts, cache, load, queue, stage, contended, clock,
                   asks, routed, stalled>>

Tick ==
    /\ clock < MaxClock
    /\ \A p \in Procs : ~Waiting(p) /\ ~LastTry(p)
    /\ clock' = clock + 1
    /\ stalled' = [p \in Procs |->
                     IF stage[p].at = "waiting" THEN stalled[p] + 1 ELSE stalled[p]]
    /\ UNCHANGED <<disk, accounts, cache, load, queue, stage, lock, contended,
                   asks, routed>>

Next ==
    \/ Edit \/ Join \/ Reclaimed \/ Tick
    \/ \E p \in Procs : Restart(p)
    \/ \E p \in Procs : StatTaken(p)
    \/ \E p \in Procs : TextRead(p)
    \/ \E p \in Procs : Ask(p)
    \/ \E p \in Procs : LockAsked(p)
    \/ \E p \in Procs : Locked(p)
    \/ \E p \in Procs : LockRefused(p)
    \/ \E p \in Procs : TextLocked(p)
    \/ \E p \in Procs : Renamed(p)

Spec == Init /\ [][Next]_vars

-----------------------------------------------------------------------------
TypeOK ==
    /\ disk.stat \in 0 .. MaxVersion /\ disk.writes \in 1 .. MaxVersion
    /\ accounts \subseteq Seats
    /\ \A p \in Procs :
         /\ cache[p].stat \in 0 .. MaxVersion
         /\ Cardinality(load[p]) <= 1 /\ Cardinality(contended[p]) <= 1
         /\ stage[p].at \in {"idle", "waiting", "locked", "writing"}
         /\ stalled[p] \in Nat
    /\ lock \in Procs \cup {"none", "left"}
    /\ routed \in [Models -> SUBSET Seats]

(* A process whose cached stat is the file's answers with the file's own   *)
(* settings, whatever was written between its stat and its read; from a    *)
(* file with an invalid setting it still takes the pools.                  *)
CacheIsTrue ==
    \A p \in Procs :
        cache[p].cached /\ cache[p].stat = disk.stat /\ disk.stat # 0 /\ disk.text.parses =>
            /\ disk.text.pools # NoKeys => cache[p].config.pools = disk.text.pools
            /\ disk.text.valid => cache[p].config =
                    Settings(disk.text.pools, disk.text.modes, disk.text.other)

(* The file routes every model to the seats the calls that succeeded asked *)
(* for, one after the other: no call undoes another one's, in its own      *)
(* process or elsewhere, nor another model's pool.                         *)
NoMutationLost ==
    disk.text.parses =>
        \A m \in Models : MatchingSeats(PoolOf(disk.text.pools, m), accounts)
                              = routed[m] \cap accounts

(* N calls behind a lock that is held elsewhere do not wait N budgets.     *)
StallBounded ==
    \A p \in Procs : stalled[p] <= LOCK_RETRY_BUDGET_FULL
                                     + (MaxAsks - 1) * LOCK_RETRY_BUDGET_PROBE

ConfigSafe == CacheIsTrue /\ NoMutationLost /\ StallBounded
====
