-------------------------- MODULE OperationProofs --------------------------
(***************************************************************************)
(* Safety of what the user does: his settings, edited by hand and by       *)
(* tools, the sign-ins, the daily update check, the clear of the flagged   *)
(* records, and the store of his accounts.  Processes, calls, faults and   *)
(* bounds are parameters of the theorems.                                  *)
(***************************************************************************)
EXTENDS ConfigFile, Integers, SequenceTheorems, FiniteSetTheorems, TLAPS

CONSTANTS
  Sessions, Methods, Projects, Fresh, Wait, MaxFlags,   \* the sign-ins
  Local, Linked, AutoUpdate, Day,                       \* the update check
  Faults, MaxFaults,                                    \* the clear
  NoProc, Worlds, Retention, MaxOps                     \* and the store

VARIABLES
  session, owner, path, pools, flagged, flags, last,
  registry, file, proc, was, promised,
  keychain, entry, markers, at, current, faults, loud, wasFresh,
  world, old, legacy, retired, lease, op, made, ops

(***************************************************************************)
(* The settings file: what a process answers with is what the file says,   *)
(* no call waits longer than its place in the queue allows, and without    *)
(* hazards the pools are those that the calls asked for.                   *)
(***************************************************************************)
Pools == [Keys -> SUBSET {"s1", "s2", "w"}]
Modes == [Keys -> {"none", "preferred", "strict"}]
RouteText == [parses : BOOLEAN, pools : Pools, modes : Modes, other : Nat, valid : BOOLEAN]
Whats == {"set", "add", "remove", "clear", "set-mode"}

\* What an editor may leave and what may be asked for.
RouteConstants ==
  /\ Edits \subseteq RouteText
  /\ Requests \subseteq [what : Whats, model : Models, ids : SUBSET Seats]
  /\ MaxVersion \in Nat \ {0} /\ MaxClock \in Nat /\ MaxAsks \in Nat
  /\ "none" \notin Procs /\ "left" \notin Procs

\* No hazard but a lock left behind, one key per model, and stored accounts of all projects.
Orderly ==
  /\ Hazards \subseteq {"left"} /\ Scoped = FALSE
  /\ \A text \in Edits : text.pools["m"] = {} \/ text.pools["M"] = {}

-----------------------------------------------------------------------------
RouteConfig == [pools : Pools, modes : Modes, other : Nat]

RouteCache == [cached : BOOLEAN, stat : 0..MaxVersion, text : RouteText, config : RouteConfig]

RouteCall == [what : Whats, model : Models, ids : SUBSET Seats, seats : SUBSET Seats]

RouteStage ==
  [at : {"idle", "waiting", "locked", "writing"}, since : 0..MaxClock, budget : 0..3, text : RouteText]

RouteDisk == [stat : 0..MaxVersion, text : RouteText, writes : 1..MaxVersion]

AtMostOne(S) == S = {} \/ \E x \in S : S = {x}

RouteTypes ==
  /\ disk \in RouteDisk /\ disk.stat \in {0, disk.writes}
  /\ accounts \subseteq Seats
  /\ cache \in [Procs -> RouteCache]
  /\ load \in [Procs -> SUBSET (1..MaxVersion)]
  /\ queue \in [Procs -> Seq(RouteCall)]
  /\ stage \in [Procs -> RouteStage]
  /\ lock \in Procs \cup {"none", "left"}
  /\ contended \in [Procs -> SUBSET (0..MaxClock)]
  /\ clock \in 0..MaxClock /\ asks \in 0..MaxAsks
  /\ routed \in [Models -> SUBSET Seats]
  /\ stalled \in [Procs -> Nat]

\* Whoever is past the waiting has a call.
Busy == \A p \in Procs : stage[p].at # "idle" => queue[p] # <<>>

\* What a text says.
Means(text, config) ==
  text.parses =>
    /\ text.pools # NoKeys => config.pools = text.pools
    /\ text.valid => config = Settings(text.pools, text.modes, text.other)

\* A cached stat is a past one; if it is the file's, so is the text.
Remembered(p) ==
  /\ AtMostOne(load[p]) /\ AtMostOne(contended[p])
  /\ \A s \in load[p] : s <= disk.writes
  /\ cache[p].stat <= disk.writes
  /\ cache[p].stat = disk.stat /\ disk.stat # 0 => cache[p].text = disk.text \/ ~cache[p].cached
  /\ cache[p].cached => Means(cache[p].text, cache[p].config)

RouteInv == RouteTypes /\ Busy /\ \A p \in Procs : Remembered(p)

-----------------------------------------------------------------------------
LEMMA RouteValues ==
  ASSUME RouteConstants
  PROVE  /\ NoKeys \in Pools /\ NoModes \in Modes
         /\ Broken \in RouteText /\ Empty \in RouteText
         /\ Broken.parses = FALSE
         /\ DEFAULT_CONFIG \in RouteConfig
         /\ Idle \in RouteStage /\ Idle.at = "idle" /\ Idle.since = 0
         /\ Cold \in RouteCache /\ Cold.cached = FALSE /\ Cold.stat = 0
  <1>1. NoKeys \in Pools /\ NoModes \in Modes
    BY DEF NoKeys, NoModes, Pools, Modes
  <1>2. Broken \in RouteText /\ Empty \in RouteText /\ Broken.parses = FALSE
    BY <1>1 DEF Broken, Empty, Text, RouteText
  <1>3. DEFAULT_CONFIG \in RouteConfig
    BY <1>1 DEF DEFAULT_CONFIG, Settings, RouteConfig
  <1>4. Idle \in RouteStage /\ Idle.at = "idle" /\ Idle.since = 0
    BY <1>2 DEF Idle, RouteStage, RouteConstants
  <1>5. Cold \in RouteCache /\ Cold.cached = FALSE /\ Cold.stat = 0
    BY <1>2, <1>3 DEF Cold, RouteCache, RouteConstants
  <1> QED BY <1>1, <1>2, <1>3, <1>4, <1>5

\* Reading a text gives what it says, whatever was known before.
LEMMA ReadMeans ==
  ASSUME NEW text \in RouteText, NEW known \in RouteConfig
  PROVE  /\ ReadPluginConfig(text, known) \in RouteConfig
         /\ Means(text, ReadPluginConfig(text, known))
  <1>1. Settings(text.pools, text.modes, text.other) \in RouteConfig
    BY DEF Settings, RouteText, RouteConfig
  <1>2. CASE ~text.parses BY <1>2 DEF ReadPluginConfig, Means
  <1>3. CASE text.parses /\ text.valid
    <2>1. ReadPluginConfig(text, known) = Settings(text.pools, text.modes, text.other)
      BY <1>3 DEF ReadPluginConfig
    <2> QED BY <1>1, <2>1 DEF Means, Settings
  <1>4. CASE text.parses /\ ~text.valid
    <2> DEFINE keyed == IF text.pools = NoKeys THEN known.pools ELSE text.pools
               modes == IF text.modes = NoModes THEN known.modes ELSE text.modes
    <2>1. ReadPluginConfig(text, known) = [known EXCEPT !.pools = keyed, !.modes = modes]
      BY <1>4 DEF ReadPluginConfig, RouteConfig
    <2>2. keyed \in Pools /\ modes \in Modes /\ (text.pools # NoKeys => keyed = text.pools)
      BY DEF RouteText, RouteConfig
    <2> HIDE DEF keyed, modes
    <2> QED BY <1>4, <2>1, <2>2 DEF Means, RouteConfig
  <1> QED BY <1>2, <1>3, <1>4 DEF RouteText

\* What a rename writes.
LEMMA RewrittenIs ==
  ASSUME NEW text \in RouteText, NEW r \in RouteCall
  PROVE  Rewritten(text, r) \in RouteText
  <1> DEFINE ids == NextAccountIds(text, r)
             others == {k \in Keys : ModelOf(k) # r.model}
             mode == NextPoolMode(text, r)
             keyed == [k \in Keys |-> IF k \in others THEN text.pools[k]
                                             ELSE IF k = r.model THEN ids ELSE {}]
             modes == [k \in Keys |->
                        IF k \in others THEN text.modes[k]
                        ELSE IF k = r.model /\ ids # {} /\ mode # "preferred" THEN mode ELSE "none"]
  <1>1. Stored(text, r.model) \subseteq {"s1", "s2", "w"}
    BY DEF Stored, KeysFor, RouteText, Pools
  <1>2. ids \subseteq {"s1", "s2", "w"}
    BY <1>1 DEF NextAccountIds, Expanded, Seats, RouteCall, Whats
  <1>3. mode \in {"none", "preferred", "strict"}
    <2>1. text.modes \in Modes /\ r.model \in Keys /\ "M" \in Keys
      BY DEF RouteText, RouteCall, Models, Keys
    <2>2. PreviousPoolMode(text, r.model) \in {"none", "preferred", "strict"}
      BY <2>1 DEF PreviousPoolMode, Modes
    <2> QED BY <2>2 DEF NextPoolMode
  <1> HIDE DEF ids, mode
  <1>4. keyed \in Pools
    BY <1>2 DEF Pools, RouteText
  <1>5. modes \in Modes
    BY <1>3 DEF Modes, RouteText
  <1>6. Rewritten(text, r) = [text EXCEPT !.pools = keyed, !.modes = modes]
    BY DEF Rewritten, RouteText, ids, mode
  <1> HIDE DEF keyed, modes
  <1> QED BY <1>4, <1>5, <1>6 DEF RouteText

-----------------------------------------------------------------------------
\* Nothing but the stage, the queue and the lock.
LEMMA RememberedStays ==
  ASSUME RouteInv, NEW p \in Procs, UNCHANGED disk, UNCHANGED cache, UNCHANGED load,
         AtMostOne(contended'[p])
  PROVE  Remembered(p)'
  BY DEF RouteInv, Remembered, AtMostOne

\* The file is written: what was cached is of an older one.
LEMMA WrittenIs ==
  ASSUME RouteConstants, RouteInv, NEW text \in RouteText, disk.writes < MaxVersion,
         Replace(text)
  PROVE  /\ disk' \in RouteDisk /\ disk'.stat = disk'.writes
         /\ disk'.text = text
         /\ \A p \in Procs : UNCHANGED cache /\ UNCHANGED load /\ UNCHANGED contended
                               => Remembered(p)'
  <1>1. PICK n \in 1..MaxVersion : n = disk.writes + 1
    BY DEF RouteInv, RouteTypes, RouteDisk, RouteConstants
  <1>2. disk' = [stat |-> n, text |-> text, writes |-> n]
    BY <1>1 DEF Replace
  <1>3. disk' \in RouteDisk /\ disk'.stat = n /\ disk'.writes = n /\ disk'.text = text
    BY <1>2 DEF RouteDisk
  <1>4. ASSUME NEW p \in Procs, UNCHANGED cache, UNCHANGED load, UNCHANGED contended
        PROVE  Remembered(p)'
    <2>1. disk.writes \in Nat /\ cache[p].stat \in Nat /\ cache[p].stat <= disk.writes
      BY DEF RouteInv, RouteTypes, RouteDisk, RouteCache, Remembered
    <2>2. cache[p].stat # n /\ cache[p].stat <= n
      BY <1>1, <2>1
    <2>3. \A s \in load[p] : s \in Nat /\ s <= disk.writes
      BY DEF RouteInv, RouteTypes, Remembered
    <2>4. \A s \in load[p] : s <= n
      BY <1>1, <2>1, <2>3
    <2> QED BY <1>3, <1>4, <2>2, <2>4 DEF Remembered, RouteInv, AtMostOne
  <1> QED BY <1>3, <1>4

LEMMA EditIs ==
  ASSUME RouteConstants, RouteInv, Edit
  PROVE  RouteInv'
  <1> USE DEF Edit
  <1>1. /\ UNCHANGED accounts /\ UNCHANGED cache /\ UNCHANGED load /\ UNCHANGED queue
        /\ UNCHANGED stage /\ UNCHANGED lock /\ UNCHANGED contended /\ UNCHANGED clock
        /\ UNCHANGED asks /\ UNCHANGED stalled /\ disk.writes < MaxVersion
    OBVIOUS
  <1>2. \A text \in RouteText : SeatsRouted(text) \in [Models -> SUBSET Seats]
    BY DEF SeatsRouted, MatchingSeats
  <1>3. routed' \in [Models -> SUBSET Seats]
    <2>1. routed' = routed \/ \E text \in RouteText : routed' = SeatsRouted(text)
      BY RouteValues DEF RouteConstants
    <2> QED BY <1>2, <2>1 DEF RouteInv, RouteTypes
  <1>4. disk' \in RouteDisk /\ disk'.stat \in {0, disk'.writes} /\ \A p \in Procs : Remembered(p)'
    <2>1. CASE \E text \in RouteText : Replace(text)
      <3>1. PICK text \in RouteText : Replace(text)
        BY <2>1
      <3> QED BY <1>1, <3>1, WrittenIs
    <2>2. CASE disk' = [disk EXCEPT !.stat = 0, !.text = Empty]
      <3>1. PICK e \in RouteText : e = Empty
        BY RouteValues
      <3>2. PICK d \in RouteDisk : d = disk
        BY DEF RouteInv, RouteTypes
      <3>3. 0 \in 0..MaxVersion
        BY DEF RouteConstants
      <3>4. disk' = [d EXCEPT !.stat = 0, !.text = e]
        BY <2>2, <3>1, <3>2
      <3>5. disk' \in RouteDisk /\ disk'.stat = 0 /\ disk'.writes = disk.writes
        BY <3>2, <3>3, <3>4 DEF RouteDisk
      <3>6. ASSUME NEW p \in Procs  PROVE Remembered(p)'
        BY <1>1, <3>5 DEF RouteInv, Remembered, AtMostOne
      <3> QED BY <3>5, <3>6
    <2> QED BY <2>1, <2>2, RouteValues DEF RouteConstants
  <1>5. Busy'
    BY <1>1 DEF RouteInv, Busy
  <1> QED BY <1>1, <1>3, <1>4, <1>5 DEF RouteInv, RouteTypes

LEMMA JoinIs ==
  ASSUME RouteConstants, RouteInv, Join
  PROVE  RouteInv'
  <1>1. /\ UNCHANGED disk /\ UNCHANGED cache /\ UNCHANGED load /\ UNCHANGED queue
        /\ UNCHANGED stage /\ UNCHANGED lock /\ UNCHANGED contended /\ UNCHANGED clock
        /\ UNCHANGED asks /\ UNCHANGED stalled /\ UNCHANGED routed /\ accounts' = Seats
    BY DEF Join
  <1>2. \A p \in Procs : Remembered(p)'
    BY <1>1, RememberedStays DEF RouteInv, Remembered, AtMostOne
  <1> QED BY <1>1, <1>2 DEF RouteInv, RouteTypes, Busy

LEMMA RestartIs ==
  ASSUME RouteConstants, RouteInv, NEW p \in Procs, Restart(p)
  PROVE  RouteInv'
  <1>1. /\ UNCHANGED disk /\ UNCHANGED accounts /\ UNCHANGED clock /\ UNCHANGED asks /\ UNCHANGED routed
        /\ cache' = [cache EXCEPT ![p] = Cold] /\ load' = [load EXCEPT ![p] = {}]
        /\ queue' = [queue EXCEPT ![p] = <<>>] /\ stage' = [stage EXCEPT ![p] = Idle]
        /\ lock' \in {"left", lock} /\ contended' = [contended EXCEPT ![p] = {}]
        /\ stalled' = [stalled EXCEPT ![p] = 0]
    BY DEF Restart
  <1>2. PICK c \in RouteCache : c = Cold /\ c.cached = FALSE /\ c.stat = 0
    BY RouteValues
  <1>3. PICK i \in RouteStage : i = Idle /\ i.at = "idle"
    BY RouteValues
  <1>4. RouteTypes'
    <2>1. <<>> \in Seq(RouteCall)
      OBVIOUS
    <2> QED BY <1>1, <1>2, <1>3, <2>1 DEF RouteInv, RouteTypes
  <1>5. Busy'
    BY <1>1, <1>3 DEF RouteInv, RouteTypes, Busy
  <1>6. ASSUME NEW q \in Procs  PROVE Remembered(q)'
    <2>1. CASE q = p
      <3>1. cache'[q] = c /\ load'[q] = {} /\ contended'[q] = {} /\ disk' = disk
        BY <1>1, <1>2, <2>1 DEF RouteInv, RouteTypes
      <3>2. disk.writes \in 1..MaxVersion
        BY DEF RouteInv, RouteTypes, RouteDisk
      <3> QED BY <1>2, <3>1, <3>2 DEF Remembered, AtMostOne, RouteConstants
    <2>2. CASE q # p
      BY <1>1, <2>2 DEF RouteInv, RouteTypes, Remembered, AtMostOne
    <2> QED BY <2>1, <2>2
  <1> QED BY <1>4, <1>5, <1>6 DEF RouteInv

LEMMA StatTakenIs ==
  ASSUME RouteConstants, RouteInv, NEW p \in Procs, StatTaken(p)
  PROVE  RouteInv'
  <1> USE DEF StatTaken
  <1>1. /\ UNCHANGED disk /\ UNCHANGED accounts /\ UNCHANGED clock /\ UNCHANGED asks /\ UNCHANGED routed
        /\ UNCHANGED queue /\ UNCHANGED stage /\ UNCHANGED lock /\ UNCHANGED contended /\ UNCHANGED stalled
    OBVIOUS
  <1>2. CASE disk.stat = 0
    <2>1. PICK b \in RouteText : b = Broken /\ b.parses = FALSE
      BY RouteValues
    <2>2. PICK c \in RouteCache : c = cache[p]
      BY DEF RouteInv, RouteTypes
    <2> DEFINE x == [cached |-> TRUE, stat |-> 0, text |-> b, config |-> c.config]
    <2>3. x \in RouteCache /\ x.stat = 0 /\ x.text = b
      BY DEF RouteCache, RouteConstants
    <2>4. cache' = [cache EXCEPT ![p] = x] /\ UNCHANGED load
      BY <1>2, <2>1, <2>2 DEF Missing
    <2> HIDE DEF x
    <2>5. RouteTypes'
      BY <1>1, <2>3, <2>4 DEF RouteInv, RouteTypes
    <2>6. ASSUME NEW q \in Procs  PROVE Remembered(q)'
      <3>1. CASE q = p
        <4>1. cache'[q] = x
          BY <2>4, <3>1 DEF RouteInv, RouteTypes
        <4>2. disk.writes \in 1..MaxVersion
          BY DEF RouteInv, RouteTypes, RouteDisk
        <4>3. Means(x.text, x.config)
          BY <2>1, <2>3 DEF Means
        <4>4. load'[q] = load[q] /\ contended'[q] = contended[q] /\ disk' = disk
          BY <1>1, <2>4
        <4>5. 0 <= disk.writes /\ (x.stat = disk.stat /\ disk.stat # 0 => FALSE)
          BY <1>2, <2>3, <4>2
        <4>6. /\ x.stat <= disk.writes
              /\ x.stat = disk.stat /\ disk.stat # 0 => x.text = disk.text \/ ~x.cached
          BY <2>3, <4>5
        <4>7. AtMostOne(load[q]) /\ AtMostOne(contended[q]) /\ \A s \in load[q] : s <= disk.writes
          BY DEF RouteInv, Remembered
        <4> QED BY <4>1, <4>3, <4>4, <4>6, <4>7 DEF Remembered
      <3>2. CASE q # p
        <4>1. cache'[q] = cache[q] /\ load'[q] = load[q] /\ contended'[q] = contended[q] /\ disk' = disk
          BY <1>1, <2>4, <3>2 DEF RouteInv, RouteTypes
        <4> QED BY <4>1 DEF RouteInv, Remembered
      <3> QED BY <3>1, <3>2
    <2> QED BY <1>1, <2>5, <2>6 DEF RouteInv, Busy
  <1>3. CASE disk.stat # 0
    <2>1. load' = [load EXCEPT ![p] = {disk.stat}] /\ UNCHANGED cache
      BY <1>3
    <2>2. disk.stat \in 1..MaxVersion /\ disk.stat <= disk.writes
      BY <1>3 DEF RouteInv, RouteTypes, RouteDisk
    <2>3. RouteTypes'
      BY <1>1, <2>1, <2>2 DEF RouteInv, RouteTypes
    <2>4. ASSUME NEW q \in Procs  PROVE Remembered(q)'
      <3>1. CASE q = p
        <4>1. load'[q] = {disk.stat}
          BY <2>1, <3>1 DEF RouteInv, RouteTypes
        <4> QED BY <1>1, <2>1, <2>2, <4>1 DEF RouteInv, Remembered, AtMostOne
      <3>2. CASE q # p
        <4>1. load'[q] = load[q]
          BY <2>1, <3>2 DEF RouteInv, RouteTypes
        <4> QED BY <1>1, <2>1, <4>1 DEF RouteInv, Remembered, AtMostOne
      <3> QED BY <3>1, <3>2
    <2> QED BY <1>1, <2>3, <2>4 DEF RouteInv, Busy
  <1> QED BY <1>2, <1>3

LEMMA TextReadIs ==
  ASSUME RouteConstants, RouteInv, NEW p \in Procs, TextRead(p)
  PROVE  RouteInv'
  <1> USE DEF TextRead
  <1>1. /\ UNCHANGED disk /\ UNCHANGED accounts /\ UNCHANGED clock /\ UNCHANGED asks /\ UNCHANGED routed
        /\ UNCHANGED queue /\ UNCHANGED stage /\ UNCHANGED lock /\ UNCHANGED contended /\ UNCHANGED stalled
        /\ load' = [load EXCEPT ![p] = {}]
    OBVIOUS
  <1>2. PICK s \in 1..MaxVersion : load[p] = {s} /\ s <= disk.writes
    BY DEF RouteInv, RouteTypes, Remembered, AtMostOne
  <1>3. StatOfLoad(p) = s
    BY <1>2 DEF StatOfLoad
  <1>4. PICK c \in RouteCache : c = cache[p] /\ (c.cached => Means(c.text, c.config))
    BY DEF RouteInv, RouteTypes, Remembered
  <1>5. PICK d \in RouteDisk : d = disk
    BY DEF RouteInv, RouteTypes
  <1>6. PICK x \in RouteCache :
          /\ cache' = [cache EXCEPT ![p] = x] /\ Means(x.text, x.config) /\ x.stat <= d.writes
          /\ x.stat = d.stat /\ d.stat # 0 => x.text = d.text
    <2>1. CASE d.stat = 0
      <3>1. PICK b \in RouteText : b = Broken /\ b.parses = FALSE
        BY RouteValues
      <3> DEFINE x == [cached |-> TRUE, stat |-> 0, text |-> b, config |-> c.config]
      <3>2. x \in RouteCache /\ x.stat = 0 /\ x.text = b
        BY DEF RouteCache, RouteConstants
      <3>3. cache' = [cache EXCEPT ![p] = x]
        BY <1>4, <1>5, <2>1, <3>1 DEF Missing
      <3> HIDE DEF x
      <3>4. Means(x.text, x.config)
        BY <3>1, <3>2 DEF Means
      <3>5. x.stat <= d.writes
        BY <3>2 DEF RouteDisk
      <3> QED BY <2>1, <3>2, <3>3, <3>4, <3>5
    <2>2. CASE d.stat # 0
      <3> DEFINE known == IF c.cached /\ c.text = d.text THEN c.config
                          ELSE ReadPluginConfig(d.text, c.config)
      <3>1. PICK k \in RouteConfig : k = known /\ Means(d.text, k)
        <4>1. c.config \in RouteConfig /\ d.text \in RouteText
          BY DEF RouteCache, RouteDisk
        <4>2. known \in RouteConfig /\ Means(d.text, known)
          BY <1>4, <4>1, ReadMeans
        <4> QED BY <4>2
      <3> DEFINE x == [cached |-> TRUE, stat |-> s, text |-> d.text, config |-> k]
      <3>2. x \in RouteCache /\ x.stat = s /\ x.text = d.text /\ x.config = k
        BY DEF RouteCache, RouteDisk
      <3>3. cache' = [cache EXCEPT ![p] = x]
        BY <1>3, <1>4, <1>5, <2>2, <3>1
      <3> HIDE DEF x, known
      <3>4. x.text = disk.text /\ Means(x.text, x.config)
        BY <1>2, <1>5, <3>1, <3>2
      <3>5. x.stat <= d.writes /\ x.text = d.text /\ x \in RouteCache
        BY <1>2, <1>5, <3>2
      <3> QED BY <3>3, <3>4, <3>5
    <2> QED BY <2>1, <2>2
  <1>7. RouteTypes'
    <2>1. cache' \in [Procs -> RouteCache] /\ load' \in [Procs -> SUBSET (1..MaxVersion)]
      BY <1>1, <1>6 DEF RouteInv, RouteTypes
    <2> QED BY <1>1, <2>1 DEF RouteInv, RouteTypes
  <1>8. ASSUME NEW q \in Procs  PROVE Remembered(q)'
    <2>1. CASE q = p
      <3>1. cache'[q] = x /\ load'[q] = {}
        BY <1>1, <1>6, <2>1 DEF RouteInv, RouteTypes
      <3>2. disk' = d /\ contended' = contended /\ AtMostOne(contended[q])
        BY <1>1, <1>5 DEF RouteInv, Remembered
      <3> QED BY <1>6, <3>1, <3>2 DEF Remembered, AtMostOne
    <2>2. CASE q # p
      <3>1. cache'[q] = cache[q] /\ load'[q] = load[q]
        BY <1>1, <1>6, <2>2 DEF RouteInv, RouteTypes
      <3>2. UNCHANGED disk /\ UNCHANGED contended /\ Remembered(q)
        BY <1>1 DEF RouteInv
      <3> QED BY <3>1, <3>2 DEF Remembered, AtMostOne
    <2> QED BY <2>1, <2>2
  <1> QED BY <1>1, <1>7, <1>8 DEF RouteInv, Busy

-----------------------------------------------------------------------------
\* A step of one process's stage; the file and what is known of it stay.
LEMMA StageStep ==
  ASSUME RouteConstants, RouteInv, NEW p \in Procs, NEW x \in RouteStage, NEW s \in Seq(RouteCall),
         UNCHANGED disk, UNCHANGED accounts, UNCHANGED cache, UNCHANGED load,
         UNCHANGED clock, UNCHANGED asks, UNCHANGED routed,
         stage' = [stage EXCEPT ![p] = x], queue' = [queue EXCEPT ![p] = s],
         x.at # "idle" => s # <<>>,
         lock' \in Procs \cup {"none", "left"},
         contended' \in [Procs -> SUBSET (0..MaxClock)], \A q \in Procs : AtMostOne(contended'[q]),
         stalled' \in [Procs -> Nat]
  PROVE  RouteInv'
  <1>1. RouteTypes'
    BY DEF RouteInv, RouteTypes
  <1>2. Busy'
    <2> SUFFICES ASSUME NEW q \in Procs, stage'[q].at # "idle"  PROVE queue'[q] # <<>>
      BY DEF Busy
    <2> QED BY DEF RouteInv, RouteTypes, Busy
  <1>3. \A q \in Procs : Remembered(q)'
    BY RememberedStays
  <1> QED BY <1>1, <1>2, <1>3 DEF RouteInv

\* The call at the head of a queue, and what is left of the queue.
LEMMA HeadIs ==
  ASSUME RouteInv, NEW p \in Procs, queue[p] # <<>>
  PROVE  /\ queue[p] \in Seq(RouteCall) /\ Len(queue[p]) \in Nat \ {0}
         /\ Head(queue[p]) \in RouteCall /\ Head(queue[p]) = queue[p][1]
         /\ Tail(queue[p]) \in Seq(RouteCall)
         /\ Len(Tail(queue[p])) = Len(queue[p]) - 1
         /\ Tail(queue[p]) = <<>> <=> Len(queue[p]) = 1
         /\ \A i \in 1..Len(queue[p]) - 1 : i + 1 \in 1..Len(queue[p]) /\ Tail(queue[p])[i] = queue[p][i + 1]
  <1>1. queue[p] \in Seq(RouteCall)
    BY DEF RouteInv, RouteTypes
  <1>2. PICK s \in Seq(RouteCall) : s = queue[p] /\ s # <<>>
    BY <1>1
  <1>3. Len(s) \in Nat \ {0} /\ Head(s) = s[1] /\ s[1] \in RouteCall
    BY <1>2, EmptySeq
  <1>4. Tail(s) \in Seq(RouteCall) /\ Len(Tail(s)) = Len(s) - 1
    BY <1>2, HeadTailProperties
  <1>5. \A i \in 1..Len(s) - 1 : i + 1 \in 1..Len(s) /\ Tail(s)[i] = s[i + 1]
    BY <1>2, <1>3, HeadTailProperties
  <1>6. (Tail(s) = <<>>) <=> (Len(s) = 1)
    <2>1. (Tail(s) = <<>>) <=> (Len(Tail(s)) = 0)
      BY <1>4, EmptySeq
    <2> QED BY <1>3, <1>4, <2>1
  <1> QED BY <1>2, <1>3, <1>4, <1>5, <1>6

LEMMA StayingIs ==
  ASSUME RouteInv
  PROVE  /\ \A p \in Procs : queue[p] \in Seq(RouteCall)
         /\ \A q \in Procs : AtMostOne(contended[q])
         /\ \A p \in Procs : queue = [queue EXCEPT ![p] = queue[p]]
         /\ \A p \in Procs : stage = [stage EXCEPT ![p] = stage[p]]
  BY DEF RouteInv, RouteTypes, Remembered

LEMMA PoppedIs ==
  ASSUME RouteConstants, RouteInv, NEW p \in Procs, queue[p] # <<>>, Popped(p)
  PROVE  /\ Tail(queue[p]) \in Seq(RouteCall) /\ Idle \in RouteStage /\ Idle.at = "idle"
         /\ queue' = [queue EXCEPT ![p] = Tail(queue[p])]
         /\ stage' = [stage EXCEPT ![p] = Idle]
  BY HeadIs, RouteValues DEF Popped

LEMMA AskIs ==
  ASSUME RouteConstants, RouteInv, NEW p \in Procs, Ask(p)
  PROVE  /\ RouteInv'
         /\ asks' = asks + 1 /\ asks < MaxAsks
         /\ \E r \in RouteCall : r.seats = accounts /\ queue' = [queue EXCEPT ![p] = Append(queue[p], r)]
  <1>1. /\ UNCHANGED disk /\ UNCHANGED accounts /\ UNCHANGED clock /\ UNCHANGED routed
        /\ UNCHANGED cache /\ UNCHANGED load /\ UNCHANGED stage /\ UNCHANGED lock
        /\ UNCHANGED contended /\ UNCHANGED stalled /\ asks' = asks + 1 /\ asks < MaxAsks
    BY DEF Ask
  <1>2. PICK a \in Requests :
          queue' = [queue EXCEPT ![p] = Append(@,
            [what |-> a.what, model |-> a.model, ids |-> a.ids, seats |-> accounts])]
    BY DEF Ask
  <1>3. PICK z \in SUBSET Seats : z = accounts
    BY DEF RouteInv, RouteTypes
  <1> DEFINE r == [what |-> a.what, model |-> a.model, ids |-> a.ids, seats |-> z]
  <1>4. r \in RouteCall /\ r.seats = z
    BY DEF RouteCall, RouteConstants
  <1>5. queue' = [queue EXCEPT ![p] = Append(queue[p], r)]
    BY <1>2, <1>3
  <1> HIDE DEF r
  <1>6. Append(queue[p], r) \in Seq(RouteCall) /\ Append(queue[p], r) # <<>>
    BY <1>4, StayingIs, AppendProperties
  <1>7. RouteTypes'
    <2>1. queue' \in [Procs -> Seq(RouteCall)]
      BY <1>5, <1>6 DEF RouteInv, RouteTypes
    <2>2. asks' \in 0..MaxAsks
      BY <1>1 DEF RouteInv, RouteTypes, RouteConstants
    <2> QED BY <1>1, <2>1, <2>2 DEF RouteInv, RouteTypes
  <1>8. Busy'
    <2> SUFFICES ASSUME NEW q \in Procs, stage[q].at # "idle"  PROVE queue'[q] # <<>>
      BY <1>1 DEF Busy
    <2> QED BY <1>5, <1>6 DEF RouteInv, RouteTypes, Busy
  <1>9. \A q \in Procs : Remembered(q)'
    BY <1>1, RememberedStays, StayingIs
  <1> QED BY <1>1, <1>3, <1>4, <1>5, <1>7, <1>8, <1>9 DEF RouteInv

LEMMA LockAskedIs ==
  ASSUME RouteConstants, RouteInv, NEW p \in Procs, LockAsked(p)
  PROVE  /\ RouteInv'
         /\ \E x \in RouteStage : /\ stage' = [stage EXCEPT ![p] = x]
                                  /\ x.at = "waiting" /\ x.since = clock /\ x.budget = Budget(p)
  <1>1. /\ UNCHANGED disk /\ UNCHANGED accounts /\ UNCHANGED clock /\ UNCHANGED routed
        /\ UNCHANGED cache /\ UNCHANGED load /\ UNCHANGED queue /\ UNCHANGED lock
        /\ UNCHANGED contended /\ UNCHANGED stalled /\ UNCHANGED asks
        /\ queue[p] # <<>> /\ stage[p].at = "idle"
    BY DEF LockAsked, Waiting
  <1>2. PICK i \in RouteStage : i = Idle
    BY RouteValues
  <1>3. PICK b \in {1, 3} : b = Budget(p)
    BY DEF Budget, LOCK_RETRY_BUDGET_PROBE, LOCK_RETRY_BUDGET_FULL
  <1>4. PICK c \in 0..MaxClock : c = clock
    BY DEF RouteInv, RouteTypes
  <1> DEFINE x == [i EXCEPT !.at = "waiting", !.since = c, !.budget = b]
  <1>5. x \in RouteStage /\ x.at = "waiting" /\ x.since = c /\ x.budget = b
    <2>1. b \in 0..3
      OBVIOUS
    <2> QED BY <2>1 DEF RouteStage
  <1>6. stage' = [stage EXCEPT ![p] = x]
    BY <1>2, <1>3, <1>4 DEF LockAsked
  <1> HIDE DEF x
  <1>7. RouteInv'
    <2>1. PICK s \in Seq(RouteCall) : s = queue[p] /\ s # <<>> /\ queue' = [queue EXCEPT ![p] = s]
      BY <1>1, StayingIs
    <2>2. contended' \in [Procs -> SUBSET (0..MaxClock)] /\ stalled' \in [Procs -> Nat]
          /\ lock' \in Procs \cup {"none", "left"}
      BY <1>1 DEF RouteInv, RouteTypes
    <2> QED BY <1>1, <1>5, <1>6, <2>1, <2>2, StageStep, StayingIs
  <1> QED BY <1>3, <1>4, <1>5, <1>6, <1>7

LEMMA LockedIs ==
  ASSUME RouteConstants, RouteInv, NEW p \in Procs, Locked(p)
  PROVE  /\ RouteInv'
         /\ \E x \in RouteStage : stage' = [stage EXCEPT ![p] = x] /\ x.at = "locked"
  <1>1. /\ UNCHANGED disk /\ UNCHANGED accounts /\ UNCHANGED clock /\ UNCHANGED routed
        /\ UNCHANGED cache /\ UNCHANGED load /\ UNCHANGED queue /\ lock' = p
        /\ contended' = [contended EXCEPT ![p] = {}] /\ stalled' = [stalled EXCEPT ![p] = 0]
        /\ UNCHANGED asks /\ stage[p].at = "waiting"
    BY DEF Locked
  <1>2. PICK i \in RouteStage : i = Idle
    BY RouteValues
  <1> DEFINE x == [i EXCEPT !.at = "locked"]
  <1>3. x \in RouteStage /\ x.at = "locked"
    BY DEF RouteStage
  <1>4. stage' = [stage EXCEPT ![p] = x]
    BY <1>2 DEF Locked
  <1> HIDE DEF x
  <1>5. PICK s \in Seq(RouteCall) : s = queue[p] /\ s # <<>> /\ queue' = [queue EXCEPT ![p] = s]
    BY <1>1, StayingIs DEF RouteInv, Busy
  <1>6. contended' \in [Procs -> SUBSET (0..MaxClock)] /\ stalled' \in [Procs -> Nat]
        /\ \A q \in Procs : AtMostOne(contended'[q])
    <2>1. contended' \in [Procs -> SUBSET (0..MaxClock)] /\ stalled' \in [Procs -> Nat]
      BY <1>1 DEF RouteInv, RouteTypes
    <2>2. \A q \in Procs : contended'[q] \in {{}, contended[q]}
      BY <1>1 DEF RouteInv, RouteTypes
    <2> QED BY <2>1, <2>2, StayingIs DEF AtMostOne
  <1>7. RouteInv'
    BY <1>1, <1>3, <1>4, <1>5, <1>6, StageStep
  <1> QED BY <1>3, <1>4, <1>7

LEMMA LockRefusedIs ==
  ASSUME RouteConstants, RouteInv, NEW p \in Procs, LockRefused(p)
  PROVE  RouteInv'
  <1>1. /\ UNCHANGED disk /\ UNCHANGED accounts /\ UNCHANGED clock /\ UNCHANGED routed
        /\ UNCHANGED cache /\ UNCHANGED load /\ UNCHANGED lock /\ Popped(p)
        /\ contended' = [contended EXCEPT ![p] = {clock}]
        /\ stalled' = [stalled EXCEPT ![p] = IF Len(queue[p]) = 1 THEN 0 ELSE @]
        /\ UNCHANGED asks /\ stage[p].at = "waiting"
    BY DEF LockRefused, Expired, LastTry
  <1>2. queue[p] # <<>>
    BY <1>1 DEF RouteInv, Busy
  <1>3. contended' \in [Procs -> SUBSET (0..MaxClock)] /\ stalled' \in [Procs -> Nat]
        /\ \A q \in Procs : AtMostOne(contended'[q])
    <2>1. clock \in 0..MaxClock
      BY DEF RouteInv, RouteTypes
    <2>2. contended' \in [Procs -> SUBSET (0..MaxClock)]
      BY <1>1, <2>1 DEF RouteInv, RouteTypes
    <2>3. stalled' \in [Procs -> Nat]
      BY <1>1 DEF RouteInv, RouteTypes
    <2>4. \A q \in Procs : contended'[q] \in {{clock}, contended[q]}
      BY <1>1 DEF RouteInv, RouteTypes
    <2> QED BY <2>2, <2>3, <2>4, StayingIs DEF AtMostOne
  <1>4. lock' \in Procs \cup {"none", "left"}
    BY <1>1 DEF RouteInv, RouteTypes
  <1> QED BY <1>1, <1>2, <1>3, <1>4, PoppedIs, StageStep

LEMMA ReleaseIs ==
  ASSUME RouteInv, NEW p \in Procs, Release(p)
  PROVE  lock' \in Procs \cup {"none", "left"} /\ (lock = p => lock' \in {"none", "left"}) /\ (lock # p => lock' = lock)
  BY DEF Release, RouteInv, RouteTypes

LEMMA TextLockedIs ==
  ASSUME RouteConstants, RouteInv, NEW p \in Procs, TextLocked(p)
  PROVE  /\ RouteInv'
         /\ \/ Popped(p) /\ Release(p)
            \/ /\ UNCHANGED lock /\ UNCHANGED queue /\ disk.text.parses
               /\ \E x \in RouteStage : /\ stage' = [stage EXCEPT ![p] = x]
                                        /\ x.at = "writing" /\ x.text = disk.text
  <1>1. /\ UNCHANGED disk /\ UNCHANGED accounts /\ UNCHANGED clock /\ UNCHANGED routed
        /\ UNCHANGED cache /\ UNCHANGED load /\ UNCHANGED contended /\ UNCHANGED stalled
        /\ UNCHANGED asks /\ stage[p].at = "locked"
    BY DEF TextLocked
  <1>2. queue[p] # <<>>
    BY <1>1 DEF RouteInv, Busy
  <1>3. contended' \in [Procs -> SUBSET (0..MaxClock)] /\ stalled' \in [Procs -> Nat]
        /\ \A q \in Procs : AtMostOne(contended'[q])
    BY <1>1, StayingIs DEF RouteInv, RouteTypes
  <1>4. CASE Popped(p) /\ Release(p)
    <2>1. RouteInv'
      BY <1>1, <1>2, <1>3, <1>4, PoppedIs, ReleaseIs, StageStep
    <2> QED BY <1>4, <2>1
  <1>5. CASE /\ disk.text.parses /\ UNCHANGED <<queue, lock>>
             /\ stage' = [stage EXCEPT ![p] = [@ EXCEPT !.at = "writing", !.text = disk.text]]
    <2>1. PICK i \in RouteStage : i = stage[p]
      BY DEF RouteInv, RouteTypes
    <2>2. PICK t \in RouteText : t = disk.text
      BY DEF RouteInv, RouteTypes, RouteDisk
    <2> DEFINE x == [i EXCEPT !.at = "writing", !.text = t]
    <2>3. x \in RouteStage /\ x.at = "writing" /\ x.text = t
      BY DEF RouteStage
    <2>4. stage' = [stage EXCEPT ![p] = x]
      BY <1>5, <2>1, <2>2
    <2> HIDE DEF x
    <2>5. PICK s \in Seq(RouteCall) : s = queue[p] /\ s # <<>> /\ queue' = [queue EXCEPT ![p] = s]
      BY <1>2, <1>5, StayingIs
    <2>6. lock' \in Procs \cup {"none", "left"}
      BY <1>5 DEF RouteInv, RouteTypes
    <2>7. RouteInv'
      BY <1>1, <1>3, <2>3, <2>4, <2>5, <2>6, StageStep
    <2> QED BY <1>5, <2>2, <2>3, <2>4, <2>7
  <1> QED BY <1>4, <1>5 DEF TextLocked, TextUnderLock

LEMMA RenamedIs ==
  ASSUME RouteConstants, RouteInv, NEW p \in Procs, Renamed(p)
  PROVE  RouteInv'
  <1>1. /\ UNCHANGED accounts /\ UNCHANGED clock /\ UNCHANGED contended /\ UNCHANGED stalled
        /\ UNCHANGED cache /\ UNCHANGED load /\ UNCHANGED asks
        /\ Popped(p) /\ Release(p) /\ stage[p].at = "writing"
    BY DEF Renamed
  <1>2. queue[p] # <<>>
    BY <1>1 DEF RouteInv, Busy
  <1>3. PICK r \in RouteCall : r = Head(queue[p])
    BY <1>2, HeadIs
  <1>4. PICK t \in RouteText : t = stage[p].text
    BY DEF RouteInv, RouteTypes, RouteStage
  <1>5. disk' = disk \/ (disk.writes < MaxVersion /\ Replace(Rewritten(t, r)))
    <2>1. IF Rewritten(stage[p].text, Head(queue[p])) = stage[p].text THEN UNCHANGED disk
          ELSE disk.writes < MaxVersion /\ Replace(Rewritten(stage[p].text, Head(queue[p])))
      BY DEF Renamed
    <2> QED BY <1>3, <1>4, <2>1
  <1>6. /\ disk' \in RouteDisk /\ disk'.stat \in {0, disk'.writes}
        /\ \A q \in Procs : Remembered(q)'
    <2>1. CASE disk' = disk
      <3>1. \A q \in Procs : Remembered(q)'
        BY <1>1, <2>1, RememberedStays, StayingIs
      <3> QED BY <2>1, <3>1 DEF RouteInv, RouteTypes
    <2>2. CASE disk.writes < MaxVersion /\ Replace(Rewritten(t, r))
      BY <1>1, <2>2, WrittenIs, RewrittenIs
    <2> QED BY <1>5, <2>1, <2>2
  <1>7. routed' \in [Models -> SUBSET Seats]
    <2>1. \A b \in SUBSET Seats : Wanted(b, r) \in SUBSET Seats
      BY DEF Wanted, RouteCall, Whats
    <2>2. r.model \in Models /\ routed' = [routed EXCEPT ![r.model] = Wanted(@, r)]
      BY <1>3 DEF RouteCall, Renamed
    <2> QED BY <2>1, <2>2 DEF RouteInv, RouteTypes
  <1>8. lock' \in Procs \cup {"none", "left"}
    BY <1>1, ReleaseIs
  <1>9. queue' \in [Procs -> Seq(RouteCall)] /\ stage' \in [Procs -> RouteStage]
    BY <1>1, <1>2, PoppedIs DEF RouteInv, RouteTypes
  <1>10. Busy'
    <2> SUFFICES ASSUME NEW q \in Procs, stage'[q].at # "idle"  PROVE queue'[q] # <<>>
      BY DEF Busy
    <2> QED BY <1>1, <1>2, PoppedIs DEF RouteInv, RouteTypes, Busy
  <1> QED BY <1>1, <1>6, <1>7, <1>8, <1>9, <1>10 DEF RouteInv, RouteTypes

LEMMA ReclaimedIs ==
  ASSUME RouteConstants, RouteInv, Reclaimed
  PROVE  RouteInv'
  <1>1. /\ UNCHANGED disk /\ UNCHANGED accounts /\ UNCHANGED cache /\ UNCHANGED load /\ UNCHANGED queue
        /\ UNCHANGED stage /\ UNCHANGED contended /\ UNCHANGED clock /\ lock' = "none"
        /\ UNCHANGED asks /\ UNCHANGED stalled /\ UNCHANGED routed
    BY DEF Reclaimed
  <1>2. \A p \in Procs : Remembered(p)'
    BY <1>1, RememberedStays, StayingIs
  <1> QED BY <1>1, <1>2 DEF RouteInv, RouteTypes, Busy

LEMMA RouteTickIs ==
  ASSUME RouteConstants, RouteInv, Tick
  PROVE  RouteInv'
  <1>1. /\ UNCHANGED disk /\ UNCHANGED accounts /\ UNCHANGED cache /\ UNCHANGED load /\ UNCHANGED queue
        /\ UNCHANGED stage /\ UNCHANGED contended /\ clock' = clock + 1 /\ clock < MaxClock
        /\ UNCHANGED asks /\ UNCHANGED lock /\ UNCHANGED routed
    BY DEF Tick
  <1>2. \A p \in Procs : Remembered(p)'
    BY <1>1, RememberedStays, StayingIs
  <1>3. stalled' \in [Procs -> Nat]
    BY DEF Tick, RouteInv, RouteTypes
  <1>4. clock' \in 0..MaxClock
    BY <1>1 DEF RouteInv, RouteTypes, RouteConstants
  <1> QED BY <1>1, <1>2, <1>3, <1>4 DEF RouteInv, RouteTypes, Busy

-----------------------------------------------------------------------------
\* Whoever has the lock has it alone, and the file is as it was read.
Exclusive ==
  \A p \in Procs :
    /\ stage[p].at \in {"locked", "writing"} => lock = p
    /\ stage[p].at = "writing" => stage[p].text = disk.text /\ disk.text.parses

\* The calls know every seat.
Whole ==
  /\ accounts = Seats
  /\ \A p \in Procs : \A i \in 1..Len(queue[p]) : queue[p][i].seats = Seats

OneKey(text) == text.pools["m"] = {} \/ text.pools["M"] = {}

SeatsOf(text, m) == MatchingSeats(PoolOf(text.pools, m), Seats)

FollowsCalls ==
  /\ OneKey(disk.text)
  /\ disk.text.parses => \A m \in Models : SeatsOf(disk.text, m) = routed[m]

OrderInv == RouteInv /\ Exclusive /\ Whole /\ FollowsCalls

\* With one key for a model, what is stored for it is what it routes to.
LEMMA StoredIs ==
  ASSUME NEW text \in RouteText, OneKey(text), NEW m \in Models
  PROVE  Stored(text, m) = PoolOf(text.pools, m)
  <1>1. text.pools \in [{"m", "M", "n"} -> SUBSET {"s1", "s2", "w"}]
    BY DEF RouteText, Pools, Keys
  <1>2. CASE m = "m"
    <2>1. KeysFor(text.pools, m) = {k \in {"m", "M"} : text.pools[k] # {}}
      BY <1>2 DEF KeysFor, ModelOf, Keys
    <2> QED BY <1>1, <1>2, <2>1 DEF Stored, PoolOf, OneKey
  <1>3. CASE m = "n"
    <2>1. KeysFor(text.pools, m) = {k \in {"n"} : text.pools[k] # {}}
      BY <1>3 DEF KeysFor, ModelOf, Keys
    <2> QED BY <1>1, <1>3, <2>1 DEF Stored, PoolOf
  <1> QED BY <1>2, <1>3 DEF Models

\* The accounts a call leaves in the pool are the ones it asks for.
LEMMA NextIsWanted ==
  ASSUME Scoped = FALSE, NEW text \in RouteText, OneKey(text), NEW r \in RouteCall,
         r.seats = Seats
  PROVE  MatchingSeats(NextAccountIds(text, r), Seats)
           = Wanted(SeatsOf(text, r.model), r)
  <1>1. PICK before \in SUBSET {"s1", "s2", "w"} :
          before = Stored(text, r.model) /\ before = PoolOf(text.pools, r.model)
    <2>1. Stored(text, r.model) \subseteq {"s1", "s2", "w"}
      BY DEF Stored, KeysFor, RouteText, Pools
    <2> QED BY <2>1, StoredIs DEF RouteCall
  <1>2. PICK ids \in SUBSET Seats : ids = r.ids
    BY DEF RouteCall
  <1> DEFINE normal == IF "w" \in before THEN {"s1", "s2"} ELSE before
  <1>3. Expanded(before, r.seats) = normal
    BY DEF Expanded, Seats
  <1>4. SeatsOf(text, r.model) = IF "w" \in before THEN {"s1", "s2"} ELSE before
    BY <1>1 DEF SeatsOf, MatchingSeats, Seats
  <1>5. CASE r.what = "set" \/ r.what = "clear"
    BY <1>5, <1>2 DEF NextAccountIds, Wanted, MatchingSeats, Seats
  <1>6. CASE r.what = "set-mode"
    <2>1. NextAccountIds(text, r) = before
      BY <1>1, <1>6 DEF NextAccountIds
    <2>2. Wanted(SeatsOf(text, r.model), r) = SeatsOf(text, r.model)
      BY <1>6 DEF Wanted
    <2> QED BY <1>1, <2>1, <2>2 DEF SeatsOf
  <1>7. CASE r.what = "add"
    <2>1. NextAccountIds(text, r) = normal \cup ids
      BY <1>1, <1>2, <1>3, <1>7 DEF NextAccountIds
    <2>2. Wanted(SeatsOf(text, r.model), r) = normal \cup ids
      BY <1>2, <1>4, <1>7 DEF Wanted
    <2> QED BY <2>1, <2>2 DEF MatchingSeats, Seats
  <1>8. CASE r.what = "remove"
    <2>1. NextAccountIds(text, r) = normal \ ids
      BY <1>1, <1>2, <1>3, <1>8 DEF NextAccountIds
    <2>2. Wanted(SeatsOf(text, r.model), r) = normal \ ids
      BY <1>2, <1>4, <1>8 DEF Wanted
    <2> QED BY <2>1, <2>2 DEF MatchingSeats, Seats
  <1> QED BY <1>5, <1>6, <1>7, <1>8 DEF RouteCall, Whats

\* A rename changes one model's accounts, to the ones its call asks for.
LEMMA RewriteRoutes ==
  ASSUME Scoped = FALSE, NEW text \in RouteText, OneKey(text), NEW r \in RouteCall,
         r.seats = Seats
  PROVE  /\ OneKey(Rewritten(text, r))
         /\ Rewritten(text, r).parses = text.parses
         /\ \A m \in Models :
              SeatsOf(Rewritten(text, r), m)
                = IF m = r.model THEN Wanted(SeatsOf(text, r.model), r) ELSE SeatsOf(text, m)
  <1> DEFINE ids == NextAccountIds(text, r)
             new == Rewritten(text, r)
  <1>1. /\ new.parses = text.parses
        /\ new.pools = [k \in Keys |-> IF ModelOf(k) # r.model THEN text.pools[k]
                                              ELSE IF k = r.model THEN ids ELSE {}]
    BY DEF Rewritten, RouteText
  <1> HIDE DEF new
  <1>2. CASE r.model = "m"
    <2>1. new.pools["m"] = ids /\ new.pools["M"] = {} /\ new.pools["n"] = text.pools["n"]
      BY <1>1, <1>2 DEF ModelOf, Keys
    <2>2. SeatsOf(new, "m") = MatchingSeats(ids, Seats) /\ SeatsOf(new, "n") = SeatsOf(text, "n")
      BY <2>1 DEF SeatsOf, PoolOf
    <2>3. SeatsOf(new, "m") = Wanted(SeatsOf(text, "m"), r)
      BY <1>2, <2>2, NextIsWanted
    <2>4. OneKey(new) /\ \A m \in Models :
            SeatsOf(new, m) = IF m = "m" THEN Wanted(SeatsOf(text, "m"), r) ELSE SeatsOf(text, m)
      BY <2>1, <2>2, <2>3 DEF OneKey, Models
    <2> QED BY <1>1, <1>2, <2>4 DEF new
  <1>3. CASE r.model = "n"
    <2>1. new.pools["m"] = text.pools["m"] /\ new.pools["M"] = text.pools["M"] /\ new.pools["n"] = ids
      BY <1>1, <1>3 DEF ModelOf, Keys
    <2>2. SeatsOf(new, "n") = MatchingSeats(ids, Seats) /\ SeatsOf(new, "m") = SeatsOf(text, "m")
      BY <2>1 DEF SeatsOf, PoolOf
    <2>3. SeatsOf(new, "n") = Wanted(SeatsOf(text, "n"), r)
      BY <1>3, <2>2, NextIsWanted
    <2>4. OneKey(new) /\ \A m \in Models :
            SeatsOf(new, m) = IF m = "n" THEN Wanted(SeatsOf(text, "n"), r) ELSE SeatsOf(text, m)
      BY <2>1, <2>2, <2>3 DEF OneKey, Models
    <2> QED BY <1>1, <1>3, <2>4 DEF new
  <1> QED BY <1>2, <1>3 DEF RouteCall, Models

-----------------------------------------------------------------------------
\* The parts of the order that a step of the stage, queue and lock can touch.
LEMMA OrderStays ==
  ASSUME OrderInv, RouteInv', UNCHANGED disk, UNCHANGED routed, UNCHANGED accounts, Exclusive',
         \A p \in Procs : \A i \in 1..Len(queue'[p]) : queue'[p][i].seats = Seats
  PROVE  OrderInv'
  BY DEF OrderInv, Whole, FollowsCalls

\* The head of a queue is gone.
LEMMA PoppedKeeps ==
  ASSUME RouteConstants, RouteInv, Whole, NEW p \in Procs, queue[p] # <<>>, Popped(p)
  PROVE  \A q \in Procs : \A i \in 1..Len(queue'[q]) : queue'[q][i].seats = Seats
  <1> SUFFICES ASSUME NEW q \in Procs, NEW i \in 1..Len(queue'[q])
               PROVE  queue'[q][i].seats = Seats
    OBVIOUS
  <1>1. CASE q # p
    <2>1. queue'[q] = queue[q]
      BY <1>1, PoppedIs DEF RouteInv, RouteTypes
    <2> QED BY <2>1 DEF Whole
  <1>2. CASE q = p
    <2>1. queue'[q] = Tail(queue[p])
      BY <1>2, PoppedIs DEF RouteInv, RouteTypes
    <2>2. i \in 1..Len(queue[p]) - 1
      BY <2>1, HeadIs
    <2> QED BY <2>1, <2>2, HeadIs DEF Whole
  <1> QED BY <1>1, <1>2

\* A process gives the lock back when it leaves its stage.
LEMMA ReleasedIs ==
  ASSUME RouteConstants, RouteInv, Exclusive, NEW p \in Procs, queue[p] # <<>>,
         stage[p].at \in {"locked", "writing"}, Popped(p), Release(p)
  PROVE  \A q \in Procs : stage'[q].at \notin {"locked", "writing"}
  <1>1. lock = p
    BY DEF Exclusive
  <1>2. \A q \in Procs : q # p => stage'[q] = stage[q]
    BY PoppedIs DEF RouteInv, RouteTypes
  <1>3. stage'[p].at = "idle"
    BY PoppedIs DEF RouteInv, RouteTypes
  <1> QED BY <1>1, <1>2, <1>3 DEF Exclusive

LEMMA OrderEdit ==
  ASSUME RouteConstants, Orderly, OrderInv, Edit
  PROVE  OrderInv'
  <1>1. /\ RouteInv' /\ UNCHANGED accounts /\ UNCHANGED queue /\ UNCHANGED stage /\ UNCHANGED lock
        /\ \A p \in Procs : stage[p].at # "writing"
    BY EditIs DEF OrderInv, Edit, Orderly
  <1>2. Exclusive' /\ Whole'
    BY <1>1 DEF OrderInv, Exclusive, Whole
  <1>3. FollowsCalls'
    <2>1. CASE \E text \in Edits : Replace(text) /\ routed' = SeatsRouted(text)
      <3>1. PICK text \in Edits : Replace(text) /\ routed' = SeatsRouted(text)
        BY <2>1
      <3>2. disk'.text = text
        BY <3>1 DEF Replace
      <3> QED BY <3>1, <3>2 DEF SeatsRouted, Orderly, FollowsCalls, OneKey, SeatsOf
    <2>2. CASE Replace(Broken) /\ UNCHANGED routed
      <3>1. disk'.text = Broken
        BY <2>2 DEF Replace
      <3>2. OneKey(Broken)
        BY DEF OneKey, Broken, Text, NoKeys, Keys
      <3> QED BY <3>1, <3>2, RouteValues DEF FollowsCalls
    <2>3. CASE /\ disk' = [disk EXCEPT !.stat = 0, !.text = Empty]
               /\ routed' = SeatsRouted(Empty)
      <3>1. disk'.text = Empty
        BY <2>3 DEF OrderInv, RouteInv, RouteTypes, RouteDisk
      <3>2. OneKey(Empty)
        BY DEF OneKey, Empty, Text, NoKeys, Keys
      <3> QED BY <2>3, <3>1, <3>2 DEF FollowsCalls, SeatsRouted, SeatsOf
    <2> QED BY <2>1, <2>2, <2>3 DEF Edit
  <1> QED BY <1>1, <1>2, <1>3 DEF OrderInv

LEMMA OrderRestart ==
  ASSUME RouteConstants, Orderly, OrderInv, NEW p \in Procs, Restart(p)
  PROVE  OrderInv'
  <1>1. /\ RouteInv' /\ UNCHANGED disk /\ UNCHANGED accounts /\ UNCHANGED routed
        /\ queue' = [queue EXCEPT ![p] = <<>>] /\ stage' = [stage EXCEPT ![p] = Idle]
        /\ lock' = IF lock = p THEN "left" ELSE lock
    BY RestartIs DEF OrderInv, Restart
  <1>2. Exclusive'
    <2> SUFFICES ASSUME NEW q \in Procs
                 PROVE  /\ stage'[q].at \in {"locked", "writing"} => lock' = q
                        /\ stage'[q].at = "writing" => stage'[q].text = disk.text /\ disk.text.parses
      BY <1>1 DEF Exclusive
    <2>1. CASE q = p
      BY <1>1, <2>1, RouteValues DEF OrderInv, RouteInv, RouteTypes
    <2>2. CASE q # p
      BY <1>1, <2>2 DEF OrderInv, RouteInv, RouteTypes, Exclusive
    <2> QED BY <2>1, <2>2
  <1>3. ASSUME NEW q \in Procs, NEW i \in 1..Len(queue'[q])
        PROVE  queue'[q][i].seats = Seats
    <2>1. q # p
      BY <1>1 DEF OrderInv, RouteInv, RouteTypes
    <2> QED BY <1>1, <2>1 DEF OrderInv, RouteInv, RouteTypes, Whole
  <1> QED BY <1>1, <1>2, <1>3, OrderStays

LEMMA OrderAsk ==
  ASSUME RouteConstants, Orderly, OrderInv, NEW p \in Procs, Ask(p)
  PROVE  OrderInv'
  <1>1. UNCHANGED disk /\ UNCHANGED accounts /\ UNCHANGED routed /\ UNCHANGED stage /\ UNCHANGED lock
    BY DEF Ask
  <1>2. RouteInv'
    BY AskIs DEF OrderInv
  <1>3. PICK r \in RouteCall : r.seats = accounts /\ queue' = [queue EXCEPT ![p] = Append(queue[p], r)]
    BY AskIs DEF OrderInv
  <1>4. Exclusive'
    BY <1>1 DEF OrderInv, Exclusive
  <1>5. ASSUME NEW q \in Procs, NEW i \in 1..Len(queue'[q])
        PROVE  queue'[q][i].seats = Seats
    <2>1. CASE q # p BY <1>3, <2>1 DEF OrderInv, RouteInv, RouteTypes, Whole
    <2>2. CASE q = p
      <3>1. PICK s \in Seq(RouteCall) : s = queue[p]
        BY StayingIs DEF OrderInv
      <3>2. queue'[q] = Append(s, r)
        BY <1>3, <2>2, <3>1 DEF OrderInv, RouteInv, RouteTypes
      <3>3. i \in 1..Len(s) + 1 /\ Append(s, r)[i] = IF i <= Len(s) THEN s[i] ELSE r
        BY <3>2
      <3> QED BY <1>3, <3>1, <3>2, <3>3 DEF OrderInv, Whole
    <2> QED BY <2>1, <2>2
  <1> QED BY <1>1, <1>2, <1>4, <1>5, OrderStays

LEMMA OrderStage ==
  ASSUME RouteConstants, Orderly, OrderInv, NEW p \in Procs,
         \/ LockAsked(p) \/ Locked(p) \/ LockRefused(p) \/ TextLocked(p)
  PROVE  OrderInv'
  <1>1. CASE LockAsked(p)
    <2>1. /\ UNCHANGED disk /\ UNCHANGED accounts /\ UNCHANGED routed /\ UNCHANGED queue /\ UNCHANGED lock
      BY <1>1 DEF LockAsked
    <2>2. PICK x \in RouteStage : stage' = [stage EXCEPT ![p] = x] /\ x.at = "waiting"
      BY <1>1, LockAskedIs DEF OrderInv
    <2>3. Exclusive'
      BY <2>1, <2>2 DEF OrderInv, RouteInv, RouteTypes, Exclusive
    <2> QED BY <1>1, <2>1, <2>3, OrderStays, LockAskedIs DEF OrderInv, Whole
  <1>2. CASE Locked(p)
    <2>1. /\ UNCHANGED disk /\ UNCHANGED accounts /\ UNCHANGED routed /\ UNCHANGED queue
          /\ lock = "none" /\ lock' = p
      BY <1>2 DEF Locked
    <2>2. PICK x \in RouteStage : stage' = [stage EXCEPT ![p] = x] /\ x.at = "locked"
      BY <1>2, LockedIs DEF OrderInv
    <2>3. Exclusive'
      BY <2>1, <2>2 DEF OrderInv, RouteInv, RouteTypes, Exclusive, RouteConstants
    <2> QED BY <1>2, <2>1, <2>3, OrderStays, LockedIs DEF OrderInv, Whole
  <1>3. CASE LockRefused(p)
    <2>1. /\ UNCHANGED disk /\ UNCHANGED accounts /\ UNCHANGED routed /\ UNCHANGED lock /\ Popped(p)
          /\ stage[p].at = "waiting"
      BY <1>3 DEF LockRefused, Expired, LastTry
    <2>2. queue[p] # <<>>
      BY <2>1 DEF OrderInv, RouteInv, Busy
    <2>3. Exclusive'
      BY <2>1, <2>2, PoppedIs DEF OrderInv, RouteInv, RouteTypes, Exclusive
    <2> QED BY <1>3, <2>1, <2>2, <2>3, OrderStays, PoppedKeeps, LockRefusedIs DEF OrderInv
  <1>4. CASE TextLocked(p)
    <2>1. UNCHANGED disk /\ UNCHANGED accounts /\ UNCHANGED routed /\ stage[p].at = "locked" /\ RouteInv'
      BY <1>4, TextLockedIs DEF OrderInv, TextLocked
    <2>2. queue[p] # <<>>
      BY <2>1 DEF OrderInv, RouteInv, Busy
    <2>3. CASE Popped(p) /\ Release(p)
      <3>1. Exclusive'
        BY <2>1, <2>2, <2>3, ReleasedIs DEF OrderInv, Exclusive
      <3> QED BY <2>1, <2>2, <2>3, <3>1, OrderStays, PoppedKeeps DEF OrderInv
    <2>4. CASE ~(Popped(p) /\ Release(p))
      <3>1. PICK x \in RouteStage :
              /\ stage' = [stage EXCEPT ![p] = x] /\ x.at = "writing" /\ x.text = disk.text
              /\ UNCHANGED lock /\ UNCHANGED queue /\ disk.text.parses
        BY <1>4, <2>4, TextLockedIs DEF OrderInv
      <3>2. Exclusive'
        BY <2>1, <3>1 DEF OrderInv, RouteInv, RouteTypes, Exclusive
      <3> QED BY <2>1, <3>1, <3>2, OrderStays DEF OrderInv, Whole
    <2> QED BY <2>3, <2>4
  <1> QED BY <1>1, <1>2, <1>3, <1>4

LEMMA OrderRenamed ==
  ASSUME RouteConstants, Orderly, OrderInv, NEW p \in Procs, Renamed(p)
  PROVE  OrderInv'
  <1>1. UNCHANGED accounts /\ Popped(p) /\ Release(p) /\ stage[p].at = "writing" /\ RouteInv'
    BY RenamedIs DEF OrderInv, Renamed
  <1>2. queue[p] # <<>>
    BY <1>1 DEF OrderInv, RouteInv, Busy
  <1>3. Exclusive'
    BY <1>1, <1>2, ReleasedIs DEF OrderInv, Exclusive
  <1>4. Whole'
    BY <1>1, <1>2, PoppedKeeps DEF OrderInv, Whole
  <1>5. PICK r \in RouteCall : r = Head(queue[p]) /\ r.seats = Seats
    BY <1>2, HeadIs DEF OrderInv, Whole
  <1>6. PICK t \in RouteText : t = disk.text /\ t = stage[p].text /\ t.parses /\ OneKey(t)
    BY <1>1 DEF OrderInv, RouteInv, RouteTypes, RouteDisk, Exclusive, FollowsCalls
  <1>7. disk'.text = Rewritten(t, r)
    <2>1. IF Rewritten(stage[p].text, Head(queue[p])) = stage[p].text THEN UNCHANGED disk
          ELSE disk.writes < MaxVersion /\ Replace(Rewritten(stage[p].text, Head(queue[p])))
      BY DEF Renamed
    <2>2. PICK new \in RouteText : new = Rewritten(t, r)
      BY RewrittenIs
    <2>3. (new = t /\ disk' = disk) \/ Replace(new)
      BY <1>5, <1>6, <2>1, <2>2
    <2>4. disk'.text = new
      <3>1. CASE new = t /\ disk' = disk BY <1>6, <3>1
      <3>2. CASE Replace(new) BY <3>2 DEF Replace
      <3> QED BY <2>3, <3>1, <3>2
    <2> QED BY <2>2, <2>4
  <1>8. FollowsCalls'
    <2>1. r.model \in Models /\ routed' = [routed EXCEPT ![r.model] = Wanted(routed[r.model], r)]
      BY <1>5 DEF RouteCall, Renamed
    <2>2. \A m \in Models : SeatsOf(t, m) = routed[m]
      BY <1>6 DEF OrderInv, FollowsCalls
    <2>3. \A m \in Models :
            routed'[m] = IF m = r.model THEN Wanted(SeatsOf(t, r.model), r) ELSE SeatsOf(t, m)
      BY <2>1, <2>2 DEF OrderInv, RouteInv, RouteTypes
    <2>4. PICK new \in RouteText : new = Rewritten(t, r)
      BY RewrittenIs
    <2>5. /\ OneKey(new)
          /\ \A m \in Models :
               SeatsOf(new, m) = IF m = r.model THEN Wanted(SeatsOf(t, r.model), r) ELSE SeatsOf(t, m)
      BY <1>5, <1>6, <2>4, RewriteRoutes DEF Orderly
    <2>6. \A m \in Models : SeatsOf(new, m) = routed'[m]
      BY <2>3, <2>5
    <2> QED BY <1>7, <2>4, <2>5, <2>6 DEF FollowsCalls
  <1> QED BY <1>1, <1>3, <1>4, <1>8 DEF OrderInv

LEMMA OrderSteps ==
  ASSUME RouteConstants, Orderly
  PROVE  OrderInv /\ [Next]_(vars) => OrderInv'
  <1> SUFFICES ASSUME OrderInv, [Next]_(vars)
               PROVE  OrderInv'
    OBVIOUS
  <1> USE RouteConstants, Orderly
  <1>1. CASE Edit BY <1>1, OrderEdit
  <1>2. CASE Join BY <1>2 DEF OrderInv, Whole, Join
  <1>3. CASE Reclaimed
    <2>1. UNCHANGED disk /\ UNCHANGED accounts /\ UNCHANGED routed /\ UNCHANGED queue /\ UNCHANGED stage
          /\ lock = "left"
      BY <1>3 DEF Reclaimed, Orderly
    <2>2. Exclusive'
      BY <2>1 DEF OrderInv, Exclusive, RouteConstants
    <2> QED BY <1>3, <2>1, <2>2, ReclaimedIs, OrderStays DEF OrderInv, Whole
  <1>4. CASE Tick
    <2>1. UNCHANGED disk /\ UNCHANGED accounts /\ UNCHANGED routed /\ UNCHANGED queue /\ UNCHANGED stage
          /\ UNCHANGED lock
      BY <1>4 DEF Tick
    <2> QED BY <1>4, <2>1, RouteTickIs, OrderStays DEF OrderInv, Whole, Exclusive
  <1>5. ASSUME NEW p \in Procs, Restart(p)  PROVE OrderInv'
    BY <1>5, OrderRestart
  <1>6. ASSUME NEW p \in Procs, StatTaken(p)  PROVE OrderInv'
    <2>1. UNCHANGED disk /\ UNCHANGED accounts /\ UNCHANGED routed /\ UNCHANGED queue /\ UNCHANGED stage
          /\ UNCHANGED lock
      BY <1>6 DEF StatTaken
    <2> QED BY <1>6, <2>1, StatTakenIs, OrderStays DEF OrderInv, Whole, Exclusive
  <1>7. ASSUME NEW p \in Procs, TextRead(p)  PROVE OrderInv'
    <2>1. UNCHANGED disk /\ UNCHANGED accounts /\ UNCHANGED routed /\ UNCHANGED queue /\ UNCHANGED stage
          /\ UNCHANGED lock
      BY <1>7 DEF TextRead
    <2> QED BY <1>7, <2>1, TextReadIs, OrderStays DEF OrderInv, Whole, Exclusive
  <1>8. ASSUME NEW p \in Procs, Ask(p)  PROVE OrderInv'
    BY <1>8, OrderAsk
  <1>9. ASSUME NEW p \in Procs, LockAsked(p) \/ Locked(p) \/ LockRefused(p) \/ TextLocked(p)
        PROVE  OrderInv'
    BY <1>9, OrderStage
  <1>10. ASSUME NEW p \in Procs, Renamed(p)  PROVE OrderInv'
    BY <1>10, OrderRenamed
  <1>11. CASE UNCHANGED vars
    <2>1. /\ UNCHANGED disk /\ UNCHANGED accounts /\ UNCHANGED cache /\ UNCHANGED load
          /\ UNCHANGED queue /\ UNCHANGED stage /\ UNCHANGED lock /\ UNCHANGED contended
          /\ UNCHANGED clock /\ UNCHANGED asks /\ UNCHANGED routed /\ UNCHANGED stalled
      BY <1>11 DEF vars
    <2>2. RouteInv'
      BY <2>1, RememberedStays, StayingIs DEF OrderInv, RouteInv, RouteTypes, Busy
    <2> QED BY <2>1, <2>2, OrderStays DEF OrderInv, Whole, Exclusive
  <1> QED BY <1>1, <1>2, <1>3, <1>4, <1>5, <1>6, <1>7, <1>8, <1>9, <1>10, <1>11 DEF Next

-----------------------------------------------------------------------------
\* The calls behind a held lock: the first waits a full budget, the others try once.
Stalls(p) ==
  LET s == stage[p]
      n == Len(queue[p])
      passed == 2 + (asks - n)
      since == clock - s.since
  IN  /\ n <= asks
      /\ s.at \in {"locked", "writing"} => stalled[p] = 0
      /\ s.at = "idle" => \/ stalled[p] = 0
                          \/ n # 0 /\ contended[p] = {clock} /\ stalled[p] <= passed
      /\ s.at = "waiting" => /\ since >= 0 /\ since <= s.budget /\ s.budget \in {1, 3}
                             /\ stalled[p] <= since \/ (s.budget = 1 /\ stalled[p] <= passed + since)

StallInv == RouteInv /\ \A p \in Procs : Stalls(p)

LEMMA StallNumbers ==
  ASSUME RouteConstants, RouteInv, NEW p \in Procs
  PROVE  /\ Len(queue[p]) \in Nat /\ asks \in Nat /\ asks <= MaxAsks /\ MaxAsks \in Nat
         /\ clock \in Nat /\ stalled[p] \in Nat
         /\ stage[p].since \in Nat /\ stage[p].budget \in Nat
         /\ (Len(queue[p]) = 0) <=> (queue[p] = <<>>)
         /\ stage[p].at \in {"idle", "waiting", "locked", "writing"}
  <1>1. stage[p] \in RouteStage
    BY DEF RouteInv, RouteTypes
  <1>2. PICK s \in Seq(RouteCall) : s = queue[p]
    BY DEF RouteInv, RouteTypes
  <1> QED BY <1>1, <1>2, EmptySeq DEF RouteInv, RouteTypes, RouteConstants, RouteStage

\* The numbers of a call that waits.
LEMMA StallOfWaiting ==
  ASSUME RouteConstants, RouteInv, NEW p \in Procs, Stalls(p), stage[p].at = "waiting"
  PROVE  /\ stage[p].budget \in {1, 3} /\ clock - stage[p].since \in Nat
         /\ Len(queue[p]) <= asks /\ clock - stage[p].since <= stage[p].budget
         /\ \/ stalled[p] <= clock - stage[p].since
            \/ /\ stage[p].budget = 1
               /\ stalled[p] <= (2 + (asks - Len(queue[p]))) + (clock - stage[p].since)
  <1>1. clock - stage[p].since \in Int
    BY StallNumbers
  <1>2. clock - stage[p].since >= 0
    BY DEF Stalls
  <1>3. clock - stage[p].since \in Nat
    BY <1>1, <1>2
  <1> QED BY <1>3 DEF Stalls

LEMMA StallSame ==
  ASSUME RouteConstants, RouteInv, NEW p \in Procs, Stalls(p), stage'[p] = stage[p],
         queue'[p] = queue[p], contended'[p] = contended[p], stalled'[p] = stalled[p],
         UNCHANGED clock, asks' \in {asks, asks + 1}
  PROVE  Stalls(p)'
  <1>1. PICK n \in Nat, a \in Nat, s \in Nat, since \in Int :
          n = Len(queue[p]) /\ a = asks /\ s = stalled[p] /\ since = clock - stage[p].since
    BY StallNumbers
  <1>2. PICK b \in Nat : b = asks'
    BY <1>1
  <1>3. b \in {a, a + 1}
    BY <1>1, <1>2
  <1>4. n <= a => n <= b
    BY <1>3
  <1>5. /\ s <= 2 + (a - n) => s <= 2 + (b - n)
        /\ s <= (2 + (a - n)) + since => s <= (2 + (b - n)) + since
    BY <1>3
  <1>6. /\ n <= a
        /\ stage[p].at \in {"locked", "writing"} => s = 0
        /\ stage[p].at = "idle" => s = 0 \/ (n # 0 /\ contended[p] = {clock} /\ s <= 2 + (a - n))
        /\ stage[p].at = "waiting" => /\ since >= 0 /\ since <= stage[p].budget /\ stage[p].budget \in {1, 3}
                                      /\ s <= since \/ (stage[p].budget = 1 /\ s <= (2 + (a - n)) + since)
    BY <1>1 DEF Stalls
  <1>7. /\ n <= b
        /\ stage[p].at \in {"locked", "writing"} => s = 0
        /\ stage[p].at = "idle" => s = 0 \/ (n # 0 /\ contended[p] = {clock} /\ s <= 2 + (b - n))
        /\ stage[p].at = "waiting" => /\ since >= 0 /\ since <= stage[p].budget /\ stage[p].budget \in {1, 3}
                                      /\ s <= since \/ (stage[p].budget = 1 /\ s <= (2 + (b - n)) + since)
    BY <1>4, <1>5, <1>6
  <1>8. n = Len(queue'[p]) /\ s = stalled'[p] /\ since = clock' - stage'[p].since /\ b = asks'
    BY <1>1, <1>2
  <1> QED BY <1>7, <1>8 DEF Stalls

\* The process starts anew, or has the lock.
LEMMA StallOver ==
  ASSUME RouteConstants, RouteInv, NEW p \in Procs, stalled'[p] = 0, stage'[p].at # "waiting",
         Len(queue'[p]) \in Nat, Len(queue'[p]) <= asks'
  PROVE  Stalls(p)'
  BY DEF Stalls

LEMMA StallStage ==
  ASSUME RouteConstants, StallInv, NEW p \in Procs,
         \/ LockAsked(p) \/ Locked(p) \/ LockRefused(p) \/ TextLocked(p)
         \/ Renamed(p) \/ Restart(p)
  PROVE  \A q \in Procs : Stalls(q)'
  <1> USE DEF StallInv
  <1> SUFFICES ASSUME NEW q \in Procs  PROVE Stalls(q)'
    OBVIOUS
  <1>1. CASE q # p
    <2>1. /\ stage'[q] = stage[q] /\ queue'[q] = queue[q] /\ contended'[q] = contended[q]
          /\ stalled'[q] = stalled[q] /\ UNCHANGED clock /\ UNCHANGED asks
      <3>1. CASE LockAsked(p) BY <1>1, <3>1 DEF LockAsked, RouteInv, RouteTypes
      <3>2. CASE Locked(p) BY <1>1, <3>2 DEF Locked, RouteInv, RouteTypes
      <3>3. CASE LockRefused(p)
        BY <1>1, <3>3 DEF LockRefused, Popped, RouteInv, RouteTypes
      <3>4. CASE TextLocked(p)
        BY <1>1, <3>4 DEF TextLocked, Popped, RouteInv, RouteTypes
      <3>5. CASE Renamed(p)
        BY <1>1, <3>5 DEF Renamed, Popped, RouteInv, RouteTypes
      <3>6. CASE Restart(p) BY <1>1, <3>6 DEF Restart, RouteInv, RouteTypes
      <3> QED BY <3>1, <3>2, <3>3, <3>4, <3>5, <3>6
    <2> QED BY <2>1, StallSame
  <1>2. ASSUME LockAsked(p)  PROVE Stalls(p)'
    <2>1. PICK x \in RouteStage : /\ stage' = [stage EXCEPT ![p] = x] /\ x.at = "waiting"
                                  /\ x.since = clock /\ x.budget = Budget(p)
      BY <1>2, LockAskedIs
    <2>2. /\ stage'[p] = x /\ UNCHANGED queue /\ UNCHANGED contended /\ UNCHANGED stalled
          /\ UNCHANGED clock /\ UNCHANGED asks /\ stage[p].at = "idle"
      BY <1>2, <2>1 DEF LockAsked, Waiting, RouteInv, RouteTypes
    <2>3. x.budget \in {1, 3} /\ (contended[p] = {clock} => x.budget = 1)
      <3>1. clock - clock < 2
        BY StallNumbers
      <3> QED BY <2>1, <3>1 DEF Budget, LOCK_RETRY_BUDGET_PROBE, LOCK_RETRY_BUDGET_FULL,
           LOCK_CONTENTION_FAST_FAIL_WINDOW
    <2>4. clock - x.since = 0
      BY <2>1, StallNumbers
    <2> QED BY <2>1, <2>2, <2>3, <2>4, StallNumbers DEF Stalls
  <1>3. ASSUME Locked(p)  PROVE Stalls(p)'
    <2>1. PICK x \in RouteStage : stage' = [stage EXCEPT ![p] = x] /\ x.at = "locked"
      BY <1>3, LockedIs
    <2>2. stage'[p] = x /\ UNCHANGED queue /\ UNCHANGED asks /\ stalled'[p] = 0
      BY <1>3, <2>1 DEF Locked, RouteInv, RouteTypes
    <2>3. Len(queue[p]) <= asks
      BY DEF Stalls
    <2> QED BY <2>1, <2>2, <2>3, StallOver, StallNumbers
  <1>4. ASSUME LockRefused(p)  PROVE Stalls(p)'
    <2>1. /\ Popped(p) /\ contended' = [contended EXCEPT ![p] = {clock}]
          /\ stalled' = [stalled EXCEPT ![p] = IF Len(queue[p]) = 1 THEN 0 ELSE stalled[p]]
          /\ UNCHANGED clock /\ UNCHANGED asks /\ stage[p].at = "waiting"
      BY <1>4 DEF LockRefused, Expired, LastTry
    <2>2. queue[p] # <<>>
      BY <2>1 DEF RouteInv, Busy
    <2>3. PICK n \in Nat \ {0} : n = Len(queue[p])
      BY <2>2, HeadIs
    <2>4. stage'[p].at = "idle" /\ queue'[p] = Tail(queue[p]) /\ Len(queue'[p]) = n - 1
      BY <2>1, <2>2, <2>3, PoppedIs, HeadIs DEF RouteInv, RouteTypes
    <2>5. contended'[p] = {clock} /\ stalled'[p] = IF n = 1 THEN 0 ELSE stalled[p]
      BY <2>1, <2>3 DEF RouteInv, RouteTypes
    <2>6. n <= asks /\ stalled[p] <= 2 + (asks - (n - 1))
      <3>1. PICK since \in Nat : since = clock - stage[p].since
        BY <2>1, StallOfWaiting
      <3>2. PICK b \in {1, 3} : b = stage[p].budget
        BY <2>1, StallOfWaiting
      <3>3. PICK s \in Nat : s = stalled[p]
        BY StallNumbers
      <3>4. PICK a \in Nat : a = asks
        BY StallNumbers
      <3>5. n <= a /\ since <= b /\ (s <= since \/ (b = 1 /\ s <= (2 + (a - n)) + since))
        BY <2>1, <2>3, <3>1, <3>2, <3>3, <3>4, StallOfWaiting
      <3>6. s <= 2 + (a - (n - 1))
        BY <3>5
      <3> QED BY <3>3, <3>4, <3>5, <3>6
    <2>7. n - 1 <= asks
      BY <2>6, StallNumbers
    <2>8. n - 1 <= asks' /\ contended'[p] = {clock'}
          /\ (stalled'[p] = 0 \/ (n - 1 # 0 /\ stalled'[p] <= 2 + (asks' - (n - 1))))
      BY <2>1, <2>5, <2>6, <2>7
    <2> QED BY <2>4, <2>8 DEF Stalls
  <1>5. ASSUME TextLocked(p) \/ Renamed(p)  PROVE Stalls(p)'
    <2>1. stage[p].at \in {"locked", "writing"} /\ UNCHANGED stalled /\ UNCHANGED asks
      BY <1>5 DEF TextLocked, Renamed
    <2>2. queue[p] # <<>> /\ stalled'[p] = 0 /\ Len(queue[p]) <= asks
      BY <2>1 DEF RouteInv, Busy, Stalls
    <2>3. CASE Popped(p)
      <3>1. stage'[p].at = "idle" /\ queue'[p] = Tail(queue[p])
        BY <2>2, <2>3, PoppedIs DEF RouteInv, RouteTypes
      <3>2. Len(queue'[p]) \in Nat /\ Len(queue'[p]) <= asks
        BY <2>2, <3>1, HeadIs, StallNumbers
      <3> QED BY <2>1, <2>2, <3>1, <3>2, StallOver
    <2>4. CASE ~Popped(p)
      <3>1. PICK x \in RouteStage : stage' = [stage EXCEPT ![p] = x] /\ x.at = "writing" /\ UNCHANGED queue
        BY <1>5, <2>4, TextLockedIs DEF Renamed
      <3>2. stage'[p] = x
        BY <3>1 DEF RouteInv, RouteTypes
      <3> QED BY <2>1, <2>2, <3>1, <3>2, StallOver, StallNumbers
    <2> QED BY <2>3, <2>4
  <1>6. ASSUME Restart(p)  PROVE Stalls(p)'
    <2>1. stage'[p] = Idle /\ queue'[p] = <<>> /\ stalled'[p] = 0 /\ UNCHANGED asks
      BY <1>6 DEF Restart, RouteInv, RouteTypes
    <2>2. Len(queue'[p]) = 0
      BY <2>1
    <2> QED BY <2>1, <2>2, StallOver, RouteValues, StallNumbers
  <1> QED BY <1>1, <1>2, <1>3, <1>4, <1>5, <1>6

LEMMA StallTick ==
  ASSUME RouteConstants, StallInv, Tick
  PROVE  \A q \in Procs : Stalls(q)'
  <1> USE DEF StallInv
  <1> SUFFICES ASSUME NEW q \in Procs  PROVE Stalls(q)'
    OBVIOUS
  <1>1. /\ UNCHANGED stage /\ UNCHANGED queue /\ UNCHANGED contended /\ UNCHANGED asks
        /\ clock' = clock + 1 /\ ~Waiting(q) /\ ~LastTry(q)
        /\ stalled'[q] = IF stage[q].at = "waiting" THEN stalled[q] + 1 ELSE stalled[q]
    BY DEF Tick
  <1>2. CASE stage[q].at = "waiting"
    <2>11. PICK since \in Nat : since = clock - stage[q].since
      BY <1>2, StallOfWaiting
    <2>12. PICK b \in {1, 3} : b = stage[q].budget
      BY <1>2, StallOfWaiting
    <2>13. PICK s \in Nat : s = stalled[q]
      BY StallNumbers
    <2>14. PICK a \in Nat : a = asks
      BY StallNumbers
    <2>15. PICK n \in Nat : n = Len(queue[q])
      BY StallNumbers
    <2>1. /\ b = stage[q].budget /\ since = clock - stage[q].since /\ s = stalled[q]
          /\ n = Len(queue[q]) /\ a = asks /\ n <= a /\ since <= b
          /\ s <= since \/ (b = 1 /\ s <= (2 + (a - n)) + since)
      BY <1>2, <2>11, <2>12, <2>13, <2>14, <2>15, StallOfWaiting
    <2>2. since < b
      <3>1. ~(clock - stage[q].since >= stage[q].budget)
        BY <1>1, <1>2 DEF LastTry
      <3>2. ~(since >= b)
        BY <2>1, <3>1
      <3> QED BY <3>2
    <2>3. clock' - stage[q].since = since + 1 /\ stalled'[q] = s + 1
      <3>1. (clock + 1) - stage[q].since = (clock - stage[q].since) + 1
        BY StallNumbers
      <3> QED BY <1>1, <1>2, <2>1, <3>1
    <2>4. a = asks
      BY <2>1
    <2>5. n <= a /\ (s <= since \/ (b = 1 /\ s <= (2 + (a - n)) + since))
      BY <2>1
    <2>6. since + 1 >= 0 /\ since + 1 <= b
      BY <2>2
    <2>7. s + 1 <= since + 1 \/ (b = 1 /\ s + 1 <= (2 + (a - n)) + (since + 1))
      BY <2>5
    <2>8. /\ stage'[q].at = "waiting" /\ stage'[q].budget = b /\ Len(queue'[q]) = n
          /\ asks' = a /\ stalled'[q] = s + 1 /\ clock' - stage'[q].since = since + 1
      BY <1>1, <1>2, <2>1, <2>3, <2>4
    <2> QED BY <2>5, <2>6, <2>7, <2>8 DEF Stalls
  <1>3. CASE stage[q].at # "waiting"
    <2>1. stalled[q] = 0
      BY <1>1, <1>3, StallNumbers DEF Stalls, Waiting
    <2> QED BY <1>1, <1>3, <2>1, StallOver, StallNumbers DEF Stalls
  <1> QED BY <1>2, <1>3

LEMMA RouteSteps ==
  ASSUME RouteConstants
  PROVE  StallInv /\ [Next]_(vars) => StallInv'
  <1> SUFFICES ASSUME StallInv, [Next]_(vars)
               PROVE  StallInv'
    OBVIOUS
  <1> USE RouteConstants DEF StallInv
  <1>1. CASE Edit
    <2>1. UNCHANGED stage /\ UNCHANGED queue /\ UNCHANGED contended /\ UNCHANGED stalled
          /\ UNCHANGED clock /\ UNCHANGED asks
      BY <1>1 DEF Edit
    <2> QED BY <1>1, <2>1, EditIs, StallSame
  <1>2. CASE Join \/ Reclaimed
    <2>1. UNCHANGED stage /\ UNCHANGED queue /\ UNCHANGED contended /\ UNCHANGED stalled
          /\ UNCHANGED clock /\ UNCHANGED asks
      BY <1>2 DEF Join, Reclaimed
    <2> QED BY <1>2, <2>1, JoinIs, ReclaimedIs, StallSame
  <1>3. CASE Tick BY <1>3, RouteTickIs, StallTick
  <1>4. ASSUME NEW p \in Procs, StatTaken(p) \/ TextRead(p)  PROVE StallInv'
    <2>1. UNCHANGED stage /\ UNCHANGED queue /\ UNCHANGED contended /\ UNCHANGED stalled
          /\ UNCHANGED clock /\ UNCHANGED asks
      BY <1>4 DEF StatTaken, TextRead
    <2> QED BY <1>4, <2>1, StatTakenIs, TextReadIs, StallSame
  <1>5. ASSUME NEW p \in Procs, Ask(p)  PROVE StallInv'
    <2>1. UNCHANGED stage /\ UNCHANGED contended /\ UNCHANGED stalled /\ UNCHANGED clock /\ asks' = asks + 1
      BY <1>5 DEF Ask
    <2>2. PICK r \in RouteCall : queue' = [queue EXCEPT ![p] = Append(queue[p], r)]
      BY <1>5, AskIs
    <2>3. ASSUME NEW q \in Procs  PROVE Stalls(q)'
      <3>1. CASE q # p BY <2>1, <2>2, <3>1, StallSame DEF RouteInv, RouteTypes
      <3>2. CASE q = p
        <4>1. PICK s \in Seq(RouteCall) : s = queue[p]
          BY StayingIs
        <4>2. Len(queue'[p]) = Len(s) + 1
          BY <2>2, <4>1 DEF RouteInv, RouteTypes
        <4>3. /\ Len(queue[p]) \in Nat /\ Len(queue[p]) + 1 <= asks + 1 /\ Len(queue[p]) + 1 # 0
              /\ (asks + 1) - (Len(queue[p]) + 1) = asks - Len(queue[p])
          BY StallNumbers DEF Stalls
        <4> QED BY <2>1, <3>2, <4>1, <4>2, <4>3 DEF Stalls
      <3> QED BY <3>1, <3>2
    <2> QED BY <1>5, <2>3, AskIs
  <1>6. ASSUME NEW p \in Procs,
               \/ LockAsked(p) \/ Locked(p) \/ LockRefused(p) \/ TextLocked(p)
               \/ Renamed(p) \/ Restart(p)
        PROVE  StallInv'
    BY <1>6, StallStage, LockAskedIs, LockedIs, LockRefusedIs, TextLockedIs, RenamedIs, RestartIs
  <1>7. CASE UNCHANGED vars
    <2>1. /\ UNCHANGED disk /\ UNCHANGED accounts /\ UNCHANGED cache /\ UNCHANGED load
          /\ UNCHANGED queue /\ UNCHANGED stage /\ UNCHANGED lock /\ UNCHANGED contended
          /\ UNCHANGED clock /\ UNCHANGED asks /\ UNCHANGED routed /\ UNCHANGED stalled
      BY <1>7 DEF vars
    <2>2. RouteInv'
      BY <2>1, RememberedStays, StayingIs DEF RouteInv, RouteTypes, Busy
    <2> QED BY <2>1, <2>2, StallSame
  <1> QED BY <1>1, <1>2, <1>3, <1>4, <1>5, <1>6, <1>7 DEF Next

-----------------------------------------------------------------------------
LEMMA RoutesStart ==
  ASSUME RouteConstants, Init
  PROVE  /\ StallInv
         /\ Orderly => OrderInv
  <1>1. PICK text \in RouteText : /\ disk = [stat |-> 1, text |-> text, writes |-> 1]
                                  /\ routed = SeatsRouted(text) /\ text \in Edits
    BY DEF RouteConstants, Init
  <1>2. disk \in RouteDisk /\ disk.stat = 1 /\ disk.writes = 1 /\ disk.text = text
    BY <1>1 DEF RouteDisk, RouteConstants
  <1>3. routed \in [Models -> SUBSET Seats]
    BY <1>1 DEF SeatsRouted, MatchingSeats
  <1>4. accounts \subseteq Seats
    BY DEF Seats, Init
  <1>5. <<>> \in Seq(RouteCall) /\ Len(<<>>) = 0
    OBVIOUS
  <1>6. PICK cold \in RouteCache : cold = Cold /\ cold.cached = FALSE /\ cold.stat = 0
    BY RouteValues
  <1>7. PICK idle \in RouteStage : idle = Idle /\ idle.at = "idle"
    BY RouteValues
  <1>8. cache = [p \in Procs |-> cold] /\ stage = [p \in Procs |-> idle]
    BY <1>6, <1>7 DEF Init
  <1>9. /\ load = [p \in Procs |-> {}] /\ queue = [p \in Procs |-> <<>>]
        /\ contended = [p \in Procs |-> {}] /\ stalled = [p \in Procs |-> 0]
        /\ lock = "none" /\ clock = 0 /\ asks = 0
    BY DEF Init
  <1>11. RouteTypes
    <2>1. cache \in [Procs -> RouteCache] /\ stage \in [Procs -> RouteStage]
      BY <1>8
    <2>2. load \in [Procs -> SUBSET (1..MaxVersion)] /\ contended \in [Procs -> SUBSET (0..MaxClock)]
      BY <1>9
    <2>3. queue \in [Procs -> Seq(RouteCall)]
      BY <1>5, <1>9
    <2>4. stalled \in [Procs -> Nat] /\ clock \in 0..MaxClock /\ asks \in 0..MaxAsks
      BY <1>9 DEF RouteConstants
    <2> QED BY <1>2, <1>3, <1>4, <1>9, <2>1, <2>2, <2>3, <2>4 DEF RouteTypes
  <1>12. ASSUME NEW p \in Procs
        PROVE  /\ stage[p].at = "idle" /\ queue[p] = <<>> /\ stalled[p] = 0 /\ asks = 0
               /\ cache[p].cached = FALSE /\ cache[p].stat = 0 /\ load[p] = {} /\ contended[p] = {}
    BY <1>6, <1>7, <1>8, <1>9
  <1>13. ASSUME NEW p \in Procs  PROVE Remembered(p)
    <2>1. AtMostOne(load[p]) /\ AtMostOne(contended[p])
      BY <1>12 DEF AtMostOne
    <2>2. load[p] = {} /\ cache[p].stat = 0 /\ disk.stat = 1 /\ disk.writes = 1 /\ ~cache[p].cached
      BY <1>2, <1>12
    <2>3. (\A s \in load[p] : s <= disk.writes) /\ cache[p].stat <= disk.writes
      BY <2>2
    <2> QED BY <2>1, <2>2, <2>3 DEF Remembered
  <1>14. RouteInv
    BY <1>11, <1>12, <1>13 DEF RouteInv, Busy
  <1>15. ASSUME NEW p \in Procs  PROVE Stalls(p)
    <2>1. Len(queue[p]) = 0 /\ asks = 0
      BY <1>5, <1>12
    <2>2. Len(queue[p]) <= asks
      BY <2>1
    <2> QED BY <1>12, <2>2 DEF Stalls
  <1>16. StallInv
    BY <1>14, <1>15 DEF StallInv
  <1>10. ASSUME Orderly  PROVE OrderInv
    <2>1. Exclusive
      BY <1>9, <1>12 DEF Exclusive
    <2>2. Whole
      BY <1>5, <1>12, <1>10 DEF Whole, Orderly, Init
    <2>3. FollowsCalls
      BY <1>1, <1>2, <1>10 DEF FollowsCalls, Orderly, OneKey, SeatsRouted, SeatsOf
    <2> QED BY <1>14, <2>1, <2>2, <2>3 DEF OrderInv
  <1> QED BY <1>16, <1>10

LEMMA RoutesTyped ==
  ASSUME RouteConstants, RouteInv
  PROVE  TypeOK
  <1>1. disk.stat \in 0..MaxVersion /\ disk.writes \in 1..MaxVersion
    BY DEF RouteInv, RouteTypes, RouteDisk
  <1>2. ASSUME NEW S, AtMostOne(S)  PROVE Cardinality(S) <= 1
    <2>1. CASE S = {}
      <3>1. Cardinality(S) = 0
        BY <2>1, FS_EmptySet
      <3> QED BY <3>1
    <2>2. ASSUME NEW x, S = {x}  PROVE Cardinality(S) <= 1
      <3>1. Cardinality(S) = 1
        BY <2>2, FS_Singleton
      <3> QED BY <3>1
    <2> QED BY <1>2, <2>1, <2>2 DEF AtMostOne
  <1>3. ASSUME NEW p \in Procs
        PROVE  /\ cache[p].stat \in 0..MaxVersion
               /\ stage[p].at \in {"idle", "waiting", "locked", "writing"}
               /\ stalled[p] \in Nat
    BY DEF RouteInv, RouteTypes, RouteCache, RouteStage
  <1>4. ASSUME NEW p \in Procs
        PROVE  Cardinality(load[p]) <= 1 /\ Cardinality(contended[p]) <= 1
    BY <1>2 DEF RouteInv, Remembered
  <1> QED BY <1>1, <1>3, <1>4 DEF TypeOK, RouteInv, RouteTypes

LEMMA CachedIsTrue ==
  ASSUME RouteConstants, RouteInv
  PROVE  CacheIsTrue
  BY DEF CacheIsTrue, RouteInv, Remembered, Means

LEMMA StallIsBounded ==
  ASSUME RouteConstants, StallInv
  PROVE  StallBounded
  <1> SUFFICES ASSUME NEW p \in Procs  PROVE stalled[p] <= 3 + (MaxAsks - 1) * 1
    BY DEF StallBounded, LOCK_RETRY_BUDGET_FULL, LOCK_RETRY_BUDGET_PROBE
  <1>11. PICK n \in Nat : n = Len(queue[p])
    BY StallNumbers DEF StallInv
  <1>12. PICK s \in Nat : s = stalled[p]
    BY StallNumbers DEF StallInv
  <1>13. PICK a \in Nat : a = asks
    BY StallNumbers DEF StallInv
  <1>14. PICK m \in Nat : m = MaxAsks
    BY StallNumbers DEF StallInv
  <1>1. n = Len(queue[p]) /\ s = stalled[p] /\ a = asks /\ m = MaxAsks /\ a <= m
    BY <1>11, <1>12, <1>13, <1>14, StallNumbers DEF StallInv
  <1>2. n <= a
    BY <1>1 DEF StallInv, Stalls
  <1>3. stage[p].at # "idle" => n # 0
    BY <1>1, StallNumbers DEF StallInv, RouteInv, Busy
  <1>4. s <= 3 + (m - 1) * 1
    <2>1. CASE stage[p].at \in {"locked", "writing"}
      <3>1. s = 0
        BY <1>1, <2>1 DEF StallInv, Stalls
      <3> QED BY <1>1, <3>1
    <2>2. CASE stage[p].at = "idle"
      <3>1. s = 0 \/ (n # 0 /\ s <= 2 + (a - n))
        BY <1>1, <2>2 DEF StallInv, Stalls
      <3>2. a <= m
        BY <1>1
      <3>3. s <= 3 + (m - 1)
        BY <3>1, <3>2
      <3> QED BY <3>3
    <2>3. CASE stage[p].at = "waiting"
      <3>1. PICK since \in Nat : since = clock - stage[p].since
        BY <2>3, StallOfWaiting DEF StallInv
      <3>2. PICK b \in {1, 3} : b = stage[p].budget
        BY <2>3, StallOfWaiting DEF StallInv
      <3>3. since <= b /\ (s <= since \/ (b = 1 /\ s <= (2 + (a - n)) + since))
        BY <1>1, <2>3, <3>1, <3>2, StallOfWaiting DEF StallInv
      <3>4. n # 0 /\ n <= a /\ a <= m
        BY <1>1, <1>2, <1>3, <2>3
      <3>5. since <= 3 /\ (s <= since \/ (since <= 1 /\ s <= (2 + (a - n)) + since))
        BY <3>3
      <3>6. s <= 3 + (m - 1)
        BY <3>4, <3>5
      <3> QED BY <3>6
    <2> QED BY <2>1, <2>2, <2>3, StallNumbers DEF StallInv
  <1> QED BY <1>1, <1>4

(***************************************************************************)
(* Whatever happens to the file and to its lock, what a process answers    *)
(* with when its cached stat is the file's is what the file says, and a    *)
(* call waits as long as its place in the queue allows (loadPluginConfig,  *)
(* nextLockRetryBudget in config.ts).                                      *)
(***************************************************************************)
THEOREM CachedSettingsAreTheFiles ==
  ASSUME RouteConstants
  PROVE  Spec => [](TypeOK /\ CacheIsTrue /\ StallBounded)
  <1>1. Init => StallInv
    BY RoutesStart
  <1>2. StallInv /\ [Next]_(vars) => StallInv'
    BY RouteSteps
  <1>3. StallInv => TypeOK /\ CacheIsTrue /\ StallBounded
    BY RoutesTyped, CachedIsTrue, StallIsBounded DEF StallInv
  <1> QED BY <1>1, <1>2, <1>3, PTL DEF Spec

(***************************************************************************)
(* When nobody edits the file inside a mutation, no holder of the lock is  *)
(* taken for dead and no seat joins, the file also routes every model to   *)
(* the accounts that the calls asked for, each after the last              *)
(* (mutateModelAccountPool in config.ts).                                  *)
(***************************************************************************)
THEOREM MutationsArePreserved ==
  ASSUME RouteConstants, Orderly
  PROVE  Spec => [](TypeOK /\ ConfigSafe)
  <1>1. Init => StallInv /\ OrderInv
    BY RoutesStart
  <1>2. StallInv /\ OrderInv /\ [Next]_(vars) => StallInv' /\ OrderInv'
    BY RouteSteps, OrderSteps
  <1>3. StallInv /\ OrderInv => TypeOK /\ ConfigSafe
    <2> SUFFICES ASSUME StallInv, OrderInv  PROVE TypeOK /\ ConfigSafe
      OBVIOUS
    <2>1. NoMutationLost
      <3> SUFFICES ASSUME disk.text.parses, NEW m \in Models
                   PROVE  MatchingSeats(PoolOf(disk.text.pools, m), accounts) = routed[m] \cap accounts
        BY DEF NoMutationLost
      <3>1. accounts = Seats /\ routed[m] \subseteq Seats
        BY DEF OrderInv, Whole, RouteInv, RouteTypes
      <3> QED BY <3>1 DEF OrderInv, FollowsCalls, SeatsOf
    <2> QED BY <2>1, RoutesTyped, CachedIsTrue, StallIsBounded DEF StallInv, ConfigSafe
  <1> QED BY <1>1, <1>2, <1>3, PTL DEF Spec
-----------------------------------------------------------------------------
(***************************************************************************)
(* The sign-ins.                                                           *)
(***************************************************************************)
Login == INSTANCE LoginFlow

LoginConstants ==
  /\ Methods \subseteq Login!AllMethods
  /\ Wait \in Nat /\ MaxFlags \in Nat /\ MaxClock \in Nat
  /\ Login!Nobody \notin Sessions /\ Login!Other \notin Sessions

-----------------------------------------------------------------------------
SignIn ==
  [step : {"idle", "open", "exchanged", "saved", "done", "failed"}, method : Methods,
   project : Projects, code : BOOLEAN, outcome : {"none", "code", "cancelled"},
   page : BOOLEAN, polled : Nat, deadline : 0 .. MaxClock + Wait, closes : Nat,
   called : BOOLEAN, cutoff : 0 .. MaxFlags]

LoginTypes ==
  /\ clock \in 0 .. MaxClock /\ flags \in 0 .. MaxFlags
  /\ session \in [Sessions -> SignIn]
  /\ owner \in [Login!Hosts -> Sessions \cup {Login!Nobody, Login!Other}]
  /\ path \in Projects
  /\ pools \in [Projects -> SUBSET Sessions]
  /\ flagged \in [Projects -> SUBSET (0 .. MaxFlags)]

\* A listener waits for a browser, and is closed once, when that is settled.
Listens(s) ==
  /\ \A h \in Login!Hosts :
       owner[h] = s => /\ session[s].step = "open" /\ session[s].outcome = "none"
                       /\ session[s].method \in Login!Loopback
  /\ session[s].closes = IF session[s].outcome = "none" THEN 0 ELSE 1
  /\ session[s].step = "idle" => session[s].outcome = "none"

Ports == \A s \in Sessions : Listens(s)

\* What the last step did.
Harmless(l) ==
  /\ ~l.mixed /\ l.wiped = {}
  /\ l.saved # "" => l.saved \in Sessions /\ l.at \in Projects

LoginInv == LoginTypes /\ Ports /\ Harmless(last)

LEMMA LoginStarts ==
  ASSUME LoginConstants, Login!Init
  PROVE  LoginInv
  <1>1. LoginTypes
    BY DEF LoginTypes, LoginConstants, Login!Init, Login!Asked, SignIn
  <1>2. Ports
    <2> SUFFICES ASSUME NEW s \in Sessions
                 PROVE  Listens(s)
      BY DEF Ports
    <2>1. \A h \in Login!Hosts : owner[h] # s
      BY DEF Login!Init, LoginConstants, Login!Hosts
    <2>2. session[s].closes = 0 /\ session[s].outcome = "none"
      BY DEF Login!Init, Login!Asked
    <2> QED BY <2>1, <2>2 DEF Listens
  <1>3. Harmless(last)
    BY DEF Login!Init, Login!Quiet, Harmless
  <1> QED BY <1>1, <1>2, <1>3 DEF LoginInv

\* One sign-in changes, and no address changes hands but its own.
OneListens(s) ==
  /\ \A q \in Sessions : q # s => session'[q] = session[q]
  /\ \A h \in Login!Hosts : owner'[h] = owner[h] \/ owner[h] = s \/ owner'[h] = s

LEMMA OthersListen ==
  ASSUME NEW s \in Sessions, Ports, LoginTypes, LoginConstants, OneListens(s), Listens(s)',
         \A h \in Login!Hosts : owner[h] = s /\ owner'[h] # s => owner'[h] \notin Sessions
  PROVE  Ports'
  <1> SUFFICES ASSUME NEW q \in Sessions, q # s
               PROVE  Listens(q)'
    BY DEF Ports
  <1>1. Listens(q) /\ session'[q] = session[q]
    BY DEF Ports, OneListens
  <1>2. ASSUME NEW h \in Login!Hosts, owner'[h] = q
        PROVE  owner[h] = q
    BY <1>2 DEF OneListens
  <1> QED BY <1>1, <1>2 DEF Listens

LEMMA LoginSteps ==
  ASSUME LoginConstants, LoginInv, [Login!Next]_(Login!vars)
  PROVE  LoginInv'
  <1> USE DEF LoginInv
  <1>0. Login!Hosts = {"127.0.0.1", "::1"} /\ Login!Quiet.mixed = FALSE
        /\ Login!Quiet.wiped = {} /\ Login!Quiet.saved = ""
    BY DEF Login!Hosts, Login!Quiet
  <1>q. last' = Login!Quiet => Harmless(last)'
    BY <1>0 DEF Harmless
  <1>t. ASSUME NEW s \in Sessions PROVE session[s] \in SignIn /\ Listens(s)
    BY DEF LoginTypes, Ports
  <1>1. ASSUME NEW s \in Sessions, Login!Authorize(s)
        PROVE  LoginInv'
    <2> USE <1>1 DEF Login!Authorize, Login!Pin, Login!To
    <2>1. LoginTypes'
      BY <1>t DEF LoginTypes, LoginConstants, SignIn
    <2>2. Listens(s)' /\ OneListens(s)
      BY <1>t DEF LoginTypes, SignIn, Listens, OneListens, Ports, LoginConstants
    <2>3. \A h \in Login!Hosts : owner[h] # s
      BY <1>t DEF Listens
    <2> QED BY <2>1, <2>2, <2>3, <1>q, OthersListen
  <1>2. ASSUME NEW s \in Sessions, Login!AuthorizeRemote(s)
        PROVE  LoginInv'
    <2> USE <1>2 DEF Login!AuthorizeRemote, Login!Pin, Login!To
    <2>1. LoginTypes'
      BY <1>t DEF LoginTypes, LoginConstants, SignIn
    <2>2. Listens(s)' /\ OneListens(s)
      BY <1>t DEF LoginTypes, SignIn, Listens, OneListens
    <2> QED BY <2>1, <2>2, <1>q, OthersListen
  <1>3. ASSUME NEW s \in Sessions, Login!BrowserReturns(s)
        PROVE  LoginInv'
    <2>1. PICK h \in Login!Hosts :
            /\ owner[h] = s
            /\ session' = [session EXCEPT ![s].code = TRUE, ![s].page = TRUE]
            /\ last' = [Login!Quiet EXCEPT !.mixed = FALSE]
      BY <1>3 DEF Login!BrowserReturns, Login!Heard
    <2>2. UNCHANGED <<clock, owner, path, pools, flagged, flags>>
      BY <1>3 DEF Login!BrowserReturns
    <2>3. LoginTypes'
      <3>1. [session[s] EXCEPT !.code = TRUE, !.page = TRUE] \in SignIn
        BY <1>t DEF SignIn
      <3>2. session' = [session EXCEPT ![s] = [session[s] EXCEPT !.code = TRUE, !.page = TRUE]]
        BY <2>1
      <3> QED BY <2>2, <3>1, <3>2 DEF LoginTypes
    <2>4. Listens(s)' /\ OneListens(s)
      BY <2>1, <2>2, <1>t DEF LoginTypes, SignIn, Listens, OneListens
    <2>5. Harmless(last)'
      BY <2>1 DEF Harmless, Login!Quiet
    <2> QED BY <2>2, <2>3, <2>4, <2>5, OthersListen
  <1>4. ASSUME NEW s \in Sessions, Login!Poll(s)
        PROVE  LoginInv'
    <2> USE <1>4 DEF Login!Poll, Login!Observed
    <2>1. LoginTypes'
      BY <1>t DEF LoginTypes, LoginConstants, SignIn, Login!Released
    <2>2. Listens(s)' /\ OneListens(s)
      BY <1>t DEF LoginTypes, SignIn, Listens, OneListens, Login!Released, LoginConstants
    <2>3. \A h \in Login!Hosts : owner[h] = s /\ owner'[h] # s => owner'[h] \notin Sessions
      BY DEF Login!Released, LoginTypes, LoginConstants
    <2> QED BY <2>1, <2>2, <2>3, <1>q, OthersListen
  <1>5. ASSUME NEW s \in Sessions, Login!Call(s)
        PROVE  LoginInv'
    <2> USE <1>5 DEF Login!Call
    <2>1. LoginTypes'
      <3>1. [session[s] EXCEPT !.called = TRUE] \in SignIn
        BY <1>t DEF SignIn
      <3>2. session' = [session EXCEPT ![s] = [session[s] EXCEPT !.called = TRUE]]
        OBVIOUS
      <3> QED BY <3>1, <3>2 DEF LoginTypes
    <2>2. Listens(s)' /\ OneListens(s)
      BY <1>t DEF LoginTypes, SignIn, Listens, OneListens
    <2> QED BY <2>1, <2>2, <1>q, OthersListen
  <1>6. ASSUME NEW s \in Sessions, Login!Exchange(s)
        PROVE  LoginInv'
    <2> USE <1>6 DEF Login!Exchange
    <2>1. PICK step \in {"exchanged", "failed"}, cutoff \in 0 .. MaxFlags :
            session' = [session EXCEPT ![s].step = step, ![s].cutoff = cutoff]
      <3>1. CASE session' = [session EXCEPT ![s].step = "exchanged", ![s].cutoff = flags]
        BY <3>1 DEF LoginTypes
      <3>2. CASE session' = [session EXCEPT ![s].step = "failed"]
        BY <3>2, <1>t DEF LoginTypes, SignIn
      <3> QED BY <3>1, <3>2 DEF Login!To
    <2>2. UNCHANGED <<clock, owner, path, pools, flagged, flags>>
      OBVIOUS
    <2>3. LoginTypes'
      BY <2>1, <2>2, <1>t DEF LoginTypes, SignIn
    <2>4. \A h \in Login!Hosts : owner[h] # s
      BY <1>t DEF Listens
    <2>5. Listens(s)' /\ OneListens(s)
      BY <2>1, <2>2, <2>4, <1>t DEF LoginTypes, SignIn, Listens, OneListens
    <2>6. Harmless(last)'
      BY <1>q DEF Harmless, Login!Quiet, Login!HasCode, Login!PasteTaken, Login!Loopback
    <2> QED BY <2>2, <2>3, <2>5, <2>6, OthersListen
  <1>7. ASSUME NEW s \in Sessions, Login!Save(s)
        PROVE  LoginInv'
    <2> USE <1>7 DEF Login!Save
    <2>1. PICK step \in {"saved", "done"} : session' = [session EXCEPT ![s].step = step]
      BY DEF Login!To
    <2>2. UNCHANGED <<clock, owner, path, flagged, flags>>
      OBVIOUS
    <2>3. LoginTypes'
      BY <2>1, <2>2, <1>t DEF LoginTypes, SignIn
    <2>4. Listens(s)' /\ OneListens(s)
      BY <2>1, <2>2, <1>t DEF LoginTypes, SignIn, Listens, OneListens
    <2>5. Harmless(last)'
      BY <1>q DEF Harmless, Login!Quiet, LoginTypes
    <2> QED BY <2>2, <2>3, <2>4, <2>5, OthersListen
  <1>8. ASSUME NEW s \in Sessions, Login!Clear(s)
        PROVE  LoginInv'
    <2> USE <1>8 DEF Login!Clear, Login!To
    <2>1. LoginTypes'
      BY <1>t DEF LoginTypes, SignIn, Login!Kept
    <2>2. Listens(s)' /\ OneListens(s)
      BY <1>t DEF LoginTypes, SignIn, Listens, OneListens
    <2>3. Harmless(last)'
      BY <1>q DEF Harmless, Login!Quiet, LoginTypes, Login!Kept
    <2> QED BY <2>1, <2>2, <2>3, OthersListen
  <1>9. ASSUME NEW h \in Login!Hosts, Login!OtherProgram(h)
        PROVE  LoginInv'
    <2>1. LoginTypes'
      BY <1>9 DEF Login!OtherProgram, LoginTypes
    <2>2. Ports'
      BY <1>9 DEF Login!OtherProgram, LoginTypes, Ports, Listens, LoginConstants
    <2> QED BY <2>1, <2>2, <1>9, <1>q DEF Login!OtherProgram
  <1>10. ASSUME NEW p \in Projects, Login!Flag(p)
         PROVE  LoginInv'
    <2>1. LoginTypes'
      BY <1>10 DEF Login!Flag, LoginTypes, LoginConstants, SignIn
    <2> QED BY <2>1, <1>10, <1>q DEF Login!Flag, Ports, Listens
  <1>11. CASE Login!Tick
    <2>1. LoginTypes'
      BY <1>11 DEF Login!Tick, LoginTypes, LoginConstants
    <2> QED BY <2>1, <1>11, <1>q DEF Login!Tick, Ports, Listens
  <1>12. CASE UNCHANGED Login!vars
    BY <1>12 DEF Login!vars, LoginTypes, Ports, Listens, Harmless
  <1> QED
    BY <1>1, <1>2, <1>3, <1>4, <1>5, <1>6, <1>7, <1>8, <1>9, <1>10, <1>11, <1>12 DEF Login!Next

(***************************************************************************)
(* For every set of sign-ins, methods and projects: the loopback port      *)
(* belongs to sign-ins that still wait for it and is given back once; no   *)
(* callback completes another's sign-in; what others flag while one starts *)
(* afresh survives; and with one project the credentials are saved where   *)
(* they were asked for (lib/auth/server.ts, loopback-flow.ts).             *)
(***************************************************************************)
THEOREM SignInsStaySafe ==
  ASSUME LoginConstants
  PROVE  Login!Spec => [](Login!TypeOK /\ Login!FlowSafe)
  <1>1. Login!Init => LoginInv
    BY LoginStarts
  <1>2. LoginInv /\ [Login!Next]_(Login!vars) => LoginInv'
    BY LoginSteps
  <1>3. ASSUME LoginInv
        PROVE  Login!TypeOK /\ Login!FlowSafe
    <2>1. Login!TypeOK
      BY <1>3 DEF LoginInv, LoginTypes, SignIn, Login!TypeOK
    <2>2. Login!PortHeldByWaiting
      BY <1>3 DEF LoginInv, Ports, Listens, Login!PortHeldByWaiting, Login!Bound
    <2>3. Login!NoCrossedCodes /\ Login!LateFlagsSurvive
      BY <1>3 DEF LoginInv, Harmless, Login!NoCrossedCodes, Login!LateFlagsSurvive
    <2>4. (\A p, q \in Projects : p = q) => Login!SavedWhereAsked
      BY <1>3 DEF LoginInv, Harmless, LoginTypes, SignIn, Login!SavedWhereAsked
    <2> QED BY <2>1, <2>2, <2>3, <2>4 DEF Login!FlowSafe
  <1> QED BY <1>1, <1>2, <1>3, PTL DEF Login!Spec

-----------------------------------------------------------------------------
(***************************************************************************)
(* The daily update check.                                                 *)
(***************************************************************************)
Update == INSTANCE UpdateCheck

\* The cache resolves to a directory of its own: `linked' is not proved about.
UpdateConstants ==
  /\ Linked = FALSE
  /\ MaxVersion \in Nat \ {0} /\ MaxClock \in Nat /\ Day \in Nat
  /\ AutoUpdate \in BOOLEAN /\ Local \subseteq Procs

-----------------------------------------------------------------------------
Versions == 0 .. MaxVersion

Checking ==
  [state : {"off", "started", "asked", "answered", "idle"}, running : Versions,
   current : Versions, stamp : 0 .. MaxClock, latest : Versions, promise : Versions,
   evicts : BOOLEAN]

UpdateTypes ==
  /\ registry \in 1 .. MaxVersion /\ disk \in Versions /\ clock \in 0 .. MaxClock
  /\ file \in [at : -1 .. MaxClock, latest : Versions]
  /\ proc \in [Procs -> Checking]
  /\ was \in [0 .. MaxClock -> Versions]
  /\ promised \in Versions

\* An answer is of its time, or later, and of a version published.
Timely(time, latest) ==
  latest # 0 => time \in 0 .. clock /\ was[time] <= latest /\ latest <= registry

Published ==
  /\ \A t \in 0 .. clock : was[t] <= registry
  /\ promised <= registry
  /\ Timely(file.at, file.latest)

Honest(p) ==
  /\ proc[p].promise <= registry
  /\ proc[p].state \in {"asked", "answered"} => p \notin Local /\ proc[p].stamp <= clock
  /\ proc[p].state = "answered" => Timely(proc[p].stamp, proc[p].latest)
  /\ p \in Local => ~proc[p].evicts

Checks == \A p \in Procs : Honest(p)

UpdateInv == UpdateTypes /\ Published /\ Checks /\ Update!PromiseKept

LEMMA UpdateStarts ==
  ASSUME UpdateConstants, Update!Init
  PROVE  UpdateInv
  <1> USE DEF UpdateConstants, Update!Init, Update!NoFile, Update!Off, Versions
  <1>1. UpdateTypes
    BY DEF UpdateTypes, Checking
  <1>2. Published
    BY DEF Published, Timely
  <1>3. Checks
    BY DEF Checks, Honest
  <1>4. Update!PromiseKept
    BY DEF Update!PromiseKept
  <1> QED BY <1>1, <1>2, <1>3, <1>4 DEF UpdateInv

\* A process goes on, and neither the registry nor time does.
LEMMA OneGoesOn ==
  ASSUME UpdateInv, NEW p \in Procs, NEW c \in Checking, proc' = [proc EXCEPT ![p] = c],
         UNCHANGED <<registry, clock, was>>, Honest(p)'
  PROVE  Checks' /\ proc' \in [Procs -> Checking]
  <1>1. proc' \in [Procs -> Checking]
    BY DEF UpdateInv, UpdateTypes
  <1>2. ASSUME NEW q \in Procs, q # p
        PROVE  Honest(q)'
    BY <1>2 DEF UpdateInv, UpdateTypes, Checks, Honest, Timely
  <1> QED BY <1>1, <1>2 DEF Checks

LEMMA NotifiedIsHonest ==
  ASSUME UpdateConstants, UpdateInv, NEW p \in Procs, NEW running \in Versions,
         NEW latest \in Versions, latest <= registry, p \notin Local,
         NEW c \in Checking, c = Update!Notified([proc[p] EXCEPT !.current = running], latest),
         proc' = [proc EXCEPT ![p] = c], UNCHANGED <<registry, clock, was>>
  PROVE  Honest(p)'
  <1>1. c.promise <= registry /\ c.state = "idle"
    BY DEF Update!Notified, UpdateInv, UpdateTypes, Checking, Versions
  <1> QED BY <1>1 DEF Honest, UpdateInv, UpdateTypes

LEMMA NotifiedIsTyped ==
  ASSUME UpdateConstants, UpdateTypes, NEW p \in Procs, NEW running \in Versions,
         NEW latest \in Versions
  PROVE  Update!Notified([proc[p] EXCEPT !.current = running], latest) \in Checking
  <1> DEFINE evicts == proc[p].evicts \/ (latest > running /\ AutoUpdate)
             promise == IF latest > running THEN latest ELSE 0
  <1>1. evicts \in BOOLEAN /\ promise \in Versions /\ proc[p] \in Checking
    BY DEF Versions, UpdateConstants, UpdateTypes
  <1>2. Update!Notified([proc[p] EXCEPT !.current = running], latest)
          = [proc[p] EXCEPT !.current = running, !.state = "idle",
               !.promise = promise, !.evicts = evicts]
    BY <1>1 DEF Update!Notified, Checking
  <1> HIDE DEF evicts, promise
  <1> QED BY <1>1, <1>2 DEF Checking

LEMMA UpdateSteps ==
  ASSUME UpdateConstants, UpdateInv, [Update!Next]_(Update!vars)
  PROVE  UpdateInv'
  <1> USE DEF UpdateInv
  <1>t. ASSUME NEW p \in Procs PROVE proc[p] \in Checking /\ Honest(p)
    BY DEF UpdateTypes, Checks
  <1>n. 0 \in Versions /\ registry \in Versions
    BY DEF UpdateTypes, UpdateConstants, Versions
  <1>1. CASE Update!Publish
    <2> USE <1>1 DEF Update!Publish
    <2>1. UpdateTypes'
      BY DEF UpdateTypes, UpdateConstants
    <2>2. Published'
      <3>1. ASSUME NEW t \in 0 .. clock
            PROVE  was[t] \in Int /\ was[t] <= registry
        <4>1. t \in 0 .. MaxClock
          BY DEF UpdateTypes, UpdateConstants
        <4> QED BY <4>1 DEF UpdateTypes, Versions, Published
      <3>2. promised \in Int /\ file.latest \in Int /\ registry \in Int
        BY DEF UpdateTypes, Versions
      <3> QED BY <3>1, <3>2 DEF Published, Timely
    <2>3. Checks'
      BY DEF Checks, Honest, Timely, UpdateTypes, Checking, Versions
    <2> QED BY <2>1, <2>2, <2>3 DEF Update!PromiseKept
  <1>2. CASE Update!Tick
    <2> USE <1>2 DEF Update!Tick
    <2>1. UpdateTypes'
      BY <1>n DEF UpdateTypes, UpdateConstants
    <2>2. ASSUME NEW t \in 0 .. clock
          PROVE  was'[t] = was[t] /\ t \in 0 .. clock'
      BY DEF UpdateTypes
    <2>3. was'[clock'] = registry /\ \A t \in 0 .. clock' : t \in 0 .. clock \/ t = clock'
      <3>1. clock + 1 \in 0 .. MaxClock /\ clock' = clock + 1 /\ clock \in Nat
        BY DEF UpdateTypes, UpdateConstants
      <3>2. was'[clock + 1] = registry
        BY <3>1 DEF UpdateTypes
      <3> QED BY <3>1, <3>2
    <2>4. Published'
      BY <2>2, <2>3 DEF Published, Timely, UpdateTypes
    <2>5. ASSUME NEW p \in Procs
          PROVE  Honest(p)'
      BY <2>2, <1>t DEF Honest, Timely, UpdateTypes, Checking
    <2> QED BY <2>1, <2>4, <2>5 DEF Update!PromiseKept, Checks
  <1>3. ASSUME NEW p \in Procs, Update!Start(p)
        PROVE  UpdateInv'
    <2> DEFINE installed == IF disk = 0 THEN registry ELSE disk
               c == [Update!Off EXCEPT !.state = "started", !.running = installed]
    <2>1. /\ disk' = installed /\ installed \in Versions
          /\ proc' = [proc EXCEPT ![p] = c]
          /\ UNCHANGED <<registry, file, clock, was, promised>>
      BY <1>3, <1>n DEF Update!Start, UpdateTypes
    <2>0. Update!Off \in Checking
      BY <1>n DEF Update!Off, Checking, UpdateConstants
    <2>2. c \in Checking /\ c.promise = 0 /\ c.state = "started" /\ c.evicts = FALSE
      <3> HIDE DEF installed
      <3> QED BY <2>0, <2>1 DEF Update!Off, Checking
    <2>3. Honest(p)'
      BY <2>1, <2>2 DEF Honest, UpdateTypes
    <2>4. Checks' /\ UpdateTypes'
      BY <2>1, <2>2, <2>3, OneGoesOn DEF UpdateTypes
    <2>5. Update!PromiseKept'
      BY <2>1 DEF Update!PromiseKept, Published
    <2> QED BY <2>1, <2>4, <2>5 DEF Published, Timely
  <1>4. ASSUME NEW p \in Procs, Update!Check(p)
        PROVE  UpdateInv'
    <2>1. UNCHANGED <<registry, disk, file, clock, was, promised>>
      BY <1>4 DEF Update!Check
    <2>2. SUFFICES Checks' /\ proc' \in [Procs -> Checking]
      BY <2>1, <2>2 DEF UpdateTypes, Published, Timely, Update!PromiseKept
    <2>3. CASE p \in Local
      <3>1. proc' = [proc EXCEPT ![p] = [proc[p] EXCEPT !.state = "idle"]]
        BY <1>4, <2>3 DEF Update!Check
      <3>2. [proc[p] EXCEPT !.state = "idle"] \in Checking
        BY <1>t DEF Checking
      <3>3. Honest(p)'
        BY <2>1, <3>1, <1>t DEF Honest, UpdateTypes, Checking
      <3> QED BY <2>1, <3>1, <3>2, <3>3, OneGoesOn
    <2>4. CASE p \notin Local /\ Update!Fresh
      <3> DEFINE c == Update!Notified([proc[p] EXCEPT !.current = disk], file.latest)
      <3>1. proc' = [proc EXCEPT ![p] = c]
        BY <1>4, <2>4 DEF Update!Check
      <3>2. disk \in Versions /\ file.latest \in Versions /\ file.latest <= registry
        BY DEF UpdateTypes, Published, Timely, Versions
      <3>3. c \in Checking
        BY <3>2, NotifiedIsTyped
      <3>4. Honest(p)'
        BY <2>1, <2>4, <3>1, <3>2, <3>3, NotifiedIsHonest
      <3> QED BY <2>1, <3>1, <3>3, <3>4, OneGoesOn
    <2>5. CASE p \notin Local /\ ~Update!Fresh
      <3> DEFINE c == [proc[p] EXCEPT !.state = "asked", !.current = disk, !.stamp = clock]
      <3>1. proc' = [proc EXCEPT ![p] = c]
        BY <1>4, <2>5 DEF Update!Check
      <3>2. c \in Checking
        BY <1>t DEF Checking, UpdateTypes
      <3>3. Honest(p)'
        BY <2>1, <2>5, <3>1, <1>t DEF Honest, UpdateTypes, Checking
      <3> QED BY <2>1, <3>1, <3>2, <3>3, OneGoesOn
    <2> QED BY <2>3, <2>4, <2>5
  <1>5. ASSUME NEW p \in Procs, Update!Answer(p)
        PROVE  UpdateInv'
    <2>1. PICK latest \in {registry, 0} :
            proc' = [proc EXCEPT ![p] = [proc[p] EXCEPT !.state = "answered", !.latest = latest]]
      BY <1>5 DEF Update!Answer
    <2>2. UNCHANGED <<registry, disk, file, clock, was, promised>> /\ proc[p].state = "asked"
      BY <1>5 DEF Update!Answer
    <2>3. [proc[p] EXCEPT !.state = "answered", !.latest = latest] \in Checking
      BY <1>t, <1>n DEF Checking
    <2>4. Honest(p)'
      BY <2>1, <2>2, <1>t DEF Honest, Timely, Published, UpdateTypes, Checking
    <2> QED BY <2>1, <2>2, <2>3, <2>4, OneGoesOn
        DEF UpdateTypes, Published, Timely, Update!PromiseKept
  <1>6. ASSUME NEW p \in Procs, Update!Settle(p)
        PROVE  UpdateInv'
    <2> DEFINE c == Update!Notified(proc[p], proc[p].latest)
    <2>1. /\ proc[p].state = "answered" /\ proc' = [proc EXCEPT ![p] = c]
          /\ file' = file \/ file' = [at |-> proc[p].stamp, latest |-> proc[p].latest]
          /\ UNCHANGED <<registry, disk, clock, was, promised>>
      BY <1>6 DEF Update!Settle, Update!Stamped
    <2>2. /\ p \notin Local /\ Timely(proc[p].stamp, proc[p].latest)
          /\ proc[p].latest \in Versions /\ proc[p].current \in Versions
          /\ proc[p].stamp \in 0 .. MaxClock /\ proc[p].latest <= registry
      BY <2>1, <1>t DEF Honest, Checking, Timely, UpdateTypes, Versions
    <2>3. [proc[p] EXCEPT !.current = proc[p].current] = proc[p]
      BY <1>t DEF Checking
    <2>4. c \in Checking
      BY <2>2, <2>3, NotifiedIsTyped
    <2>5. Honest(p)'
      BY <2>1, <2>2, <2>3, <2>4, NotifiedIsHonest
    <2>6. Published'
      BY <2>1, <2>2 DEF Published, Timely
    <2>7. Checks' /\ proc' \in [Procs -> Checking]
      BY <2>1, <2>4, <2>5, OneGoesOn
    <2> QED BY <2>1, <2>2, <2>6, <2>7 DEF UpdateTypes, Update!PromiseKept
  <1>7. ASSUME NEW p \in Procs, Update!Exit(p) \/ Update!Kill(p)
        PROVE  UpdateInv'
    <2>1. proc' = [proc EXCEPT ![p] = Update!Off] /\ UNCHANGED <<registry, file, clock, was>>
      BY <1>7 DEF Update!Exit, Update!Kill
    <2>2. Update!Off \in Checking /\ Update!Off.promise = 0 /\ Update!Off.state = "off"
          /\ Update!Off.evicts = FALSE
      BY <1>n DEF Update!Off, Checking, UpdateConstants
    <2>3. Honest(p)'
      BY <2>1, <2>2, <1>t DEF Honest, UpdateTypes
    <2>4. \/ UNCHANGED <<disk, promised>>
          \/ disk' = 0 /\ promised' = promised
          \/ disk' = 0 /\ promised' = proc[p].promise
      BY <1>7 DEF Update!Exit, Update!Kill, Update!AfterExit, Update!Evictable, UpdateConstants
    <2>5. Update!PromiseKept' /\ promised' <= registry /\ promised' \in Versions
          /\ disk' \in Versions
      BY <2>4, <1>n, <1>t DEF Update!PromiseKept, Published, Honest, Checking, UpdateTypes
    <2> QED BY <2>1, <2>2, <2>3, <2>5, OneGoesOn DEF UpdateTypes, Published, Timely
  <1>8. CASE UNCHANGED Update!vars
    BY <1>8 DEF Update!vars, UpdateTypes, Published, Timely, Checks, Honest, Update!PromiseKept
  <1> QED BY <1>1, <1>2, <1>3, <1>4, <1>5, <1>6, <1>7, <1>8 DEF Update!Next

(***************************************************************************)
(* For every set of processes, checkouts and faults, where the cache can   *)
(* be deleted: the shared answer is of its time or later, a process that   *)
(* promised a version and exited is followed by one that installs it or    *)
(* has it, and no checkout is offered an update (auto-update-checker.ts).  *)
(***************************************************************************)
THEOREM UpdatesStaySafe ==
  ASSUME UpdateConstants
  PROVE  Update!Spec => [](Update!TypeOK /\ Update!UpdateSafe)
  <1>1. Update!Init => UpdateInv
    BY UpdateStarts
  <1>2. UpdateInv /\ [Update!Next]_(Update!vars) => UpdateInv'
    BY UpdateSteps
  <1>3. ASSUME UpdateInv
        PROVE  Update!TypeOK /\ Update!UpdateSafe
    <2>1. Update!TypeOK
      BY <1>3 DEF UpdateInv, UpdateTypes, Checking, Versions, Update!TypeOK
    <2>2. Update!StampIsTrue
      BY <1>3 DEF UpdateInv, UpdateTypes, Published, Timely, Versions, Update!StampIsTrue
    <2>3. Update!CheckoutUntouched
      BY <1>3 DEF UpdateInv, UpdateConstants, Checks, Honest, Update!CheckoutUntouched
    <2> QED BY <1>3, <2>1, <2>2, <2>3 DEF UpdateInv, Update!UpdateSafe
  <1> QED BY <1>1, <1>2, <1>3, PTL DEF Update!Spec

-----------------------------------------------------------------------------
(***************************************************************************)
(* The clear of the flagged records.                                       *)
(***************************************************************************)
Wipe == INSTANCE FlaggedClear

\* What cannot be read does not pass for missing: `locked keychain' and `marker lost'
\* are not proved about.
WipeConstants ==
  MaxFaults \in Nat /\ "locked" \notin Faults /\ "marker lost" \notin Faults

-----------------------------------------------------------------------------
Place == Wipe!Contents \cup {Wipe!None, Wipe!Damaged}

Survivor == Wipe!Holding({"fresh"})

Keeps ==
  {"retire file", "write entry", "sync markers", "write file", "write file, drop entry",
   "drop entry", "verify entry", "retire markers"}
Clears == {"unlink file", "delete entry", "unlink markers"}

WipeTypes ==
  /\ keychain \in BOOLEAN /\ loud \in BOOLEAN /\ faults \in 0 .. MaxFaults
  /\ at \in {"load", "over"} \cup Keeps \cup Clears
  /\ file \in Place /\ entry \in Place \ {Wipe!Damaged}
  /\ \A i \in DOMAIN markers : markers[i] \in Place
  /\ at # "over" => markers \in Seq(Place)
  /\ current \subseteq {"fresh"}

\* Where the pieces are before a step.
Found ==
  /\ ~keychain => entry = Wipe!None
  /\ at = "load" =>
       /\ ~loud
       /\ ~wasFresh => "fresh" \notin Wipe!Loaded
       /\ keychain /\ file # Wipe!None => entry = Wipe!None /\ file.is = "good"
  /\ at \in Clears => ~wasFresh
  /\ at \in {"delete entry", "unlink markers"} => file = Wipe!None
  /\ at = "unlink markers" /\ ~loud => entry = Wipe!None

Saving ==
  /\ at \in Keeps => current = {"fresh"} /\ "fresh" \in Wipe!Loaded
  /\ at = "retire file" =>
       keychain /\ (file # Wipe!None => entry = Wipe!None /\ file.is = "good")
  /\ at = "write entry" =>
       keychain /\ file \in {Wipe!None, Survivor} /\ (file # Wipe!None => entry = Wipe!None)
  /\ at \in {"sync markers", "verify entry", "retire markers"} =>
       file = Survivor \/ (file = Wipe!None /\ keychain /\ entry = Survivor)
  /\ at = "sync markers" => keychain /\ entry = Survivor
  /\ at = "drop entry" => file = Survivor
  /\ at = "retire markers" /\ ~loud => entry \in {Wipe!None, Survivor}

WipeInv == WipeTypes /\ Found /\ Saving /\ Wipe!FreshKept /\ Wipe!WipeIsWhole

LEMMA Shapes ==
  /\ Wipe!None \in Place /\ Wipe!Damaged \in Place /\ Survivor \in Place
  /\ Wipe!None.is = "none" /\ Wipe!None.has = {}
  /\ Wipe!Damaged.is = "damaged" /\ Wipe!Damaged.has = {}
  /\ Survivor.is = "good" /\ Survivor.has = {"fresh"}
  /\ \A x \in Place : /\ x.is \in {"none", "damaged", "good"}
                      /\ x.has \subseteq {"old", "fresh"}
                      /\ x.is = "none" => x = Wipe!None
                      /\ x.is = "damaged" => x = Wipe!Damaged
  <1> USE DEF Wipe!Holding, Wipe!None, Wipe!Damaged
  <1>1. Survivor \in Wipe!Contents /\ Survivor.is = "good" /\ Survivor.has = {"fresh"}
    <2>1. {"fresh"} \in SUBSET {"old", "fresh"}
      OBVIOUS
    <2> QED BY <2>1 DEF Survivor, Wipe!Contents
  <1>2. ASSUME NEW x \in Wipe!Contents
        PROVE  x.is = "good" /\ x.has \subseteq {"old", "fresh"}
    <2>1. PICK records \in SUBSET {"old", "fresh"} : x = [is |-> "good", has |-> records]
      BY DEF Wipe!Contents
    <2> QED BY <2>1
  <1> QED BY <1>1, <1>2 DEF Place

\* What a load finds.
LEMMA LoadedIs ==
  ASSUME file \in Place, entry \in Place
  PROVE  /\ keychain /\ entry.is = "good" => Wipe!Loaded = entry.has
         /\ ~(keychain /\ entry.is = "good") =>
              /\ file.is = "good" => Wipe!Loaded = file.has
              /\ file.is = "damaged" => Wipe!Loaded = {}
              /\ file.is = "none" => Wipe!Loaded = Wipe!FromMarkers(markers)
  BY Shapes DEF Wipe!Loaded

LEMMA NewestMarker ==
  ASSUME NEW ms, ms \in Seq(Place), ms # <<>>, ms[1].is = "good"
  PROVE  Wipe!FromMarkers(ms) = ms[1].has
  <1> DEFINE good == {i \in DOMAIN ms : ms[i].is = "good"}
  <1>1. 1 \in good /\ good \subseteq Nat /\ \A j \in good : 1 <= j
    OBVIOUS
  <1>2. (CHOOSE i \in good : \A j \in good : i <= j) = 1
    BY <1>1
  <1> QED BY <1>1, <1>2 DEF Wipe!FromMarkers

LEMMA WipeStarts ==
  ASSUME WipeConstants, Wipe!Init
  PROVE  WipeInv

  <1>0. at = "load" /\ current = {} /\ faults = 0 /\ loud = FALSE
    BY DEF Wipe!Init
  <1>1. PICK c \in Wipe!Contents :
         \/ /\ keychain = TRUE /\ file = Wipe!None /\ entry = c
            /\ markers \in {<<>>, <<c>>}
         \/ /\ keychain = TRUE /\ file = c /\ entry = Wipe!None
            /\ markers \in {<<>>, <<Wipe!Older>>}
         \/ /\ keychain \in BOOLEAN /\ file = Wipe!None /\ entry = Wipe!None
            /\ markers \in {<<c>>, <<c, Wipe!Older>>, <<Wipe!Damaged, c>>}
         \/ /\ keychain = FALSE /\ file \in {c, Wipe!Damaged} /\ entry = Wipe!None
            /\ markers \in {<<>>, <<Wipe!Older>>}
    BY DEF Wipe!Init
  <1>2. Wipe!Older \in Wipe!Contents /\ Wipe!Older.has = {"old"} /\ Wipe!Older.is = "good"
    <2>1. {"old"} \in SUBSET {"old", "fresh"}
      OBVIOUS
    <2> QED BY <2>1 DEF Wipe!Older, Wipe!Contents, Wipe!Holding
  <1>3. c \in Place /\ c.is = "good" /\ c # Wipe!None /\ c # Wipe!Damaged
    <2>1. PICK records \in SUBSET {"old", "fresh"} : c = [is |-> "good", has |-> records]
      BY DEF Wipe!Contents, Wipe!Holding
    <2>2. c.is = "good" /\ c \in Place
      BY <2>1 DEF Place
    <2> QED BY <2>2, Shapes
  <1> DEFINE Lists == {<<>>, <<c>>, <<Wipe!Older>>, <<c, Wipe!Older>>, <<Wipe!Damaged, c>>}
  <1>m. markers \in Lists
    BY <1>1
  <1>4. markers \in Seq(Place) /\ file \in Place /\ entry \in Place \ {Wipe!Damaged}
    <2>1. Wipe!Older \in Place
      BY <1>2 DEF Place
    <2>2. markers \in Seq(Place)
      <3>1. c \in Place /\ Wipe!Older \in Place /\ Wipe!Damaged \in Place
        BY <2>1, <1>3, Shapes
      <3> HIDE DEF Lists
      <3>2. <<>> \in Seq(Place) /\ <<c>> \in Seq(Place) /\ <<Wipe!Older>> \in Seq(Place)
        BY <3>1
      <3>3. <<c, Wipe!Older>> \in Seq(Place) /\ <<Wipe!Damaged, c>> \in Seq(Place)
        BY <3>1
      <3> QED BY <1>m, <3>2, <3>3 DEF Lists
    <2>3. file \in {Wipe!None, c, Wipe!Damaged} /\ entry \in {Wipe!None, c}
      BY <1>1
    <2>4. Wipe!None # Wipe!Damaged
      BY Shapes
    <2> QED BY <1>m, <2>2, <2>3, <2>4, <1>3, Shapes
  <1>5. wasFresh <=> "fresh" \in Wipe!Loaded
    <2> DEFINE Marked == \E i \in DOMAIN markers : "fresh" \in markers[i].has
    <2>0. wasFresh <=> "fresh" \in file.has \/ "fresh" \in entry.has \/ Marked
      BY DEF Wipe!Init
    <2>a. markers = <<>> => ~Marked
      OBVIOUS
    <2>b. markers = <<c>> => (Marked <=> "fresh" \in c.has)
      OBVIOUS
    <2>c. markers = <<Wipe!Older>> => ~Marked
      BY <1>2
    <2>d. markers = <<c, Wipe!Older>> => (Marked <=> "fresh" \in c.has)
      BY <1>2
    <2>e. markers = <<Wipe!Damaged, c>> => (Marked <=> "fresh" \in c.has)
      BY Shapes
    <2> HIDE DEF Marked
    <2>1. CASE keychain = TRUE /\ file = Wipe!None /\ entry = c /\ markers \in {<<>>, <<c>>}
      BY <2>0, <2>1, <2>a, <2>b, <1>3, <1>4, LoadedIs, Shapes
    <2>2. CASE entry = Wipe!None /\ file \in {c, Wipe!Damaged} /\ markers \in {<<>>, <<Wipe!Older>>}
      BY <2>0, <2>2, <2>a, <2>c, <1>3, <1>4, LoadedIs, Shapes
    <2>3. CASE /\ file = Wipe!None /\ entry = Wipe!None
               /\ markers \in {<<c>>, <<c, Wipe!Older>>, <<Wipe!Damaged, c>>}
      <3>1. Wipe!FromMarkers(markers) = c.has
        <4>1. CASE markers \in {<<c>>, <<c, Wipe!Older>>}
          <5>1. markers # <<>> /\ markers[1] = c
            BY <4>1
          <5> QED BY <5>1, <1>3, <1>4, NewestMarker
        <4>2. CASE markers = <<Wipe!Damaged, c>>
          <5>1. DOMAIN markers = {1, 2} /\ markers[1] = Wipe!Damaged /\ markers[2] = c
            BY <4>2
          <5>2. {i \in DOMAIN markers : markers[i].is = "good"} = {2}
            BY <5>1, <1>3, Shapes
          <5>3. (CHOOSE i \in {2} : \A j \in {2} : i <= j) = 2
            OBVIOUS
          <5> QED BY <5>1, <5>2, <5>3 DEF Wipe!FromMarkers
        <4> QED BY <2>3, <4>1, <4>2
      <3>2. Marked <=> "fresh" \in c.has
        BY <2>3, <2>b, <2>d, <2>e
      <3> QED BY <2>0, <2>3, <3>1, <3>2, <1>4, LoadedIs, Shapes
    <2> QED BY <1>1, <2>1, <2>2, <2>3
  <1>6. WipeTypes
    <2>1. keychain \in BOOLEAN
      BY <1>1
    <2>2. \A i \in DOMAIN markers : markers[i] \in Place
      BY <1>4
    <2>3. at \in {"load", "over"} /\ current \subseteq {"fresh"} /\ loud \in BOOLEAN
      BY <1>0
    <2>4. faults \in 0 .. MaxFaults
      <3>1. MaxFaults \in Nat
        BY DEF WipeConstants
      <3>2. faults = 0
        BY <1>0
      <3> QED BY <3>1, <3>2
    <2> QED BY <1>4, <2>1, <2>2, <2>3, <2>4 DEF WipeTypes
  <1>7. Found
    <2>1. ~keychain => entry = Wipe!None
      BY <1>1
    <2>2. keychain /\ file # Wipe!None => entry = Wipe!None /\ file.is = "good"
      BY <1>1, <1>3
    <2>3. at \notin Clears /\ at # "delete entry" /\ at # "unlink markers"
      BY <1>0 DEF Clears
    <2>4. ~loud /\ (~wasFresh => "fresh" \notin Wipe!Loaded)
      BY <1>0, <1>5
    <2> QED BY <2>1, <2>2, <2>3, <2>4 DEF Found
  <1>8. Saving /\ Wipe!FreshKept /\ Wipe!WipeIsWhole
    BY <1>0, <1>5 DEF Saving, Keeps, Wipe!FreshKept, Wipe!WipeIsWhole
  <1> QED BY <1>6, <1>7, <1>8 DEF WipeInv


LEMMA LoadedNext ==
  ASSUME file' \in Place, entry' \in Place
  PROVE  /\ keychain' /\ entry'.is = "good" => Wipe!Loaded' = entry'.has
         /\ ~(keychain' /\ entry'.is = "good") =>
              /\ file'.is = "good" => Wipe!Loaded' = file'.has
              /\ file'.is = "damaged" => Wipe!Loaded' = {}
              /\ file'.is = "none" => Wipe!Loaded' = Wipe!FromMarkers(markers')
  BY Shapes DEF Wipe!Loaded

LEMMA SameLoad ==
  ASSUME UNCHANGED <<keychain, file, entry, markers>>
  PROVE  Wipe!Loaded' = Wipe!Loaded
  BY DEF Wipe!Loaded

\* A fault is counted, up to the bound.
LEMMA FaultCounted ==
  ASSUME WipeConstants, faults \in 0 .. MaxFaults
  PROVE  /\ Wipe!Fine => faults' \in 0 .. MaxFaults
         /\ \A name : Wipe!Fault(name) => faults' \in 0 .. MaxFaults /\ name \in Faults
  <1>1. MaxFaults \in Nat
    BY DEF WipeConstants
  <1> QED BY <1>1 DEF Wipe!Fine, Wipe!Fault

\* What is left to show of a step that goes on, and of one that ends the clear.
LEMMA SavingGoesOn ==
  ASSUME WipeTypes', at' \in Keeps, ~keychain' => entry' = Wipe!None, Saving'
  PROVE  WipeInv'
  <1>1. at' \notin Clears /\ at' \notin {"load", "over", "delete entry", "unlink markers"}
    BY DEF Keeps, Clears
  <1>2. "fresh" \in Wipe!Loaded'
    BY DEF Saving
  <1> QED BY <1>1, <1>2 DEF WipeInv, Found, Wipe!FreshKept, Wipe!WipeIsWhole

LEMMA ClearGoesOn ==
  ASSUME WipeTypes', at' \in Clears, ~keychain' => entry' = Wipe!None, ~wasFresh',
         at' \in {"delete entry", "unlink markers"} => file' = Wipe!None,
         at' = "unlink markers" /\ ~loud' => entry' = Wipe!None
  PROVE  WipeInv'
  <1>1. at' \notin Keeps /\ at' \notin {"load", "over"}
    BY DEF Keeps, Clears
  <1>2. Saving'
    BY <1>1 DEF Saving, Keeps
  <1> QED BY <1>1, <1>2 DEF WipeInv, Found, Wipe!FreshKept, Wipe!WipeIsWhole

LEMMA ClearEnds ==
  ASSUME WipeTypes', at' = "over", ~keychain' => entry' = Wipe!None,
         Wipe!FreshKept', Wipe!WipeIsWhole'
  PROVE  WipeInv'
  <1>1. at' \notin Keeps /\ at' \notin Clears
    BY DEF Keeps, Clears
  <1>2. Saving' /\ Found'
    BY <1>1 DEF Saving, Found, Keeps, Clears
  <1> QED BY <1>1, <1>2 DEF WipeInv

\* A step that complains, and leaves every place alone.
LEMMA ClearGivesUp ==
  ASSUME WipeInv, faults' \in 0 .. MaxFaults, at' = "over", loud' = TRUE,
         UNCHANGED <<keychain, file, entry, markers, current, wasFresh>>
  PROVE  WipeInv'
  <1>1. WipeTypes' /\ (~keychain' => entry' = Wipe!None)
    BY DEF WipeInv, WipeTypes, Found
  <1>2. Wipe!FreshKept'
    BY SameLoad DEF WipeInv, Wipe!FreshKept
  <1>3. Wipe!WipeIsWhole'
    BY DEF Wipe!WipeIsWhole
  <1> QED BY <1>1, <1>2, <1>3, ClearEnds

LEMMA LoadStep ==
  ASSUME WipeConstants, WipeInv, Wipe!Load
  PROVE  WipeInv'
  <1>0. at = "load" /\ UNCHANGED <<keychain, file, entry, markers, wasFresh>>
    BY DEF Wipe!Load
  <1>1. WipeTypes /\ Found /\ Wipe!FreshKept
    BY DEF WipeInv
  <1>2. faults' \in 0 .. MaxFaults
    BY <1>1, FaultCounted DEF Wipe!Load, WipeTypes
  <1>3. CASE Wipe!Chosen(Wipe!Loaded)
    <2> DEFINE fresh == Wipe!Survivors(Wipe!Loaded)
    <2>1. loud' = loud /\ current' = fresh
      BY <1>3 DEF Wipe!Chosen
    <2>2. fresh = IF "fresh" \in Wipe!Loaded THEN {"fresh"} ELSE {}
      BY DEF Wipe!Survivors
    <2>3. at' = IF fresh = {} THEN "unlink file"
                ELSE IF keychain THEN "retire file" ELSE "write file"
      BY <1>3 DEF Wipe!Chosen
    <2> HIDE DEF fresh
    <2>4. WipeTypes'
      <3>1. at' \in Keeps \cup Clears /\ at' # "over" /\ at # "over"
        BY <1>0, <2>3 DEF Keeps, Clears
      <3> QED BY <1>0, <1>1, <1>2, <2>1, <2>2, <3>1 DEF WipeTypes
    <2>5. ~keychain' => entry' = Wipe!None
      BY <1>0, <1>1 DEF Found
    <2>6. CASE "fresh" \notin Wipe!Loaded
      <3>1. at' = "unlink file"
        BY <2>2, <2>3, <2>6
      <3>2. ~wasFresh'
        BY <1>0, <1>1, <2>6 DEF Wipe!FreshKept
      <3>3. at' \in Clears /\ at' \notin {"delete entry", "unlink markers"}
        BY <3>1 DEF Clears
      <3> QED BY <2>4, <2>5, <3>1, <3>2, <3>3, ClearGoesOn
    <2>7. CASE "fresh" \in Wipe!Loaded
      <3>1. at' = IF keychain THEN "retire file" ELSE "write file"
        BY <2>2, <2>3, <2>7
      <3>2. at' \in Keeps /\ at' \in {"retire file", "write file"}
        BY <3>1 DEF Keeps
      <3>3. current' = {"fresh"} /\ "fresh" \in Wipe!Loaded'
        BY <1>0, <2>1, <2>2, <2>7, SameLoad
      <3>4. at' = "retire file" =>
              keychain' /\ (file' # Wipe!None => entry' = Wipe!None /\ file'.is = "good")
        BY <1>0, <1>1, <3>1 DEF Found
      <3>5. Saving'
        BY <3>2, <3>3, <3>4 DEF Saving
      <3> QED BY <2>4, <2>5, <3>2, <3>5, SavingGoesOn
    <2> QED BY <2>6, <2>7
  <1>4. CASE at' = "over" /\ loud' = TRUE /\ UNCHANGED current
    BY <1>0, <1>2, <1>4, ClearGivesUp
  <1>5. ~Wipe!Fault("locked") /\ ~Wipe!Fault("marker lost")
    BY DEF WipeConstants, Wipe!Fault
  <1> QED BY <1>3, <1>4, <1>5 DEF Wipe!Load

LEMMA RetireFileStep ==
  ASSUME WipeConstants, WipeInv, Wipe!RetireFile
  PROVE  WipeInv'
  <1>0. /\ at = "retire file" /\ at' = "write entry" /\ at \in Keeps /\ at' \in Keeps
        /\ UNCHANGED <<entry, keychain, current, loud, wasFresh>>
    BY DEF Wipe!RetireFile, Wipe!Goto, Keeps
  <1>1. WipeTypes /\ Found /\ Saving
    BY DEF WipeInv
  <1>2. /\ keychain /\ (file # Wipe!None => entry = Wipe!None /\ file.is = "good")
        /\ Wipe!Holding(current) = Survivor /\ current = {"fresh"} /\ "fresh" \in Wipe!Loaded
    BY <1>0, <1>1 DEF Saving, Survivor
  <1>3. faults' \in 0 .. MaxFaults
    BY <1>1, FaultCounted DEF Wipe!RetireFile, WipeTypes
  <1>p. file \in Place /\ entry \in Place /\ markers \in Seq(Place)
    BY <1>0, <1>1 DEF WipeTypes
  <1>4. /\ file' \in Place /\ markers' \in Seq(Place)
        /\ file' \in {Wipe!None, Survivor} /\ (file' # Wipe!None => entry' = Wipe!None)
        /\ "fresh" \in Wipe!Loaded'
    <2>1. CASE file = Wipe!None /\ UNCHANGED <<file, markers>>
      BY <1>0, <1>2, <1>p, <2>1, SameLoad
    <2>2. CASE file # Wipe!None /\ markers' = <<file>> \o markers /\ file' = Wipe!None
      <3>1. markers' \in Seq(Place) /\ markers' # <<>> /\ markers'[1] = file
        BY <1>p, <2>2
      <3>2. Wipe!FromMarkers(markers') = file.has
        BY <1>2, <2>2, <3>1, NewestMarker
      <3>3. "fresh" \in file.has
        BY <1>2, <1>p, <2>2, LoadedIs, Shapes
      <3>4. Wipe!Loaded' = file.has
        BY <1>0, <1>2, <1>p, <2>2, <3>2, LoadedNext, Shapes
      <3> QED BY <2>2, <3>1, <3>3, <3>4, Shapes
    <2>3. CASE file # Wipe!None /\ file' = Survivor /\ UNCHANGED markers
      <3>1. Wipe!Loaded' = {"fresh"}
        BY <1>0, <1>2, <1>p, <2>3, LoadedNext, Shapes
      <3> QED BY <1>0, <1>2, <1>p, <2>3, <3>1, Shapes
    <2> QED BY <1>2, <2>1, <2>2, <2>3 DEF Wipe!RetireFile
  <1>5. WipeTypes'
    <2>1. \A i \in DOMAIN markers' : markers'[i] \in Place
      BY <1>4
    <2> QED BY <1>0, <1>1, <1>3, <1>4, <2>1 DEF WipeTypes
  <1>6. Saving'
    BY <1>0, <1>2, <1>4 DEF Saving
  <1> QED BY <1>0, <1>1, <1>5, <1>6, SavingGoesOn DEF Found

LEMMA WriteEntryStep ==
  ASSUME WipeConstants, WipeInv, Wipe!WriteEntry
  PROVE  WipeInv'
  <1>0. /\ at = "write entry" /\ at \in Keeps /\ UNCHANGED <<file, markers>>
        /\ UNCHANGED <<keychain, current, loud, wasFresh>>
    BY DEF Wipe!WriteEntry, Wipe!Goto, Keeps
  <1>1. WipeTypes /\ Found /\ Saving
    BY DEF WipeInv
  <1>2. /\ keychain /\ file \in {Wipe!None, Survivor}
        /\ Wipe!Holding(current) = Survivor /\ current = {"fresh"} /\ "fresh" \in Wipe!Loaded
    BY <1>0, <1>1 DEF Saving, Survivor
  <1>3. faults' \in 0 .. MaxFaults
    BY <1>1, FaultCounted DEF Wipe!WriteEntry, WipeTypes
  <1>p. file \in Place /\ entry \in Place \ {Wipe!Damaged} /\ markers \in Seq(Place)
    BY <1>0, <1>1 DEF WipeTypes
  <1>4. CASE entry' = Survivor /\ at' = "sync markers"
    <2>1. Wipe!Loaded' = {"fresh"}
      BY <1>0, <1>2, <1>p, <1>4, LoadedNext, Shapes
    <2>2. Survivor \in Place \ {Wipe!Damaged}
      BY Shapes
    <2>3. at' \in Keeps
      BY <1>4 DEF Keeps
    <2>4. WipeTypes'
      BY <1>0, <1>1, <1>3, <1>4, <1>p, <2>2, <2>3 DEF WipeTypes
    <2>5. Saving'
      BY <1>0, <1>2, <1>4, <2>1 DEF Saving
    <2> QED BY <1>0, <1>2, <2>3, <2>4, <2>5, SavingGoesOn
  <1>5. CASE UNCHANGED entry /\ at' \in {"write file", "write file, drop entry"}
    <2>1. at' \in Keeps /\ at' # "over"
      BY <1>5 DEF Keeps
    <2>2. WipeTypes'
      BY <1>0, <1>1, <1>3, <1>5, <1>p, <2>1 DEF WipeTypes
    <2>3. Saving'
      BY <1>0, <1>2, <1>5, SameLoad DEF Saving
    <2> QED BY <1>0, <1>2, <2>1, <2>2, <2>3, SavingGoesOn
  <1> QED BY <1>2, <1>4, <1>5 DEF Wipe!WriteEntry, Wipe!Goto
LEMMA WriteFileStep ==
  ASSUME WipeConstants, WipeInv, Wipe!WriteFile
  PROVE  WipeInv'
  <1>0. /\ at \in Keeps /\ at' \in Keeps /\ at' \in {"verify entry", "drop entry"}
        /\ UNCHANGED <<entry, markers>> /\ file' = Wipe!Holding(current) /\ Wipe!Fine
        /\ UNCHANGED <<keychain, current, loud, wasFresh>>
    BY DEF Wipe!WriteFile, Wipe!Goto, Keeps
  <1>1. WipeTypes /\ Found /\ Saving
    BY DEF WipeInv
  <1>2. file' = Survivor /\ current = {"fresh"} /\ "fresh" \in Wipe!Loaded
    BY <1>0, <1>1 DEF Saving, Survivor
  <1>3. faults' \in 0 .. MaxFaults
    BY <1>0, <1>1, FaultCounted DEF WipeTypes
  <1>4. /\ file \in Place /\ file' \in Place /\ entry \in Place \ {Wipe!Damaged}
        /\ at # "over" /\ at' # "over"
    BY <1>0, <1>1, <1>2, Shapes DEF WipeTypes, Keeps
  <1>5. "fresh" \in Wipe!Loaded'
    BY <1>0, <1>2, <1>4, LoadedIs, LoadedNext, Shapes
  <1>6. WipeTypes'
    BY <1>0, <1>1, <1>3, <1>4 DEF WipeTypes
  <1>7. Saving'
    BY <1>0, <1>2, <1>5 DEF Saving
  <1> QED BY <1>0, <1>1, <1>6, <1>7, SavingGoesOn DEF Found

LEMMA DropEntryStep ==
  ASSUME WipeConstants, WipeInv, Wipe!DropEntry
  PROVE  WipeInv'
  <1>0. /\ at = "drop entry" /\ at' = "verify entry" /\ at \in Keeps /\ at' \in Keeps
        /\ UNCHANGED <<file, markers, keychain, current, loud, wasFresh>>
        /\ entry' = Wipe!None \/ UNCHANGED entry
    BY DEF Wipe!DropEntry, Wipe!Goto, Keeps
  <1>1. WipeTypes /\ Found /\ Saving
    BY DEF WipeInv
  <1>2. file' = Survivor /\ current = {"fresh"} /\ "fresh" \in Wipe!Loaded
    BY <1>0, <1>1 DEF Saving
  <1>3. faults' \in 0 .. MaxFaults
    BY <1>1, FaultCounted DEF WipeTypes, Wipe!DropEntry
  <1>4. /\ file \in Place /\ file' \in Place /\ at # "over" /\ at' # "over"
        /\ entry \in Place \ {Wipe!Damaged} /\ entry' \in Place \ {Wipe!Damaged}
    <2>1. Wipe!None \in Place \ {Wipe!Damaged}
      BY Shapes
    <2> QED BY <1>0, <1>1, <2>1 DEF WipeTypes
  <1>5. "fresh" \in Wipe!Loaded'
    BY <1>0, <1>2, <1>4, LoadedIs, LoadedNext, Shapes
  <1>6. WipeTypes'
    BY <1>0, <1>1, <1>3, <1>4 DEF WipeTypes
  <1>7. Saving'
    BY <1>0, <1>2, <1>5 DEF Saving
  <1>8. ~keychain' => entry' = Wipe!None
    BY <1>0, <1>1 DEF Found
  <1> QED BY <1>0, <1>6, <1>7, <1>8, SavingGoesOn

LEMMA SyncMarkersStep ==
  ASSUME WipeConstants, WipeInv, Wipe!SyncMarkers
  PROVE  WipeInv'
  <1>0. /\ at = "sync markers" /\ at' = "verify entry" /\ at \in Keeps /\ at' \in Keeps
        /\ UNCHANGED <<file, entry, keychain, current, loud, wasFresh>>
    BY DEF Wipe!SyncMarkers, Wipe!Goto, Keeps
  <1>1. WipeTypes /\ Found /\ Saving
    BY DEF WipeInv
  <1>2. /\ keychain /\ entry = Survivor /\ current = {"fresh"}
        /\ Wipe!Holding(current) = Survivor
        /\ file = Survivor \/ file = Wipe!None
    BY <1>0, <1>1 DEF Saving, Survivor
  <1>3. faults' \in 0 .. MaxFaults
    BY <1>1, FaultCounted DEF WipeTypes, Wipe!SyncMarkers
  <1>4. file' \in Place /\ entry' \in Place \ {Wipe!Damaged} /\ at # "over" /\ at' # "over"
    BY <1>0, <1>1 DEF WipeTypes
  <1>5. "fresh" \in Wipe!Loaded'
    BY <1>0, <1>2, <1>4, LoadedNext, Shapes
  <1>6. markers' \in Seq(Place) /\ \A i \in DOMAIN markers' : markers'[i] \in Place
    <2>1. markers' \in {<<>>, <<Survivor>>}
      BY <1>2 DEF Wipe!SyncMarkers
    <2>2. CASE markers' = <<>> BY <2>2
    <2>3. CASE markers' = <<Survivor>>
      <3>1. Survivor \in Place
        BY Shapes
      <3> QED BY <2>3, <3>1
    <2> QED BY <2>1, <2>2, <2>3
  <1>7. WipeTypes'
    BY <1>0, <1>1, <1>3, <1>4, <1>6 DEF WipeTypes
  <1>8. Saving'
    BY <1>0, <1>2, <1>5 DEF Saving
  <1> QED BY <1>0, <1>2, <1>7, <1>8, SavingGoesOn

LEMMA VerifyEntryStep ==
  ASSUME WipeConstants, WipeInv, Wipe!VerifyEntry
  PROVE  WipeInv'
  <1>0. /\ at = "verify entry" /\ at' = "retire markers" /\ at \in Keeps /\ at' \in Keeps
        /\ UNCHANGED <<file, markers, keychain, current, wasFresh>>
    BY DEF Wipe!VerifyEntry, Keeps
  <1>1. WipeTypes /\ Found /\ Saving
    BY DEF WipeInv
  <1>2. /\ current = {"fresh"} /\ Wipe!Holding(current) = Survivor /\ "fresh" \in Wipe!Loaded
        /\ file = Survivor \/ (file = Wipe!None /\ keychain /\ entry = Survivor)
        /\ ~keychain => entry = Wipe!None
    BY <1>0, <1>1 DEF Saving, Found, Survivor
  <1>3. faults' \in 0 .. MaxFaults
    BY <1>1, FaultCounted DEF WipeTypes, Wipe!VerifyEntry
  <1>4. \/ /\ UNCHANGED loud
           /\ entry' = IF keychain /\ entry # Survivor THEN Wipe!None ELSE entry
        \/ loud' = TRUE /\ UNCHANGED entry
    BY <1>2 DEF Wipe!VerifyEntry
  <1>5. /\ file \in Place /\ file' \in Place /\ at # "over" /\ at' # "over" /\ loud' \in BOOLEAN
        /\ entry \in Place \ {Wipe!Damaged} /\ entry' \in Place \ {Wipe!Damaged}
    <2>1. Wipe!None \in Place \ {Wipe!Damaged}
      BY Shapes
    <2> QED BY <1>0, <1>1, <1>4, <2>1 DEF WipeTypes
  <1>6. /\ file' = Survivor \/ (file' = Wipe!None /\ keychain' /\ entry' = Survivor)
        /\ ~keychain' => entry' = Wipe!None
        /\ ~loud' => entry' \in {Wipe!None, Survivor}
    BY <1>0, <1>2, <1>4
  <1>7. "fresh" \in Wipe!Loaded'
    <2>1. CASE UNCHANGED entry BY <1>0, <1>2, <2>1, SameLoad
    <2>2. CASE entry' = Wipe!None BY <1>5, <1>6, <2>2, LoadedNext, Shapes
    <2> QED BY <1>4, <2>1, <2>2
  <1>8. WipeTypes'
    BY <1>0, <1>1, <1>3, <1>5 DEF WipeTypes
  <1>9. Saving'
    BY <1>0, <1>2, <1>6, <1>7 DEF Saving
  <1> QED BY <1>0, <1>6, <1>8, <1>9, SavingGoesOn

LEMMA RetireMarkersStep ==
  ASSUME WipeConstants, WipeInv, Wipe!RetireMarkers
  PROVE  WipeInv'
  <1>0. /\ at = "retire markers" /\ at' = "over" /\ at \in Keeps
        /\ UNCHANGED <<keychain, file, entry, current, wasFresh>>
    BY DEF Wipe!RetireMarkers, Keeps
  <1>1. WipeTypes /\ Found /\ Saving
    BY DEF WipeInv
  <1>2. /\ "fresh" \in Wipe!Loaded /\ Wipe!Holding(current) = Survivor
        /\ file = Survivor \/ (file = Wipe!None /\ keychain /\ entry = Survivor)
        /\ ~loud => entry \in {Wipe!None, Survivor}
        /\ ~keychain => entry = Wipe!None
    BY <1>0, <1>1 DEF Saving, Found, Survivor
  <1>3. faults' \in 0 .. MaxFaults
    BY <1>1, FaultCounted DEF WipeTypes, Wipe!RetireMarkers
  <1>4. CASE UNCHANGED markers /\ loud' = TRUE
    BY <1>0, <1>3, <1>4, ClearGivesUp
  <1>5. CASE /\ UNCHANGED loud
             /\ \E n \in Nat : markers' = [i \in 1 .. n |-> Survivor]
    <2>1. \A i \in DOMAIN markers' : markers'[i] = Survivor
      BY <1>5
    <2>2. file \in Place /\ entry \in Place \ {Wipe!Damaged}
      BY <1>1 DEF WipeTypes
    <2>3. WipeTypes'
      BY <1>0, <1>1, <1>3, <1>5, <2>1, Shapes DEF WipeTypes
    <2>4. "fresh" \in Wipe!Loaded'
      BY <1>0, <1>2, <2>2, LoadedIs, LoadedNext, Shapes
    <2>5. Wipe!FreshKept'
      BY <2>4 DEF Wipe!FreshKept
    <2>6. Wipe!WipeIsWhole'
      <3>1. SUFFICES ASSUME ~loud, NEW c \in Wipe!Places' PROVE "old" \notin c.has
        BY <1>5 DEF Wipe!WipeIsWhole
      <3>2. c \in {file, entry, Survivor}
        BY <1>0, <2>1, <3>1 DEF Wipe!Places
      <3> QED BY <1>2, <3>1, <3>2, Shapes
    <2> QED BY <1>0, <1>2, <2>3, <2>5, <2>6, ClearEnds
  <1>6. Len(SelectSeq(markers, LAMBDA m : m = Wipe!Holding(current))) \in Nat
    <2>1. markers \in Seq(Place)
      BY <1>0, <1>1 DEF WipeTypes
    <2> QED BY <2>1
  <1> QED BY <1>2, <1>4, <1>5, <1>6 DEF Wipe!RetireMarkers
LEMMA UnlinkFileStep ==
  ASSUME WipeConstants, WipeInv, Wipe!UnlinkFile
  PROVE  WipeInv'
  <1>0. /\ at = "unlink file" /\ at \in Clears
        /\ UNCHANGED <<keychain, entry, markers, current, wasFresh>>
    BY DEF Wipe!UnlinkFile, Clears
  <1>1. WipeTypes /\ Found
    BY DEF WipeInv
  <1>2. faults' \in 0 .. MaxFaults
    BY <1>1, FaultCounted DEF WipeTypes, Wipe!UnlinkFile
  <1>3. CASE at' = "over" /\ loud' = TRUE /\ UNCHANGED file
    BY <1>0, <1>2, <1>3, ClearGivesUp
  <1>4. CASE /\ file' = Wipe!None /\ UNCHANGED loud
             /\ at' = IF keychain THEN "delete entry" ELSE "unlink markers"
    <2>1. at' \in Clears /\ at' # "over" /\ at # "over"
      BY <1>0, <1>4 DEF Clears
    <2>2. WipeTypes'
      BY <1>0, <1>1, <1>2, <1>4, <2>1, Shapes DEF WipeTypes
    <2>3. ~wasFresh' /\ (~keychain' => entry' = Wipe!None)
      BY <1>0, <1>1 DEF Found
    <2>4. at' = "unlink markers" => entry' = Wipe!None
      BY <1>0, <1>4, <2>3
    <2> QED BY <1>4, <2>1, <2>2, <2>3, <2>4, ClearGoesOn
  <1> QED BY <1>3, <1>4 DEF Wipe!UnlinkFile

LEMMA DeleteEntryStep ==
  ASSUME WipeConstants, WipeInv, Wipe!DeleteEntry
  PROVE  WipeInv'
  <1>0. /\ at = "delete entry" /\ at \in Clears /\ at' = "unlink markers"
        /\ UNCHANGED <<keychain, file, markers, current, wasFresh>>
    BY DEF Wipe!DeleteEntry, Clears
  <1>1. WipeTypes /\ Found
    BY DEF WipeInv
  <1>2. faults' \in 0 .. MaxFaults
    BY <1>1, FaultCounted DEF WipeTypes, Wipe!DeleteEntry
  <1>3. \/ entry' = Wipe!None /\ UNCHANGED loud
        \/ UNCHANGED entry /\ loud' = TRUE
    BY DEF Wipe!DeleteEntry
  <1>4. at' \in Clears /\ at' # "over" /\ at # "over"
    BY <1>0 DEF Clears
  <1>5. entry' \in Place \ {Wipe!Damaged} /\ loud' \in BOOLEAN
    <2>1. Wipe!None \in Place \ {Wipe!Damaged}
      BY Shapes
    <2> QED BY <1>1, <1>3, <2>1 DEF WipeTypes
  <1>6. WipeTypes'
    BY <1>0, <1>1, <1>2, <1>4, <1>5 DEF WipeTypes
  <1>7. ~wasFresh' /\ (~keychain' => entry' = Wipe!None) /\ file' = Wipe!None
    BY <1>0, <1>1, <1>3 DEF Found
  <1>8. ~loud' => entry' = Wipe!None
    BY <1>3
  <1> QED BY <1>4, <1>6, <1>7, <1>8, ClearGoesOn

LEMMA UnlinkMarkersStep ==
  ASSUME WipeConstants, WipeInv, Wipe!UnlinkMarkers
  PROVE  WipeInv'
  <1>0. /\ at = "unlink markers" /\ at \in Clears /\ at' = "over"
        /\ UNCHANGED <<keychain, file, entry, current, wasFresh>>
    BY DEF Wipe!UnlinkMarkers, Clears
  <1>1. WipeTypes /\ Found
    BY DEF WipeInv
  <1>2. faults' \in 0 .. MaxFaults
    BY <1>1, FaultCounted DEF WipeTypes, Wipe!UnlinkMarkers
  <1>3. CASE UNCHANGED markers /\ loud' = TRUE
    BY <1>0, <1>2, <1>3, ClearGivesUp
  <1>4. CASE markers' = <<>> /\ UNCHANGED loud
    <2>1. DOMAIN markers' = {}
      BY <1>4
    <2>2. WipeTypes'
      BY <1>0, <1>1, <1>2, <1>4, <2>1 DEF WipeTypes
    <2>3. ~wasFresh' /\ (~keychain' => entry' = Wipe!None)
      BY <1>0, <1>1 DEF Found
    <2>4. ~loud' => file' = Wipe!None /\ entry' = Wipe!None
      BY <1>0, <1>1, <1>4 DEF Found
    <2>5. Wipe!WipeIsWhole'
      <3>1. SUFFICES ASSUME ~loud', NEW c \in Wipe!Places' PROVE "old" \notin c.has
        BY DEF Wipe!WipeIsWhole
      <3>2. c = Wipe!None
        BY <2>1, <2>4, <3>1 DEF Wipe!Places
      <3> QED BY <3>2, Shapes
    <2> QED BY <1>0, <2>2, <2>3, <2>5, ClearEnds DEF Wipe!FreshKept
  <1> QED BY <1>3, <1>4 DEF Wipe!UnlinkMarkers

LEMMA WipeSteps ==
  ASSUME WipeConstants, WipeInv, [Wipe!Next]_(Wipe!vars)
  PROVE  WipeInv'
  <1>1. CASE Wipe!Load BY <1>1, LoadStep
  <1>2. CASE Wipe!RetireFile BY <1>2, RetireFileStep
  <1>3. CASE Wipe!WriteEntry BY <1>3, WriteEntryStep
  <1>4. CASE Wipe!SyncMarkers BY <1>4, SyncMarkersStep
  <1>5. CASE Wipe!WriteFile BY <1>5, WriteFileStep
  <1>6. CASE Wipe!DropEntry BY <1>6, DropEntryStep
  <1>7. CASE Wipe!VerifyEntry BY <1>7, VerifyEntryStep
  <1>8. CASE Wipe!RetireMarkers BY <1>8, RetireMarkersStep
  <1>9. CASE Wipe!UnlinkFile BY <1>9, UnlinkFileStep
  <1>10. CASE Wipe!DeleteEntry BY <1>10, DeleteEntryStep
  <1>11. CASE Wipe!UnlinkMarkers BY <1>11, UnlinkMarkersStep
  <1>12. CASE Wipe!Crash
    <2>1. faults' \in 0 .. MaxFaults
      BY <1>12, FaultCounted DEF WipeInv, WipeTypes, Wipe!Crash
    <2> QED BY <1>12, <2>1, ClearGivesUp DEF Wipe!Crash
  <1>13. CASE UNCHANGED Wipe!vars
    <2>1. UNCHANGED <<keychain, file, entry, markers, at, current, faults, loud, wasFresh>>
      BY <1>13 DEF Wipe!vars
    <2>2. Wipe!Loaded' = Wipe!Loaded
      BY <2>1, SameLoad
    <2>3. WipeTypes' /\ Found' /\ Saving'
      BY <2>1, <2>2 DEF WipeInv, WipeTypes, Found, Saving
    <2>4. Wipe!FreshKept'
      BY <2>1, <2>2 DEF WipeInv, Wipe!FreshKept
    <2>5. Wipe!WipeIsWhole'
      BY <2>1 DEF WipeInv, Wipe!WipeIsWhole, Wipe!Places
    <2> QED BY <2>3, <2>4, <2>5 DEF WipeInv
  <1> QED BY <1>1, <1>2, <1>3, <1>4, <1>5, <1>6, <1>7, <1>8, <1>9, <1>10, <1>11, <1>12, <1>13
    DEF Wipe!Next

(***************************************************************************)
(* A clear that keeps what was flagged after it was decided: whatever step *)
(* fails and wherever it dies, unless the keychain or a marker cannot be   *)
(* read, a record flagged since is there for every later load; a clear     *)
(* without a complaint leaves no earlier one anywhere                      *)
(* (clearFlaggedAccounts with keepFlaggedAtOrAfter).                       *)
(***************************************************************************)
THEOREM WipesStaySafe ==
  ASSUME WipeConstants
  PROVE  Wipe!Spec => [](Wipe!TypeOK /\ Wipe!FlaggedSafe)
  <1>1. Wipe!Init => WipeInv
    BY WipeStarts
  <1>2. WipeInv /\ [Wipe!Next]_(Wipe!vars) => WipeInv'
    BY WipeSteps
  <1>3. ASSUME WipeInv
        PROVE  Wipe!TypeOK /\ Wipe!FlaggedSafe
    <2>1. Wipe!Places \subseteq Place
      BY <1>3 DEF WipeInv, WipeTypes, Wipe!Places
    <2>2. Wipe!TypeOK
      BY <1>3, <2>1 DEF WipeInv, WipeTypes, Place, Wipe!TypeOK
    <2> QED BY <1>3, <2>2 DEF WipeInv, Wipe!FlaggedSafe
  <1> QED BY <1>1, <1>2, <1>3, PTL DEF Wipe!Spec

(***************************************************************************)
(* The store of the account pool, or of the flagged records.  What a load  *)
(* starting now finds first is current, which every step of a save, a      *)
(* clear or a rollback keeps so (Kept); each load under way has been told  *)
(* of what it may find (Reader), and who writes has the lease (Holder) and *)
(* knows where the pieces are (Writer, Mover).                             *)
(***************************************************************************)
Store == INSTANCE AccountStore

\* A rename or a write may fail, a backend refuse, and anyone die, any number of times.
\* Left to the model checker: files of an older version, which loads migrate; backends
\* and markers that cannot be read, rewritten or deleted; clears after a refused write;
\* and loads, clears and refused writes beside a rollback.
StoreWorld(w) ==
  /\ w.store \in {"accounts", "flagged"} /\ w.format \in {"none", "current"}
  /\ w.keychain \in BOOLEAN
  /\ w.does \subseteq Store!Kinds /\ w.fails \subseteq {"crash", "rename", "write", "refused"}
  /\ "refused" \in w.fails => w.does \subseteq {"load", "transaction"}
  /\ "rollback" \in w.does => w.does \subseteq {"transaction", "rollback"}

StoreConstants ==
  /\ NoProc \notin Procs /\ Retention \in Nat \ {0}
  /\ \A w \in Worlds : StoreWorld(w)

-----------------------------------------------------------------------------
Reads == {"read entry", "read file", "read markers", "read legacy"}
Writes ==
  {"retire file", "write entry", "sync markers", "write file", "write file, drop entry",
   "drop entry"}
Unlinks == {"unlink file", "clear entry", "clear markers"}
Moves == {"choose marker", "archive file", "promote marker"}

StoreOp ==
  [kind : {"none"} \cup Store!Kinds,
   at : {"idle", "loaded", "done"} \cup Reads \cup Writes \cup Unlinks \cup Moves,
   value : Nat, marker : Nat, window : SUBSET Nat]

Marker == [name : Nat \ {0}, holds : Nat \ {0}]

\* The places are of their types ...
PlaceTypes ==
  /\ world \in Worlds /\ legacy = 0 /\ old = FALSE
  /\ made \in Nat /\ file \in 0 .. made /\ entry \in 0 .. made /\ current \subseteq 0 .. made
  /\ retired \in Nat /\ markers \in Seq(Marker) /\ Len(markers) <= Retention
  /\ \A i \in DOMAIN markers : markers[i].name <= retired /\ markers[i].holds <= made
  /\ lease \in Procs \cup {NoProc}

\* ... and so are the processes.
StoreTypes ==
  /\ PlaceTypes /\ op \in [Procs -> StoreOp]
  /\ \A p \in Procs : op[p].value <= made /\ op[p].window \subseteq 0 .. made

\* What a load from here on finds first is current.
Kept ==
  /\ entry # 0 => entry \in current
  /\ file # 0 => file \in current
  /\ file = 0 /\ markers # <<>> => markers[1].holds \in current
  /\ entry = 0 /\ file = 0 /\ markers = <<>> => 0 \in current
  /\ ~world.keychain => entry = 0 /\ markers = <<>>
  /\ "clear" \in world.does /\ file # 0 => markers = <<>>

\* A load may return what it will find, however far it is.
Reader(p) ==
  /\ op[p].at \in Reads \cup {"loaded"} => op[p].kind \in {"load", "transaction"}
  /\ op[p].at \in Reads => current \subseteq op[p].window
  /\ op[p].at = "read file" /\ file = 0 /\ markers = <<>> => 0 \in op[p].window
  /\ op[p].at = "read markers" =>
       IF markers = <<>> THEN 0 \in op[p].window ELSE markers[1].holds \in op[p].window
  /\ op[p].at = "read legacy" => 0 \in op[p].window
  /\ op[p].at = "loaded" /\ op[p].window # {} => op[p].value \in op[p].window

\* Who writes has the lease.
Holder(p) ==
  /\ op[p].kind \in {"transaction", "clear"} => lease = p
  /\ op[p].at \in Writes \cup Unlinks \cup {"promote marker"} => lease = p
  /\ lease = p => op[p].at # "idle"
  /\ op[p].at # "idle" => op[p].kind \in world.does
  /\ op[p].at \in Unlinks => op[p].kind = "clear"
  /\ op[p].at \in Moves => op[p].kind = "rollback"

\* Where the pieces are before each step of a save or a clear.
Writer(p) ==
  /\ op[p].at \in Writes =>
       /\ op[p].window = {} /\ op[p].value # 0 /\ op[p].value \in current
       /\ op[p].at = "write file" <=> ~world.keychain
  /\ op[p].at = "write file, drop entry" => "refused" \in world.fails
  /\ op[p].at \in {"write entry", "sync markers"} => file \in {0, op[p].value}
  /\ op[p].at = "sync markers" => entry = op[p].value
  /\ op[p].at = "drop entry" => file = op[p].value
  /\ op[p].at \in {"clear entry", "clear markers"} => file = 0 /\ 0 \in current
  /\ op[p].at = "clear entry" => world.keychain
  /\ op[p].at = "clear markers" => entry = 0

\* And of a rollback.
Mover(p) ==
  /\ op[p].at \in Moves => op[p].window = {}
  /\ op[p].at = "archive file" =>
       /\ world.keychain /\ (world.store = "flagged" => lease = p)
       /\ file # 0 => markers # <<>> /\ markers[1].name = op[p].marker
  /\ op[p].at = "promote marker" =>
       /\ world.keychain /\ file = 0 /\ (op[p].value # 0 => op[p].value \in current)
       /\ \A i \in DOMAIN markers :
            markers[i].name = op[p].marker => markers[i].holds \in current

OneRollback ==
  \A p, q \in Procs : op[p].kind = "rollback" /\ op[q].kind = "rollback" => p = q

StoreInv ==
  /\ StoreTypes /\ Kept /\ OneRollback
  /\ \A p \in Procs : Reader(p) /\ Holder(p) /\ Writer(p) /\ Mover(p)

-----------------------------------------------------------------------------
\* Every world of the theorem starts so.
LEMMA StoreStarts ==
  ASSUME StoreConstants, Store!Init
  PROVE  StoreInv
  <1>0. world \in Worlds /\ StoreWorld(world)
    BY DEF StoreConstants, Store!Init
  <1>1. /\ file = (IF world.format = "current" THEN 1 ELSE 0) /\ legacy = 0 /\ old = FALSE
        /\ made = file /\ current = {file} /\ entry = 0 /\ markers = <<>> /\ retired = 0
        /\ lease = NoProc
    <2>1. world.format \in {"none", "current"}
      BY <1>0 DEF StoreWorld
    <2>2. /\ file = IF world.format \in {"current", "old"} THEN 1 ELSE 0
          /\ legacy = IF world.format = "legacy" THEN 1 ELSE 0
          /\ old = (world.format = "old") /\ made = file + legacy /\ current = {made}
          /\ entry = 0 /\ markers = <<>> /\ retired = 0 /\ lease = NoProc
      BY DEF Store!Init
    <2>3. file = (IF world.format = "current" THEN 1 ELSE 0) /\ legacy = 0 /\ old = FALSE
      BY <2>1, <2>2
    <2> QED BY <2>2, <2>3
  <1>2. op = [p \in Procs |-> Store!Idle] /\ Store!Idle \in StoreOp
    BY DEF Store!Init, Store!Idle, StoreOp
  <1>3. \A p \in Procs : op[p].at = "idle" /\ op[p].kind = "none" /\ op[p].value = 0 /\ op[p].window = {}
    BY <1>2 DEF Store!Idle
  <1>4. StoreTypes
    BY <1>0, <1>1, <1>2, <1>3 DEF StoreTypes, PlaceTypes, StoreConstants
  <1>5. Kept
    BY <1>1 DEF Kept
  <1>6. OneRollback
    BY <1>3 DEF OneRollback
  <1>7. ASSUME NEW p \in Procs
        PROVE  Reader(p) /\ Holder(p) /\ Writer(p) /\ Mover(p)
    <2>1. lease # p
      BY <1>1 DEF StoreConstants
    <2> QED BY <1>3, <2>1 DEF Reader, Holder, Writer, Mover, Reads, Writes, Unlinks, Moves
  <1> QED BY <1>4, <1>5, <1>6, <1>7 DEF StoreInv

\* One step of one process that leaves the places alone.
LEMMA PlacesStay ==
  ASSUME StoreInv, NEW p \in Procs,
         UNCHANGED <<world, file, old, legacy, entry, markers, retired, current, made>>,
         op' \in [Procs -> StoreOp], \A q \in Procs \ {p} : op'[q] = op[q],
         lease' \in Procs \cup {NoProc}, \A q \in Procs \ {p} : lease = q <=> lease' = q,
         op'[p].value <= made, op'[p].window \subseteq 0 .. made,
         op'[p].kind = "rollback" =>
           op[p].kind = "rollback" \/ \A q \in Procs : op[q].kind # "rollback",
         Reader(p)', Holder(p)', Writer(p)', Mover(p)'
  PROVE  StoreInv'
  <1>1. StoreTypes'
    BY DEF StoreInv, StoreTypes, PlaceTypes
  <1>2. Kept' /\ OneRollback'
    BY DEF StoreInv, Kept, OneRollback
  <1>3. ASSUME NEW q \in Procs \ {p}
        PROVE  Reader(q)' /\ Holder(q)' /\ Writer(q)' /\ Mover(q)'
    <2>1. op'[q] = op[q] /\ (lease = q <=> lease' = q)
      OBVIOUS
    <2>2. Reader(q) /\ Holder(q) /\ Writer(q) /\ Mover(q)
      BY DEF StoreInv
    <2>3. Reader(q)' /\ Holder(q)'
      BY <2>1, <2>2 DEF Reader, Holder
    <2>4. Writer(q)' /\ Mover(q)'
      BY <2>1, <2>2 DEF Writer, Mover
    <2> QED BY <2>3, <2>4
  <1> QED BY <1>1, <1>2, <1>3 DEF StoreInv

Steps == {"idle", "loaded", "done"} \cup Reads \cup Writes \cup Unlinks \cup Moves

\* What a process is at, changed in one field, or in two.
LEMMA GoesTo ==
  ASSUME StoreTypes, NEW p \in Procs, NEW step \in Steps, Store!Goto(p, step)
  PROVE  /\ op' \in [Procs -> StoreOp] /\ \A q \in Procs \ {p} : op'[q] = op[q]
         /\ op'[p].at = step /\ op'[p].kind = op[p].kind /\ op'[p].value = op[p].value
         /\ op'[p].marker = op[p].marker /\ op'[p].window = op[p].window
  <1>1. op[p] \in StoreOp /\ op \in [Procs -> StoreOp]
    BY DEF StoreTypes, PlaceTypes
  <1> DEFINE r == [op[p] EXCEPT !.at = step]
  <1>2. /\ r \in StoreOp
        /\ r.at = step /\ r.kind = op[p].kind /\ r.value = op[p].value
        /\ r.marker = op[p].marker /\ r.window = op[p].window
    BY <1>1 DEF StoreOp, Steps
  <1>3. op' = [op EXCEPT ![p] = r]
    BY <1>1 DEF Store!Goto
  <1> HIDE DEF r
  <1> QED BY <1>1, <1>2, <1>3

\* A load moves on with what it read.
LEMMA ReadsIt ==
  ASSUME StoreTypes, NEW p \in Procs, NEW step \in Steps, NEW v \in Nat, Store!Read(p, v, step)
  PROVE  /\ op' \in [Procs -> StoreOp] /\ \A q \in Procs \ {p} : op'[q] = op[q]
         /\ op'[p].at = step /\ op'[p].kind = op[p].kind /\ op'[p].value = v
         /\ op'[p].marker = op[p].marker /\ op'[p].window = op[p].window
  <1>1. op[p] \in StoreOp /\ op \in [Procs -> StoreOp]
    BY DEF StoreTypes, PlaceTypes
  <1> DEFINE r == [op[p] EXCEPT !.value = v, !.at = step]
  <1>2. /\ r \in StoreOp
        /\ r.at = step /\ r.kind = op[p].kind /\ r.value = v
        /\ r.marker = op[p].marker /\ r.window = op[p].window
    BY <1>1 DEF StoreOp, Steps
  <1>3. op' = [op EXCEPT ![p] = r]
    BY <1>1 DEF Store!Read
  <1> HIDE DEF r
  <1> QED BY <1>1, <1>2, <1>3

\* An operation ends: returned, abandoned, done, or with its process.
LEMMA Finishes ==
  ASSUME StoreConstants, StoreInv, NEW p \in Procs, Store!Finish(p),
         UNCHANGED <<world, file, old, legacy, entry, markers, retired, current, made>>
  PROVE  StoreInv'
  <1>1. StoreTypes /\ NoProc \notin Procs
    BY DEF StoreInv, StoreConstants
  <1>2. Store!Idle \in StoreOp
    BY DEF Store!Idle, StoreOp
  <1>3. /\ op' \in [Procs -> StoreOp] /\ op'[p] = Store!Idle
        /\ \A q \in Procs \ {p} : op'[q] = op[q]
    BY <1>1, <1>2 DEF Store!Finish, StoreTypes, PlaceTypes
  <1>4. op'[p].at = "idle" /\ op'[p].kind = "none" /\ op'[p].value = 0 /\ op'[p].window = {}
    BY <1>3 DEF Store!Idle
  <1>5. /\ lease' \in Procs \cup {NoProc} /\ lease' # p
        /\ \A q \in Procs \ {p} : lease = q <=> lease' = q
    BY <1>1 DEF Store!Finish, StoreTypes, PlaceTypes
  <1>6. Reader(p)' /\ Holder(p)' /\ Writer(p)' /\ Mover(p)'
    BY <1>4, <1>5 DEF Reader, Holder, Writer, Mover, Reads, Writes, Unlinks, Moves
  <1>7. op'[p].value <= made /\ op'[p].window \subseteq 0 .. made
    BY <1>1, <1>4 DEF StoreTypes, PlaceTypes
  <1> QED BY <1>3, <1>4, <1>5, <1>6, <1>7, PlacesStay

\* An operation begins, with a read of what is current, or past the reads.
LEMMA BeginsIt ==
  ASSUME StoreTypes, NEW p \in Procs, NEW kind \in Store!Kinds, NEW step \in Steps,
         Store!Begins(p, kind, step)
  PROVE  /\ op' \in [Procs -> StoreOp] /\ \A q \in Procs \ {p} : op'[q] = op[q]
         /\ op'[p].at = step /\ op'[p].kind = kind /\ op'[p].value = 0
         /\ op'[p].window = IF step = Store!FirstRead THEN current ELSE {}
         /\ op[p].at = "idle" /\ kind \in world.does
  <1> DEFINE r == [Store!Idle EXCEPT !.kind = kind, !.at = step,
                     !.window = IF step = Store!FirstRead THEN current ELSE {}]
  <1>1. op \in [Procs -> StoreOp] /\ current \subseteq Nat
    BY DEF StoreTypes, PlaceTypes
  <1>2. /\ r \in StoreOp /\ r.at = step /\ r.kind = kind /\ r.value = 0
        /\ r.window = IF step = Store!FirstRead THEN current ELSE {}
    BY <1>1 DEF StoreOp, Steps, Store!Idle
  <1>3. op' = [op EXCEPT ![p] = r]
    BY DEF Store!Begins
  <1> HIDE DEF r
  <1>4. op[p].at = "idle" /\ kind \in world.does
    BY DEF Store!Begins, Store!At
  <1> QED BY <1>1, <1>2, <1>3, <1>4

\* Whatever begins finds what is current.
LEMMA BeginSteps ==
  ASSUME StoreConstants, StoreInv, NEW p \in Procs, Store!Begin(p)
  PROVE  StoreInv'
  <1>1. StoreTypes /\ Kept /\ OneRollback /\ NoProc \notin Procs
    BY DEF StoreInv, StoreConstants
  <1>2. op[p].at = "idle" /\ lease # p
    <2>1. op[p].at = "idle"
      BY DEF Store!Begin, Store!BeginLoad, Store!BeginTransaction, Store!BeginClear,
             Store!BeginRollback, Store!Begins, Store!At
    <2> QED BY <2>1 DEF StoreInv, Holder
  <1>3. Store!FirstRead \in {"read entry", "read file"} /\ Store!FirstRead \in Steps
        /\ (Store!FirstRead = "read file" => ~world.keychain)
    BY DEF Store!FirstRead, Steps, Reads
  <1>4. UNCHANGED <<world, file, old, legacy, entry, markers, retired, current, made>>
    BY DEF Store!Begin, Store!BeginLoad, Store!BeginTransaction, Store!BeginClear,
           Store!BeginRollback, Store!places
  <1>5. ASSUME NEW kind \in {"load", "transaction"}, Store!Begins(p, kind, Store!FirstRead),
               lease' = IF kind = "load" THEN lease ELSE p,
               kind = "transaction" => lease = NoProc
        PROVE  StoreInv'
    <2>0. kind \in Store!Kinds /\ Store!FirstRead \in Steps
      BY <1>3 DEF Store!Kinds
    <2>1. /\ op' \in [Procs -> StoreOp] /\ \A q \in Procs \ {p} : op'[q] = op[q]
          /\ op'[p].at = Store!FirstRead /\ op'[p].kind = kind /\ op'[p].value = 0
          /\ op'[p].window = current /\ kind \in world.does
      BY <1>1, <1>5, <2>0, BeginsIt
    <2>2. current \subseteq 0 .. made /\ 0 <= made
      BY <1>1 DEF StoreTypes, PlaceTypes
    <2>3. Reader(p)'
      BY <1>1, <1>3, <1>4, <2>1 DEF Reader, Reads, Kept
    <2>4. Holder(p)'
      BY <1>2, <1>3, <1>4, <1>5, <2>1 DEF Holder, Writes, Unlinks, Moves
    <2>5. Writer(p)' /\ Mover(p)'
      BY <1>3, <2>1 DEF Writer, Mover, Writes, Moves
    <2>6. lease' \in Procs \cup {NoProc} /\ \A q \in Procs \ {p} : lease = q <=> lease' = q
      BY <1>1, <1>5 DEF StoreTypes, PlaceTypes
    <2> QED BY <1>4, <2>1, <2>2, <2>3, <2>4, <2>5, <2>6, PlacesStay
  <1>6. ASSUME Store!BeginClear(p)
        PROVE  StoreInv'
    <2>1. /\ op' \in [Procs -> StoreOp] /\ \A q \in Procs \ {p} : op'[q] = op[q]
          /\ op'[p].at = "unlink file" /\ op'[p].kind = "clear" /\ op'[p].value = 0
          /\ op'[p].window = {} /\ "clear" \in world.does
      BY <1>1, <1>3, <1>6, BeginsIt DEF Store!Kinds, Store!BeginClear, Steps, Unlinks
    <2>2. lease = NoProc /\ lease' = p
      BY <1>6 DEF Store!BeginClear, Store!Locks
    <2>3. Reader(p)' /\ Holder(p)' /\ Writer(p)' /\ Mover(p)'
      BY <1>4, <2>1, <2>2 DEF Reader, Holder, Writer, Mover, Reads, Writes, Unlinks, Moves
    <2>4. 0 <= made
      BY <1>1 DEF StoreTypes, PlaceTypes
    <2> QED BY <1>1, <1>4, <2>1, <2>2, <2>3, <2>4, PlacesStay
  <1>7. ASSUME Store!BeginRollback(p)
        PROVE  StoreInv'
    <2>1. /\ op' \in [Procs -> StoreOp] /\ \A q \in Procs \ {p} : op'[q] = op[q]
          /\ op'[p].at = "choose marker" /\ op'[p].kind = "rollback" /\ op'[p].value = 0
          /\ op'[p].window = {} /\ "rollback" \in world.does
      BY <1>1, <1>3, <1>7, BeginsIt DEF Store!Kinds, Store!BeginRollback, Steps, Moves
    <2>2. lease' = lease /\ \A q \in Procs : op[q].kind # "rollback"
      BY <1>7 DEF Store!BeginRollback
    <2>3. Reader(p)' /\ Holder(p)' /\ Writer(p)' /\ Mover(p)'
      BY <1>2, <1>4, <2>1, <2>2 DEF Reader, Holder, Writer, Mover, Reads, Writes, Unlinks, Moves
    <2>4. 0 <= made /\ lease \in Procs \cup {NoProc}
      BY <1>1 DEF StoreTypes, PlaceTypes
    <2> QED BY <1>1, <1>4, <2>1, <2>2, <2>3, <2>4, PlacesStay
  <1>8. CASE Store!BeginLoad(p) BY <1>8, <1>5 DEF Store!BeginLoad
  <1>9. CASE Store!BeginTransaction(p)
    BY <1>9, <1>5 DEF Store!BeginTransaction, Store!Locks
  <1> QED BY <1>6, <1>7, <1>8, <1>9 DEF Store!Begin

\* A load looks at one place after another.
LEMMA LoadSteps ==
  ASSUME StoreConstants, StoreInv, NEW p \in Procs,
         Store!ReadEntry(p) \/ Store!ReadFile(p) \/ Store!ReadMarkers(p) \/ Store!ReadLegacy(p)
  PROVE  StoreInv'
  <1>1. /\ StoreTypes /\ Kept /\ OneRollback /\ Reader(p) /\ Holder(p)
        /\ UNCHANGED <<world, file, old, legacy, entry, markers, retired, lease, current, made>>
    BY DEF StoreInv, Store!ReadEntry, Store!ReadFile, Store!ReadMarkers, Store!ReadLegacy, Store!places
  <1>2. /\ made \in Nat /\ file \in 0 .. made /\ entry \in 0 .. made
        /\ op[p].value <= made /\ op[p].window \subseteq 0 .. made
        /\ lease \in Procs \cup {NoProc} /\ old = FALSE /\ legacy = 0
    BY <1>1 DEF StoreTypes, PlaceTypes
  <1>2a. markers # <<>> => Head(markers).holds \in 0 .. made /\ Head(markers) = markers[1]
    <2>1. markers \in Seq(Marker) /\ \A i \in DOMAIN markers : markers[i].holds <= made
      BY <1>1 DEF StoreTypes, PlaceTypes
    <2>2. markers # <<>> => 1 \in DOMAIN markers /\ markers[1] \in Marker /\ Head(markers) = markers[1]
      BY <2>1
    <2> QED BY <1>2, <2>1, <2>2 DEF Marker
  <1>3. ~Store!Fault("locked")
    <2>1. StoreWorld(world)
      BY <1>1 DEF StoreTypes, PlaceTypes, StoreConstants
    <2> QED BY <2>1 DEF StoreWorld, Store!Fault
  <1>4. op[p].at \in Reads
    BY DEF Store!ReadEntry, Store!ReadFile, Store!ReadMarkers, Store!ReadLegacy, Store!At, Reads
  \* It goes on to look elsewhere ...
  <1>5. ASSUME NEW step \in {"read file", "read markers", "read legacy"}, Store!Goto(p, step),
               step = "read file" /\ file = 0 /\ markers = <<>> => 0 \in op[p].window,
               step = "read markers" =>
                 IF markers = <<>> THEN 0 \in op[p].window ELSE markers[1].holds \in op[p].window,
               step = "read legacy" => 0 \in op[p].window
        PROVE  StoreInv'
    <2>0. step \in Steps /\ step \in Reads
      BY DEF Steps, Reads
    <2>1. /\ op' \in [Procs -> StoreOp] /\ \A q \in Procs \ {p} : op'[q] = op[q]
          /\ op'[p].at = step /\ op'[p].kind = op[p].kind /\ op'[p].value = op[p].value
          /\ op'[p].window = op[p].window
      BY <1>1, <1>5, <2>0, GoesTo
    <2>2. Reader(p)'
      BY <1>1, <1>4, <1>5, <2>0, <2>1 DEF Reader
    <2>3. Holder(p)'
      BY <1>1, <1>4, <1>5, <2>1 DEF Holder, Reads, Writes, Unlinks, Moves
    <2>4. Writer(p)' /\ Mover(p)'
      BY <1>5, <2>1 DEF Writer, Mover, Writes, Moves
    <2> QED BY <1>1, <1>2, <2>1, <2>2, <2>3, <2>4, PlacesStay
  \* ... or returns what it found.
  <1>6. ASSUME NEW v \in 0 .. made, Store!Read(p, v, "loaded"), v \in op[p].window
        PROVE  StoreInv'
    <2>0. "loaded" \in Steps /\ v \in Nat
      BY <1>2 DEF Steps
    <2>1. /\ op' \in [Procs -> StoreOp] /\ \A q \in Procs \ {p} : op'[q] = op[q]
          /\ op'[p].at = "loaded" /\ op'[p].kind = op[p].kind /\ op'[p].value = v
          /\ op'[p].window = op[p].window
      BY <1>1, <1>6, <2>0, ReadsIt
    <2>2. Reader(p)'
      BY <1>1, <1>4, <1>6, <2>1 DEF Reader, Reads
    <2>3. Holder(p)'
      BY <1>1, <1>4, <2>1 DEF Holder, Reads, Writes, Unlinks, Moves
    <2>4. Writer(p)' /\ Mover(p)'
      BY <2>1 DEF Writer, Mover, Writes, Moves
    <2>5. v <= made
      BY <1>2
    <2> QED BY <1>1, <1>2, <2>1, <2>2, <2>3, <2>4, <2>5, PlacesStay
  <1>7. CASE Store!ReadEntry(p)
    <2>1. op[p].at = "read entry" /\ current \subseteq op[p].window
      BY <1>1, <1>4, <1>7 DEF Store!ReadEntry, Store!At, Reader
    <2>2. CASE entry # 0 /\ Store!Read(p, entry, "loaded")
      BY <1>1, <1>2, <1>6, <2>1, <2>2 DEF Kept
    <2>3. CASE entry = 0 /\ Store!Goto(p, "read file")
      BY <1>1, <1>5, <2>1, <2>3 DEF Kept
    <2> QED BY <1>3, <1>7, <2>2, <2>3 DEF Store!ReadEntry
  <1>8. CASE Store!ReadFile(p)
    <2>1. op[p].at = "read file" /\ current \subseteq op[p].window
      BY <1>1, <1>4, <1>8 DEF Store!ReadFile, Store!At, Reader
    <2>2. CASE file # 0
      <3>1. Store!Read(p, file, "loaded")
        BY <1>2, <1>8, <2>2 DEF Store!ReadFile
      <3> QED BY <1>1, <1>2, <1>6, <2>1, <2>2, <3>1 DEF Kept
    <2>3. CASE file = 0
      <3>1. Store!Goto(p, "read markers")
        BY <1>8, <2>3 DEF Store!ReadFile
      <3>2. IF markers = <<>> THEN 0 \in op[p].window ELSE markers[1].holds \in op[p].window
        BY <1>1, <2>1, <2>3 DEF Kept, Reader
      <3> QED BY <1>5, <3>1, <3>2
    <2> QED BY <2>2, <2>3
  <1>9. CASE Store!ReadMarkers(p)
    <2>1. IF markers = <<>> THEN 0 \in op[p].window ELSE markers[1].holds \in op[p].window
      BY <1>1, <1>9 DEF Store!ReadMarkers, Store!At, Reader
    <2>2. CASE markers = <<>> BY <1>5, <1>9, <2>1, <2>2 DEF Store!ReadMarkers
    <2>3. CASE markers # <<>>
      BY <1>2a, <1>6, <1>9, <2>1, <2>3 DEF Store!ReadMarkers
    <2> QED BY <2>2, <2>3
  <1>10. CASE Store!ReadLegacy(p)
    <2>1. 0 \in op[p].window /\ Store!Read(p, 0, "loaded")
      BY <1>1, <1>2, <1>10 DEF Store!ReadLegacy, Store!At, Reader
    <2> QED BY <1>2, <1>6, <2>1
  <1> QED BY <1>7, <1>8, <1>9, <1>10

\* The ends of operations, and the choice of a marker.
LEMMA OtherSteps ==
  ASSUME StoreConstants, StoreInv, NEW p \in Procs,
         \/ Store!Return(p) \/ Store!Abandon(p) \/ Store!Done(p) \/ Store!Crash(p)
         \/ Store!ChooseMarker(p) \/ Store!UnlinkLegacy(p)
  PROVE  StoreInv'
  <1>1. UNCHANGED <<world, file, old, legacy, entry, markers, retired, current, made>>
        \/ Store!UnlinkLegacy(p)
    BY DEF Store!Return, Store!Abandon, Store!Done, Store!Crash, Store!ChooseMarker, Store!places
  <1>2. ~Store!UnlinkLegacy(p)
    <2>2. op[p].at # "unlink legacy"
      BY DEF StoreInv, StoreTypes, StoreOp, Reads, Writes, Unlinks, Moves
    <2> QED BY <2>2 DEF Store!UnlinkLegacy, Store!At
  <1>3. CASE Store!Return(p) \/ Store!Abandon(p) \/ Store!Done(p) \/ Store!Crash(p)
    BY <1>1, <1>2, <1>3, Finishes DEF Store!Return, Store!Abandon, Store!Done, Store!Crash
  <1>4. CASE Store!ChooseMarker(p)
    <2>1. /\ StoreTypes /\ Kept /\ op[p].at = "choose marker" /\ op[p].kind = "rollback"
          /\ op[p].window = {} /\ op[p].value <= made /\ op[p].kind \in world.does
          /\ NoProc \notin Procs
      BY <1>4 DEF StoreConstants, StoreInv, StoreTypes, Holder, Mover, Moves, Store!ChooseMarker, Store!At
    <2>2. /\ lease' \in Procs \cup {NoProc} /\ \A q \in Procs \ {p} : lease = q <=> lease' = q
          /\ world.store = "flagged" => lease' = p
      <3>0. NoProc \notin Procs
        BY <2>1
      <3>1. lease \in Procs \cup {NoProc}
        BY <2>1 DEF StoreTypes, PlaceTypes
      <3>2. IF world.store = "flagged" THEN lease = NoProc /\ lease' = p ELSE lease' = lease
        BY <1>4 DEF Store!ChooseMarker, Store!Locks
      <3>3. CASE world.store = "flagged" BY <3>0, <3>1, <3>2, <3>3
      <3>4. CASE world.store # "flagged" BY <3>1, <3>2, <3>4
      <3> QED BY <3>3, <3>4
    <2>3. CASE markers = <<>>
      <3>1. /\ op' \in [Procs -> StoreOp] /\ \A q \in Procs \ {p} : op'[q] = op[q]
            /\ op'[p].at = "done" /\ op'[p].kind = "rollback" /\ op'[p].value = op[p].value
            /\ op'[p].window = {}
        <4>1. "done" \in Steps /\ Store!Goto(p, "done")
          BY <1>4, <2>3 DEF Steps, Store!ChooseMarker
        <4> QED BY <2>1, <4>1, GoesTo
      <3>2. Reader(p)' /\ Holder(p)' /\ Writer(p)' /\ Mover(p)'
        BY <1>1, <1>2, <2>1, <3>1 DEF Reader, Holder, Writer, Mover, Reads, Writes, Unlinks, Moves
      <3>3. op'[p].value <= made /\ op'[p].window \subseteq 0 .. made
        BY <2>1, <3>1
      <3> QED BY <1>1, <1>2, <2>1, <2>2, <3>1, <3>2, <3>3, PlacesStay
    <2>4. CASE markers # <<>>
      <3>1. Head(markers) = markers[1] /\ markers[1].name \in Nat
        <4>1. markers \in Seq(Marker)
          BY <2>1 DEF StoreTypes, PlaceTypes
        <4>2. 1 \in DOMAIN markers /\ markers[1] \in Marker /\ Head(markers) = markers[1]
          BY <2>4, <4>1
        <4> QED BY <4>2 DEF Marker
      <3>2. /\ op' \in [Procs -> StoreOp] /\ \A q \in Procs \ {p} : op'[q] = op[q]
            /\ op'[p].at = "archive file" /\ op'[p].kind = "rollback" /\ op'[p].value = op[p].value
            /\ op'[p].window = {} /\ op'[p].marker = markers[1].name
        <4>1. op[p] \in StoreOp /\ op \in [Procs -> StoreOp]
          BY <2>1 DEF StoreTypes
        <4> DEFINE r == [op[p] EXCEPT !.marker = markers[1].name, !.at = "archive file"]
        <4>2. /\ r \in StoreOp /\ r.at = "archive file" /\ r.kind = op[p].kind /\ r.value = op[p].value
              /\ r.window = op[p].window /\ r.marker = markers[1].name
          BY <3>1, <4>1 DEF StoreOp, Moves
        <4>3. op' = [op EXCEPT ![p] = r]
          BY <1>4, <2>4, <3>1, <4>1 DEF Store!ChooseMarker
        <4> HIDE DEF r
        <4> QED BY <2>1, <4>1, <4>2, <4>3
      <3>3. world.keychain
        BY <2>1, <2>4 DEF Kept
      <3>4. Reader(p)' /\ Holder(p)'
        BY <1>1, <1>2, <2>1, <3>2 DEF Reader, Holder, Reads, Writes, Unlinks, Moves
      <3>5. Writer(p)' /\ Mover(p)'
        BY <1>1, <1>2, <2>1, <2>2, <2>4, <3>2, <3>3 DEF Writer, Mover, Writes
      <3>6. op'[p].value <= made /\ op'[p].window \subseteq 0 .. made
        BY <2>1, <3>2
      <3> QED BY <1>1, <1>2, <2>1, <2>2, <3>2, <3>4, <3>5, <3>6, PlacesStay
    <2> QED BY <2>3, <2>4
  <1> QED BY <1>2, <1>3, <1>4

-----------------------------------------------------------------------------
\* What the others see of a step of p: a load may return what it leaves.
Watches(q) ==
  /\ op'[q].at = op[q].at /\ op'[q].kind = op[q].kind /\ op'[q].value = op[q].value
  /\ op'[q].marker = op[q].marker
  /\ op'[q].window = IF op[q].at \in Reads THEN op[q].window \cup current' ELSE op[q].window

\* Beside a rollback that has chosen its marker, a file is not made, nor the marker
\* another.
ChoiceStands(p) ==
  \/ \A q \in Procs \ {p} : op[q].at # "archive file"
  \/ file' # 0 => /\ file # 0
                  /\ markers # <<>> => markers' # <<>> /\ markers'[1].name = markers[1].name

\* Beside a load, what is no longer found gives way to what is current.
FoundIsCurrent(p) ==
  \/ \A q \in Procs \ {p} : op[q].at \notin Reads
  \/ /\ file' = 0 /\ markers' = <<>> => (file = 0 /\ markers = <<>>) \/ 0 \in current'
     /\ markers' = <<>> => markers = <<>> \/ 0 \in current'
     /\ markers' # <<>> =>
          \/ markers'[1].holds \in current'
          \/ markers # <<>> /\ markers'[1].holds = markers[1].holds

\* One step of the holder of the lease that changes the places.
LEMMA PlacesChange ==
  ASSUME StoreInv, NEW p \in Procs,
         world' = world, op' \in [Procs -> StoreOp], 0 .. made \subseteq 0 .. made',
         \A q \in Procs \ {p} : Watches(q) /\ lease # q /\ lease' # q,
         ChoiceStands(p), FoundIsCurrent(p),
         PlaceTypes', Kept', op'[p].kind = op[p].kind,
         op'[p].value <= made', op'[p].window \subseteq 0 .. made',
         Reader(p)', Holder(p)', Writer(p)', Mover(p)'
  PROVE  StoreInv'
  <1>1. StoreTypes /\ made \in Nat /\ made' \in Nat /\ current' \subseteq 0 .. made'
    BY DEF StoreInv, StoreTypes, PlaceTypes
  <1>2. ASSUME NEW q \in Procs \ {p}
        PROVE  /\ op'[q].value <= made' /\ op'[q].window \subseteq 0 .. made'
               /\ Reader(q)' /\ Holder(q)' /\ Writer(q)' /\ Mover(q)'
    <2>1. Watches(q) /\ lease # q /\ lease' # q
      OBVIOUS
    <2>2. Reader(q) /\ Holder(q) /\ Writer(q) /\ Mover(q)
      BY DEF StoreInv
    <2>3. op[q].value \in Nat /\ op[q].value <= made /\ op[q].window \subseteq 0 .. made
      BY <1>1 DEF StoreTypes, StoreOp
    <2>4. op'[q].value <= made'
      <3>1. op[q].value \in 0 .. made
        BY <1>1, <2>3
      <3>2. op[q].value \in 0 .. made' /\ op'[q].value = op[q].value
        BY <2>1, <3>1 DEF Watches
      <3> QED BY <1>1, <3>2
    <2>5. op'[q].window \subseteq 0 .. made'
      <3>1. 0 .. made \subseteq 0 .. made'
        BY <1>1
      <3>2. op'[q].window \subseteq op[q].window \cup current'
        BY <2>1 DEF Watches
      <3> QED BY <1>1, <2>3, <3>1, <3>2
    <2>6. Holder(q)'
      BY <2>1, <2>2 DEF Watches, Holder
    <2>7. /\ op[q].at \notin Writes \cup Unlinks \cup {"promote marker"}
          /\ op[q].kind \notin {"transaction", "clear"}
      BY <2>1, <2>2 DEF Holder
    <2>8. Reader(q)'
      <3>1. CASE op[q].at \in Reads
        <4>1. op'[q].at = op[q].at /\ op'[q].window = op[q].window \cup current'
              /\ op'[q].kind = op[q].kind /\ op'[q].at # "loaded"
          BY <2>1, <3>1 DEF Watches, Reads
        <4>2. /\ file' = 0 /\ markers' = <<>> => (file = 0 /\ markers = <<>>) \/ 0 \in current'
              /\ markers' = <<>> => markers = <<>> \/ 0 \in current'
              /\ markers' # <<>> =>
                   \/ markers'[1].holds \in current'
                   \/ markers # <<>> /\ markers'[1].holds = markers[1].holds
          BY <3>1 DEF FoundIsCurrent
        <4> QED BY <2>2, <3>1, <4>1, <4>2 DEF Reader
      <3>2. CASE op[q].at \notin Reads
        BY <2>1, <2>2, <3>2 DEF Watches, Reader, Reads
      <3> QED BY <3>1, <3>2
    <2>9. Writer(q)'
      BY <2>1, <2>7 DEF Watches, Writer, Writes, Unlinks
    <2>10. Mover(q)'
      <3>1. op[q].at \in Moves => op'[q].window = {}
        BY <2>1, <2>2 DEF Watches, Mover, Moves, Reads
      <3>2. op'[q].at = op[q].at /\ op'[q].marker = op[q].marker /\ op[q].at # "promote marker"
        BY <2>1, <2>7 DEF Watches
      <3>3. CASE op[q].at = "archive file"
        <4>1. file' # 0 => /\ file # 0
                           /\ markers # <<>> =>
                                markers' # <<>> /\ markers'[1].name = markers[1].name
          BY <3>3 DEF ChoiceStands
        <4> QED BY <2>1, <2>2, <3>1, <3>2, <3>3, <4>1 DEF Mover
      <3> QED BY <3>1, <3>2, <3>3 DEF Mover
    <2> QED BY <2>4, <2>5, <2>6, <2>8, <2>9, <2>10
  <1>3. StoreTypes'
    BY <1>2 DEF StoreTypes
  <1>4. OneRollback'
    <2>1. \A q \in Procs : op'[q].kind = op[q].kind
      BY DEF Watches
    <2> QED BY <2>1 DEF StoreInv, OneRollback
  <1> QED BY <1>2, <1>3, <1>4 DEF StoreInv

\* A step that tells the loads under way what they may find.
LEMMA HoldsIt ==
  ASSUME StoreTypes, NEW p \in Procs, NEW step \in Steps, NEW vs \in SUBSET Nat,
         Store!Holds(p, vs, step)
  PROVE  /\ current' = vs /\ op' \in [Procs -> StoreOp]
         /\ op'[p].at = step /\ op'[p].kind = op[p].kind /\ op'[p].value = op[p].value
         /\ op'[p].marker = op[p].marker /\ op'[p].window = op[p].window
         /\ \A q \in Procs \ {p} : Watches(q)
  <1>1. op \in [Procs -> StoreOp] /\ current' = vs
    BY DEF StoreTypes, Store!Holds
  <1>2. ASSUME NEW q \in Procs
        PROVE  [op[q] EXCEPT !.window = @ \cup vs] \in StoreOp
    <2>1. op[q] \in StoreOp
      BY <1>1
    <2> QED BY <2>1 DEF StoreOp
  <1> DEFINE r == [op[p] EXCEPT !.at = step]
  <1>3. /\ r \in StoreOp
        /\ r.at = step /\ r.kind = op[p].kind /\ r.value = op[p].value
        /\ r.marker = op[p].marker /\ r.window = op[p].window
    BY <1>1 DEF StoreOp, Steps
  <1> DEFINE n == [q \in Procs |-> IF q = p THEN r
                     ELSE IF op[q].at \in Reads THEN [op[q] EXCEPT !.window = @ \cup vs] ELSE op[q]]
  <1>4. op' = n
    BY DEF Store!Holds, Store!Loading, Reads
  <1> HIDE DEF r
  <1>5. n \in [Procs -> StoreOp]
    BY <1>1, <1>2, <1>3
  <1>6. op'[p] = r
    BY <1>4
  <1>7. ASSUME NEW q \in Procs \ {p}
        PROVE  Watches(q)
    <2>1. op[q] \in StoreOp
      BY <1>1
    <2>2. op'[q] = IF op[q].at \in Reads THEN [op[q] EXCEPT !.window = @ \cup vs] ELSE op[q]
      BY <1>4
    <2> QED BY <1>1, <2>1, <2>2 DEF Watches, StoreOp
  <1> QED BY <1>1, <1>3, <1>4, <1>5, <1>6, <1>7

\* A load that nothing new becomes current for goes on as it was.
LEMMA StillWatches ==
  ASSUME StoreInv, current' = current, NEW q \in Procs, op'[q] = op[q]
  PROVE  Watches(q)
  <1>1. op[q].at \in Reads => op[q].window \cup current' = op[q].window
    BY DEF StoreInv, Reader
  <1> QED BY <1>1 DEF Watches

LEMMA UpTo == ASSUME NEW m \in Nat, NEW n \in Nat, n <= m PROVE n \in 0 .. m
  OBVIOUS

\* Bounds of numbers, for the steps that know no more of them.
LEMMA PartsAreNumbers == ASSUME NEW m, NEW s \in SUBSET (0 .. m) PROVE s \in SUBSET Nat
  OBVIOUS

\* What the types say of the places.
LEMMA PlacesInRange ==
  ASSUME StoreConstants, PlaceTypes
  PROVE  /\ Retention \in Nat /\ made \in Nat /\ retired \in Nat /\ 0 \in 0 .. made
         /\ file \in Nat /\ file <= made /\ entry \in Nat
         /\ markers \in Seq(Marker) /\ Len(markers) \in Nat /\ Len(markers) <= Retention
         /\ \A i \in DOMAIN markers :
              /\ markers[i] \in Marker /\ markers[i] \in [name : 1 .. retired, holds : 1 .. made]
              /\ markers[i].holds # 0 /\ markers[i].holds \in Nat /\ markers[i].holds <= made
              /\ markers[i].holds \in 0 .. made /\ markers[i].name <= retired
  <1>1. /\ Retention \in Nat /\ made \in Nat /\ retired \in Nat /\ file \in 0 .. made
        /\ entry \in 0 .. made /\ markers \in Seq(Marker) /\ Len(markers) <= Retention
        /\ \A i \in DOMAIN markers : markers[i].name <= retired /\ markers[i].holds <= made
    BY DEF StoreConstants, PlaceTypes
  <1>2. 0 \in 0 .. made /\ file \in Nat /\ file <= made /\ entry \in Nat /\ Len(markers) \in Nat
    BY <1>1
  <1>3. ASSUME NEW i \in DOMAIN markers
        PROVE  /\ markers[i] \in Marker /\ markers[i] \in [name : 1 .. retired, holds : 1 .. made]
               /\ markers[i].holds # 0 /\ markers[i].holds \in Nat /\ markers[i].holds <= made
               /\ markers[i].holds \in 0 .. made /\ markers[i].name <= retired
    <2>1. markers[i] \in Marker
      BY <1>1
    <2>2. /\ markers[i] = [name |-> markers[i].name, holds |-> markers[i].holds]
          /\ markers[i].name \in Nat \ {0} /\ markers[i].holds \in Nat \ {0}
      BY <2>1 DEF Marker
    <2>3. markers[i].name \in 1 .. retired /\ markers[i].holds \in 1 .. made
      BY <1>1, <2>2
    <2>4. markers[i].holds \in 0 .. made
      BY <1>1, <2>2
    <2> QED BY <1>1, <2>1, <2>2, <2>3, <2>4
  <1> QED BY <1>1, <1>2, <1>3

\* What stands before a step of the holder of the lease.
LEMMA Held ==
  ASSUME StoreConstants, StoreInv, NEW p \in Procs, op[p].at \in Writes \cup Unlinks \cup {"promote marker"}
  PROVE  /\ StoreTypes /\ PlaceTypes /\ Kept /\ Holder(p) /\ Writer(p) /\ Mover(p)
         /\ StoreWorld(world) /\ op[p] \in StoreOp /\ op[p].kind \in world.does
         /\ lease = p /\ \A q \in Procs \ {p} : lease # q
         /\ op[p].value \in 0 .. made /\ op[p].value <= made /\ op[p].window \subseteq 0 .. made
  <1>1. StoreTypes /\ PlaceTypes /\ Kept /\ Holder(p) /\ Writer(p) /\ Mover(p) /\ op[p] \in StoreOp
    BY DEF StoreInv, StoreTypes
  <1>2. StoreWorld(world)
    BY <1>1 DEF PlaceTypes, StoreConstants
  <1>3. lease = p
    BY <1>1 DEF Holder
  <1>4. op[p].kind \in world.does
    BY <1>1 DEF Holder, Writes, Unlinks
  <1>5. op[p].value \in 0 .. made /\ op[p].value <= made /\ op[p].window \subseteq 0 .. made
    <2>1. op[p].value \in Nat
      BY <1>1 DEF StoreOp
    <2>2. op[p].value <= made /\ op[p].window \subseteq 0 .. made
      BY <1>1 DEF StoreTypes
    <2>3. made \in Nat
      BY <1>1 DEF PlaceTypes
    <2> QED BY <2>1, <2>2, <2>3, UpTo
  <1> QED BY <1>1, <1>2, <1>3, <1>4, <1>5 DEF Holder

\* Only a rollback and a transaction run beside a rollback.
LEMMA Apart ==
  ASSUME StoreConstants, StoreInv, NEW p \in Procs, NEW q \in Procs \ {p}, lease = p,
         op[p].kind = "rollback"
  PROVE  op[q].at # "archive file" /\ op[q].at \notin Reads
  <1>1. Reader(q) /\ Holder(q) /\ OneRollback /\ Holder(p) /\ world \in Worlds
    BY DEF StoreInv, StoreTypes, PlaceTypes
  <1>2. StoreWorld(world) /\ "rollback" \in world.does /\ lease # q
    BY <1>1 DEF Holder, StoreConstants
  <1>3. "load" \notin world.does
    BY <1>2 DEF StoreWorld
  <1> QED BY <1>1, <1>2, <1>3 DEF Reader, Holder, OneRollback, Moves, Reads

-----------------------------------------------------------------------------
\* A retired file is the newest marker, before those there were.
LEMMA NewestMarkerIs ==
  ASSUME StoreConstants, NEW ms \in Seq(Marker), NEW m \in Marker
  PROVE  LET r == Store!Pruned(<<m>> \o ms) IN
         /\ r \in Seq(Marker) /\ Len(r) <= Retention /\ r # <<>> /\ r[1] = m
         /\ \A i \in DOMAIN r : r[i] = m \/ \E j \in DOMAIN ms : r[i] = ms[j]
  <1> DEFINE s == <<m>> \o ms
             n == IF Len(s) > Retention THEN Retention ELSE Len(s)
             r == Store!Pruned(s)
  <1>1. Retention \in Nat /\ Retention >= 1
    BY DEF StoreConstants
  <1>2. /\ s \in Seq(Marker) /\ Len(s) = 1 + Len(ms) /\ s[1] = m
        /\ \A i \in 2 .. Len(s) : i - 1 \in DOMAIN ms /\ s[i] = ms[i - 1]
    OBVIOUS
  <1>3. Len(ms) \in Nat
    OBVIOUS
  <1>4. n \in Nat /\ 1 <= n /\ n <= Len(s) /\ n <= Retention
    BY <1>1, <1>2, <1>3
  <1>5. r = SubSeq(s, 1, n)
    BY DEF Store!Pruned
  <1> HIDE DEF s, n, r
  <1>6. \A i \in 1 .. n : s[i] \in Marker
    BY <1>2, <1>3, <1>4
  <1>7. r \in Seq(Marker) /\ Len(r) = n /\ \A i \in 1 .. n : r[i] = s[i]
    BY <1>4, <1>5, <1>6, SubSeqProperties
  <1>8. r # <<>> /\ r[1] = m /\ DOMAIN r = 1 .. n
    BY <1>2, <1>4, <1>7
  <1>9. \A i \in DOMAIN r : r[i] = m \/ \E j \in DOMAIN ms : r[i] = ms[j]
    BY <1>2, <1>3, <1>4, <1>7, <1>8
  <1>10. r \in Seq(Marker) /\ Len(r) <= Retention /\ r # <<>> /\ r[1] = m
    BY <1>4, <1>7, <1>8
  <1> QED BY <1>9, <1>10 DEF r, s

\* The newest marker is rewritten and the others are gone.
Newest(ms) == SubSeq(ms, 1, IF ms = <<>> THEN 0 ELSE 1)

RewrittenMarkers(ms, v) == [i \in DOMAIN Newest(ms) |-> [Newest(ms)[i] EXCEPT !.holds = v]]

LEMMA MarkerRewritten ==
  ASSUME NEW ms \in Seq(Marker), NEW v \in Nat \ {0}
  PROVE  LET r == RewrittenMarkers(ms, v) IN
         /\ r \in Seq(Marker) /\ Len(r) <= Len(ms) /\ (ms = <<>> => r = <<>>)
         /\ \A i \in DOMAIN r : /\ i = 1 /\ r[i].holds = v
                                /\ i \in DOMAIN ms /\ r[i].name = ms[i].name
         /\ ms # <<>> => r # <<>> /\ r[1].holds = v /\ r[1].name = ms[1].name
  <1> DEFINE r == RewrittenMarkers(ms, v)
  <1>0. r = [i \in DOMAIN Newest(ms) |-> [Newest(ms)[i] EXCEPT !.holds = v]]
    BY DEF RewrittenMarkers
  <1>1. CASE ms = <<>>
    <2>1. Newest(ms) = <<>>
      BY <1>1, SubSeqEmpty DEF Newest
    <2>2. r = <<>>
      BY <1>0, <2>1
    <2>3. r \in Seq(Marker) /\ Len(r) <= Len(ms) /\ DOMAIN r = {}
      <3>1. r = ms /\ Len(ms) \in Nat /\ Len(ms) <= Len(ms)
        BY <1>1, <2>2
      <3>2. DOMAIN r = {}
        BY <2>2
      <3> QED BY <3>1, <3>2
    <2> QED BY <1>1, <2>2, <2>3
  <1>2. CASE ms # <<>>
    <2>1. 1 \in DOMAIN ms /\ ms[1] \in Marker /\ 1 <= Len(ms) /\ Len(ms) \in Nat
      BY <1>2
    <2>2. \A i \in 1 .. 1 : ms[i] \in Marker
      BY <2>1
    <2> DEFINE s == SubSeq(ms, 1, 1)
    <2>3. s \in Seq(Marker) /\ Len(s) = 1 /\ \A i \in 1 .. 1 : s[i] = ms[1 + i - 1]
      <3> HIDE DEF s
      <3>1. /\ SubSeq(ms, 1, 1) \in Seq(Marker) /\ Len(SubSeq(ms, 1, 1)) = 1
            /\ \A i \in 1 .. 1 - 1 + 1 : SubSeq(ms, 1, 1)[i] = ms[1 + i - 1]
        BY <2>2, SubSeqProperties
      <3> QED BY <3>1 DEF s
    <2>4. Newest(ms) = s
      BY <1>2 DEF Newest
    <2> HIDE DEF s
    <2>5. DOMAIN s = {1} /\ s[1] = ms[1]
      BY <2>3
    <2> DEFINE m == [ms[1] EXCEPT !.holds = v]
    <2>6. m \in Marker /\ m.holds = v /\ m.name = ms[1].name
      BY <2>1 DEF Marker
    <2>7. r = [i \in {1} |-> m]
      BY <1>0, <2>4, <2>5
    <2> HIDE DEF m
    <2>8. r = <<m>>
      BY <2>7
    <2>9. r \in Seq(Marker) /\ Len(r) = 1 /\ DOMAIN r = {1} /\ r[1] = m /\ r # <<>>
      <3>1. <<m>> \in Seq(Marker) /\ Len(<<m>>) = 1 /\ <<m>>[1] = m
        BY <2>6
      <3>2. DOMAIN r = {1}
        BY <2>7
      <3> QED BY <2>8, <3>1, <3>2
    <2> QED BY <1>2, <2>1, <2>6, <2>9
  <1> QED BY <1>1, <1>2

\* A promoted marker is taken from the others.
LEMMA MarkerTaken ==
  ASSUME NEW ms \in Seq(Marker), NEW k \in DOMAIN ms
  PROVE  LET r == Store!RemoveAt(ms, k) IN
         /\ r \in Seq(Marker) /\ Len(r) <= Len(ms)
         /\ \A i \in DOMAIN r : \E j \in DOMAIN ms : r[i] = ms[j]
  <1> DEFINE a == SubSeq(ms, 1, k - 1)
             b == SubSeq(ms, k + 1, Len(ms))
             r == Store!RemoveAt(ms, k)
  <1>1. /\ k \in Nat /\ 1 <= k /\ k <= Len(ms) /\ Len(ms) \in Nat
        /\ \A i \in 1 .. Len(ms) : ms[i] \in Marker
    OBVIOUS
  <1>2. a \in Seq(Marker) /\ Len(a) = k - 1 /\ \A i \in 1 .. k - 1 : a[i] = ms[i]
    <2>1. \A i \in 1 .. k - 1 : ms[i] \in Marker
      BY <1>1
    <2>2. k - 1 \in Int /\ 1 \in Int
      BY <1>1
    <2>3. /\ a \in Seq(Marker) /\ Len(a) = IF 1 <= k - 1 THEN k - 1 - 1 + 1 ELSE 0
          /\ \A i \in 1 .. k - 1 - 1 + 1 : a[i] = ms[1 + i - 1]
      <3> HIDE DEF a
      <3> QED BY <2>1, <2>2, SubSeqProperties DEF a
    <2>4. (IF 1 <= k - 1 THEN k - 1 - 1 + 1 ELSE 0) = k - 1
      BY <1>1
    <2>5. 1 .. k - 1 - 1 + 1 = 1 .. k - 1 /\ \A i \in 1 .. k - 1 : 1 + i - 1 = i
      BY <1>1
    <2> HIDE DEF a
    <2> QED BY <2>3, <2>4, <2>5
  <1>3. /\ b \in Seq(Marker) /\ Len(b) = Len(ms) - k
        /\ \A i \in 1 .. Len(ms) - k : b[i] = ms[k + i]
    <2>1. \A i \in k + 1 .. Len(ms) : ms[i] \in Marker
      BY <1>1
    <2>2. k + 1 \in Int /\ Len(ms) \in Int
      BY <1>1
    <2>3. /\ b \in Seq(Marker)
          /\ Len(b) = IF k + 1 <= Len(ms) THEN Len(ms) - (k + 1) + 1 ELSE 0
          /\ \A i \in 1 .. Len(ms) - (k + 1) + 1 : b[i] = ms[k + 1 + i - 1]
      <3> HIDE DEF b
      <3> QED BY <2>1, <2>2, SubSeqProperties DEF b
    <2>4. (IF k + 1 <= Len(ms) THEN Len(ms) - (k + 1) + 1 ELSE 0) = Len(ms) - k
      BY <1>1
    <2>5. /\ 1 .. Len(ms) - (k + 1) + 1 = 1 .. Len(ms) - k
          /\ \A i \in 1 .. Len(ms) - k : k + 1 + i - 1 = k + i
      BY <1>1
    <2> HIDE DEF b
    <2> QED BY <2>3, <2>4, <2>5
  <1>4. r = a \o b
    BY DEF Store!RemoveAt
  <1> HIDE DEF a, b, r
  <1>5. /\ r \in Seq(Marker) /\ Len(r) = Len(a) + Len(b)
        /\ \A i \in 1 .. Len(r) : r[i] = IF i <= Len(a) THEN a[i] ELSE b[i - Len(a)]
    BY <1>2, <1>3, <1>4, ConcatProperties
  <1>6. Len(r) = Len(ms) - 1 /\ DOMAIN r = 1 .. Len(ms) - 1
    BY <1>1, <1>2, <1>3, <1>5
  <1>7. ASSUME NEW i \in DOMAIN r
        PROVE  \E j \in DOMAIN ms : r[i] = ms[j]
    <2>1. i \in Nat /\ 1 <= i /\ i <= Len(ms) - 1 /\ DOMAIN ms = 1 .. Len(ms)
      BY <1>1, <1>6
    <2>2. CASE i <= k - 1 BY <1>1, <1>2, <1>5, <1>6, <2>1, <2>2
    <2>3. CASE ~(i <= k - 1)
      <3>1. r[i] = b[i - (k - 1)] /\ i - (k - 1) \in 1 .. Len(ms) - k
        BY <1>1, <1>2, <1>5, <1>6, <2>1, <2>3
      <3>2. r[i] = ms[k + (i - (k - 1))]
        BY <1>3, <3>1
      <3>3. k + (i - (k - 1)) \in DOMAIN ms
        BY <1>1, <2>1, <2>3
      <3> QED BY <3>2, <3>3
    <2> QED BY <2>2, <2>3
  <1> QED BY <1>1, <1>5, <1>6, <1>7 DEF r

-----------------------------------------------------------------------------
\* A transaction starts to save: its pool is one that may be found.
LEMMA Persists ==
  ASSUME StoreConstants, StoreInv, NEW p \in Procs, Store!Persist(p)
  PROVE  StoreInv'
  <1>1. /\ StoreTypes /\ PlaceTypes /\ Kept /\ Reader(p) /\ Holder(p) /\ op[p] \in StoreOp
        /\ op[p].at = "loaded" /\ op[p].kind = "transaction" /\ NoProc \notin Procs
    BY DEF StoreInv, StoreTypes, Store!Persist, Store!At, StoreConstants
  <1>2. /\ UNCHANGED <<world, file, old, legacy, entry, markers, retired, lease>>
        /\ made' = made + 1 /\ current' = current \cup {made'}
    BY DEF Store!Persist, Store!places
  <1>3. made \in Nat /\ made' \in Nat \ {0} /\ made <= made' /\ 0 .. made \subseteq 0 .. made'
    BY <1>1, <1>2 DEF PlaceTypes
  <1>4. lease = p
    BY <1>1 DEF Holder
  <1>5. Store!FirstWrite \in Writes /\ Store!FirstWrite = IF world.keychain THEN "retire file" ELSE "write file"
    BY DEF Store!FirstWrite, Writes
  <1> DEFINE r == [op[p] EXCEPT !.value = made', !.window = {}, !.at = Store!FirstWrite]
  <1>6. /\ r \in StoreOp /\ r.at = Store!FirstWrite /\ r.kind = "transaction"
        /\ r.value = made' /\ r.window = {}
    BY <1>1, <1>3, <1>5 DEF StoreOp
  <1>7. op' = [q \in Procs |->
                 IF q = p THEN r
                 ELSE IF op[q].at \in Reads THEN [op[q] EXCEPT !.window = @ \cup {made'}] ELSE op[q]]
    BY DEF Store!Persist, Store!Loading, Reads
  <1> HIDE DEF r
  <1>8. ASSUME NEW q \in Procs \ {p}
        PROVE  Watches(q) /\ lease # q /\ lease' # q /\ op'[q] \in StoreOp
    <2>1. op[q] \in StoreOp /\ Reader(q)
      BY <1>1 DEF StoreTypes, StoreInv
    <2>2. op'[q] = IF op[q].at \in Reads THEN [op[q] EXCEPT !.window = @ \cup {made'}] ELSE op[q]
      BY <1>7
    <2>3. CASE op[q].at \in Reads
      <3>1. op[q].window \cup {made'} = op[q].window \cup current'
        BY <1>2, <2>1, <2>3 DEF Reader
      <3>2. op'[q] = [op[q] EXCEPT !.window = op[q].window \cup {made'}]
        BY <2>2, <2>3
      <3>3. /\ op'[q].at = op[q].at /\ op'[q].kind = op[q].kind /\ op'[q].value = op[q].value
            /\ op'[q].marker = op[q].marker /\ op'[q].window = op[q].window \cup {made'}
            /\ op'[q] \in StoreOp
        BY <1>3, <2>1, <3>2 DEF StoreOp
      <3> QED BY <1>2, <1>4, <2>3, <3>1, <3>3 DEF Watches
    <2>4. CASE op[q].at \notin Reads
      BY <1>2, <1>4, <2>1, <2>2, <2>4 DEF Watches
    <2> QED BY <2>3, <2>4
  <1>9. op'[p] = r /\ op' \in [Procs -> StoreOp]
    BY <1>6, <1>7, <1>8
  <1>10. PlaceTypes'
    <2>1. file' \in 0 .. made' /\ entry' \in 0 .. made'
      BY <1>1, <1>2, <1>3 DEF PlaceTypes
    <2>2. current' \subseteq 0 .. made'
      BY <1>1, <1>2, <1>3 DEF PlaceTypes
    <2>3. \A i \in DOMAIN markers' : markers'[i].name <= retired' /\ markers'[i].holds <= made'
      <3>1. \A i \in DOMAIN markers :
              markers[i] \in Marker /\ markers[i].name <= retired /\ markers[i].holds <= made
        BY <1>1 DEF PlaceTypes
      <3>2. \A i \in DOMAIN markers : markers[i].holds \in Nat
        BY <3>1 DEF Marker
      <3> QED BY <1>2, <1>3, <3>1, <3>2
    <2> QED BY <1>1, <1>2, <1>3, <2>1, <2>2, <2>3 DEF PlaceTypes
  <1>11. Kept'
    BY <1>1, <1>2 DEF Kept
  <1>12. ChoiceStands(p) /\ FoundIsCurrent(p)
    BY <1>2 DEF ChoiceStands, FoundIsCurrent
  <1>13. Reader(p)' /\ Holder(p)'
    <2>1. op'[p].at \notin Reads \cup Unlinks \cup Moves \cup {"loaded", "idle"}
      BY <1>5, <1>6, <1>9 DEF Reads, Writes, Unlinks, Moves
    <2>2. "transaction" \in world.does
      BY <1>1 DEF Holder
    <2>3. op'[p].kind = "transaction" /\ lease' = p
      BY <1>2, <1>4, <1>6, <1>9
    <2> QED BY <1>2, <2>1, <2>2, <2>3 DEF Reader, Holder, Reads
  <1>14. Writer(p)' /\ Mover(p)'
    <2>1. op'[p].value # 0 /\ op'[p].value \in current' /\ op'[p].window = {}
      BY <1>2, <1>3, <1>6, <1>9
    <2>2. op'[p].at \in {"retire file", "write file"} /\ (op'[p].at = "write file" <=> ~world.keychain)
      BY <1>5, <1>6, <1>9
    <2> QED BY <1>2, <2>1, <2>2 DEF Writer, Mover, Moves
  <1>15. op'[p].kind = op[p].kind /\ op'[p].value <= made' /\ op'[p].window \subseteq 0 .. made'
    BY <1>1, <1>3, <1>6, <1>9
  <1> QED BY <1>2, <1>3, <1>8, <1>9, <1>10, <1>11, <1>12, <1>13, <1>14, <1>15, PlacesChange

\* The file is retired, or overwritten with what is saved.
LEMMA Retires ==
  ASSUME StoreConstants, StoreInv, NEW p \in Procs, Store!RetireFile(p)
  PROVE  StoreInv'
  <1>1. op[p].at = "retire file" /\ op[p].at \in Writes
    BY DEF Store!RetireFile, Store!At, Writes
  <1>2. /\ StoreTypes /\ PlaceTypes /\ Kept /\ Holder(p) /\ Writer(p) /\ StoreWorld(world)
        /\ op[p].kind \in world.does /\ lease = p /\ \A q \in Procs \ {p} : lease # q
        /\ op[p].value \in 0 .. made /\ op[p].value <= made /\ op[p].window \subseteq 0 .. made
    BY <1>1, Held
  <1>3. UNCHANGED <<world, legacy, entry, lease, current, made>>
    BY DEF Store!RetireFile
  <1>4. world.keychain /\ op[p].value # 0 /\ op[p].value \in current /\ op[p].window = {}
        /\ made \in Nat /\ retired \in Nat /\ old = FALSE
    BY <1>1, <1>2 DEF Writer, PlaceTypes
  <1>5. /\ op' \in [Procs -> StoreOp] /\ \A q \in Procs \ {p} : op'[q] = op[q]
        /\ op'[p].at = "write entry" /\ op'[p].kind = op[p].kind /\ op'[p].value = op[p].value
        /\ op'[p].window = op[p].window
    <2>1. "write entry" \in Steps /\ Store!Goto(p, "write entry")
      BY DEF Steps, Writes, Store!RetireFile
    <2> QED BY <1>2, <2>1, GoesTo
  <1>6. \/ file' = file /\ file = 0 /\ UNCHANGED <<old, markers, retired>>
        \/ file # 0 /\ Store!BecomesMarker
        \/ file # 0 /\ file' = op[p].value /\ old' = FALSE /\ UNCHANGED <<markers, retired>>
    <2>1. "stuck" \notin world.fails
      BY <1>2 DEF StoreWorld
    <2> QED BY <2>1 DEF Store!RetireFile
  <1>7. /\ PlaceTypes' /\ Kept' /\ file' \in {0, op[p].value}
        /\ (file' # 0 => file # 0 /\ markers' = markers)
        /\ (file' = 0 /\ markers' = <<>> => file = 0 /\ markers = <<>>)
        /\ (markers' = <<>> => markers = <<>>)
        /\ markers' # <<>> => \/ markers'[1].holds \in current'
                              \/ markers # <<>> /\ markers'[1].holds = markers[1].holds
    <2>1. CASE file' = file /\ file = 0 /\ UNCHANGED <<old, markers, retired>>
      <3>1. PlaceTypes'
        BY <1>2, <1>3, <2>1 DEF PlaceTypes
      <3>2. Kept'
        BY <1>2, <1>3, <2>1 DEF Kept
      <3> QED BY <2>1, <3>1, <3>2
    <2>2. CASE file # 0 /\ Store!BecomesMarker
      <3> DEFINE m == [name |-> retired + 1, holds |-> file]
      <3>1. m \in Marker /\ file \in 1 .. made /\ file \in current
        BY <1>2, <1>4, <2>2 DEF Marker, PlaceTypes, Kept
      <3>2. /\ file' = 0 /\ old' = FALSE /\ retired' = retired + 1
            /\ markers' = Store!Pruned(<<m>> \o markers)
        BY <2>2 DEF Store!BecomesMarker
      <3>3. m.holds = file /\ m.name = retired + 1
        OBVIOUS
      <3> HIDE DEF m
      <3>4. markers \in Seq(Marker)
            /\ \A i \in DOMAIN markers : markers[i].name <= retired /\ markers[i].holds <= made
        BY <1>2 DEF PlaceTypes
      <3>5. /\ markers' \in Seq(Marker) /\ Len(markers') <= Retention /\ markers' # <<>>
            /\ markers'[1] = m
            /\ \A i \in DOMAIN markers' : markers'[i] = m \/ \E j \in DOMAIN markers : markers'[i] = markers[j]
        BY <3>1, <3>2, <3>4, NewestMarkerIs
      <3>6. \A i \in DOMAIN markers' : markers'[i].name <= retired' /\ markers'[i].holds <= made'
        <4>1. ASSUME NEW i \in DOMAIN markers'
              PROVE  markers'[i].name <= retired' /\ markers'[i].holds <= made'
          <5>1. CASE markers'[i] = m BY <1>3, <1>4, <3>1, <3>2, <3>3, <5>1
          <5>2. CASE \E j \in DOMAIN markers : markers'[i] = markers[j]
            <6>1. PICK j \in DOMAIN markers : markers'[i] = markers[j]
              BY <5>2
            <6>2. markers[j] \in Marker /\ markers[j].name <= retired /\ markers[j].holds <= made
              BY <3>4
            <6> QED BY <1>3, <1>4, <3>2, <6>1, <6>2 DEF Marker
          <5> QED BY <3>5, <5>1, <5>2
        <4> QED BY <4>1
      <3>7. PlaceTypes'
        BY <1>2, <1>3, <1>4, <3>2, <3>5, <3>6 DEF PlaceTypes
      <3>8. Kept'
        BY <1>2, <1>3, <1>4, <3>1, <3>2, <3>3, <3>5 DEF Kept
      <3> QED BY <1>3, <3>1, <3>2, <3>3, <3>5, <3>7, <3>8
    <2>3. CASE file # 0 /\ file' = op[p].value /\ old' = FALSE /\ UNCHANGED <<markers, retired>>
      <3>1. PlaceTypes'
        BY <1>2, <1>3, <1>4, <2>3 DEF PlaceTypes
      <3>2. Kept'
        BY <1>2, <1>3, <1>4, <2>3 DEF Kept
      <3> QED BY <1>4, <2>3, <3>1, <3>2
    <2> QED BY <1>6, <2>1, <2>2, <2>3
  <1>8. ChoiceStands(p) /\ FoundIsCurrent(p)
    BY <1>7 DEF ChoiceStands, FoundIsCurrent
  <1>9. Reader(p)' /\ Holder(p)'
    BY <1>1, <1>2, <1>3, <1>5 DEF Reader, Holder, Reads, Writes, Unlinks, Moves
  <1>10. Writer(p)' /\ Mover(p)'
    BY <1>3, <1>4, <1>5, <1>7 DEF Writer, Mover, Moves
  <1>11. \A q \in Procs \ {p} : Watches(q) /\ lease # q /\ lease' # q
    BY <1>2, <1>3, <1>5, StillWatches
  <1>12. 0 .. made \subseteq 0 .. made' /\ op'[p].value <= made' /\ op'[p].window \subseteq 0 .. made'
    BY <1>2, <1>3, <1>5
  <1> QED BY <1>3, <1>5, <1>7, <1>8, <1>9, <1>10, <1>11, <1>12, PlacesChange

\* The entry is written, or refused.
LEMMA WritesEntry ==
  ASSUME StoreConstants, StoreInv, NEW p \in Procs, Store!WriteEntry(p)
  PROVE  StoreInv'
  <1>1. op[p].at = "write entry" /\ op[p].at \in Writes
    BY DEF Store!WriteEntry, Store!At, Writes
  <1>2. /\ StoreTypes /\ PlaceTypes /\ Kept /\ Holder(p) /\ Writer(p) /\ StoreWorld(world)
        /\ op[p].kind \in world.does /\ lease = p /\ \A q \in Procs \ {p} : lease # q
        /\ op[p].value \in 0 .. made /\ op[p].value <= made /\ op[p].window \subseteq 0 .. made
    BY <1>1, Held
  <1>3. UNCHANGED <<world, file, old, legacy, markers, retired, lease, current, made>>
    BY DEF Store!WriteEntry
  <1>4. /\ world.keychain /\ op[p].value # 0 /\ op[p].value \in current /\ op[p].window = {}
        /\ file \in {0, op[p].value}
    BY <1>1, <1>2 DEF Writer
  <1>5. \/ entry' = op[p].value /\ Store!Goto(p, "sync markers")
        \/ entry' = entry /\ "refused" \in world.fails /\ Store!Goto(p, "write file, drop entry")
    <2>1. "transient" \notin world.fails
      BY <1>2 DEF StoreWorld
    <2> QED BY <2>1 DEF Store!WriteEntry, Store!Fault
  <1>6. /\ op' \in [Procs -> StoreOp] /\ \A q \in Procs \ {p} : op'[q] = op[q]
        /\ op'[p].at \in {"sync markers", "write file, drop entry"}
        /\ op'[p].kind = op[p].kind /\ op'[p].value = op[p].value
        /\ op'[p].window = op[p].window
        /\ op'[p].at = "sync markers" => entry' = op[p].value
        /\ op'[p].at = "write file, drop entry" => "refused" \in world.fails
    <2>1. "sync markers" \in Steps /\ "write file, drop entry" \in Steps
      BY DEF Steps, Writes
    <2>2. CASE entry' = op[p].value /\ Store!Goto(p, "sync markers")
      BY <1>2, <2>1, <2>2, GoesTo
    <2>3. CASE "refused" \in world.fails /\ Store!Goto(p, "write file, drop entry")
      BY <1>2, <2>1, <2>3, GoesTo
    <2> QED BY <1>5, <2>2, <2>3
  <1>7. PlaceTypes' /\ entry' \in {entry, op[p].value}
    BY <1>2, <1>3, <1>5 DEF PlaceTypes
  <1>8. Kept'
    BY <1>2, <1>3, <1>4, <1>7 DEF Kept
  <1>9. ChoiceStands(p) /\ FoundIsCurrent(p)
    BY <1>3 DEF ChoiceStands, FoundIsCurrent
  <1>10. Reader(p)' /\ Holder(p)'
    BY <1>1, <1>2, <1>3, <1>6 DEF Reader, Holder, Reads, Writes, Unlinks, Moves
  <1>11. Writer(p)' /\ Mover(p)'
    BY <1>3, <1>4, <1>6 DEF Writer, Mover, Moves
  <1>12. \A q \in Procs \ {p} : Watches(q) /\ lease # q /\ lease' # q
    BY <1>2, <1>3, <1>6, StillWatches
  <1>13. 0 .. made \subseteq 0 .. made' /\ op'[p].value <= made' /\ op'[p].window \subseteq 0 .. made'
    BY <1>2, <1>3, <1>6
  <1> QED BY <1>3, <1>6, <1>7, <1>8, <1>9, <1>10, <1>11, <1>12, <1>13, PlacesChange

\* A save, a clear or a rollback completes: nobody is left to hold what it held.
LEMMA Completes ==
  ASSUME StoreConstants, StoreInv, NEW p \in Procs,
         op[p].at \in Writes \cup Unlinks \cup {"promote marker"},
         NEW vs \in SUBSET (0 .. made), Store!Holds(p, vs, "done"),
         UNCHANGED <<world, legacy, lease, made>>,
         ChoiceStands(p), FoundIsCurrent(p), PlaceTypes', Kept'
  PROVE  StoreInv'
  <1>1. /\ StoreTypes /\ PlaceTypes /\ Holder(p) /\ op[p].kind \in world.does
        /\ lease = p /\ \A q \in Procs \ {p} : lease # q
        /\ op[p].value <= made /\ op[p].window \subseteq 0 .. made
    BY Held
  <1>2. /\ current' = vs /\ op' \in [Procs -> StoreOp]
        /\ op'[p].at = "done" /\ op'[p].kind = op[p].kind /\ op'[p].value = op[p].value
        /\ op'[p].window = op[p].window
        /\ \A q \in Procs \ {p} : Watches(q)
    <2>1. vs \in SUBSET Nat
      BY PartsAreNumbers
    <2>2. "done" \in Steps
      BY DEF Steps
    <2> QED BY <1>1, <2>1, <2>2, HoldsIt
  <1>3. Reader(p)' /\ Holder(p)'
    BY <1>1, <1>2 DEF Reader, Holder, Reads, Writes, Unlinks, Moves
  <1>4. Writer(p)' /\ Mover(p)'
    BY <1>2 DEF Writer, Mover, Writes, Moves
  <1>5. 0 .. made \subseteq 0 .. made' /\ op'[p].value <= made' /\ op'[p].window \subseteq 0 .. made'
    BY <1>1, <1>2
  <1>6. \A q \in Procs \ {p} : Watches(q) /\ lease # q /\ lease' # q
    BY <1>1, <1>2
  <1> QED BY <1>2, <1>3, <1>4, <1>5, <1>6, PlacesChange

\* The markers come to hold what the entry does ...
LEMMA SyncsMarkers ==
  ASSUME StoreConstants, StoreInv, NEW p \in Procs, Store!SyncMarkers(p)
  PROVE  StoreInv'
  <1>1. op[p].at = "sync markers" /\ op[p].at \in Writes
    BY DEF Store!SyncMarkers, Store!At, Writes
  <1>2. /\ StoreTypes /\ PlaceTypes /\ Kept /\ Writer(p) /\ StoreWorld(world)
        /\ op[p].value \in 0 .. made
    BY <1>1, Held
  <1>3. UNCHANGED <<world, file, old, legacy, entry, retired, lease, made>>
    BY DEF Store!SyncMarkers
  <1>4. /\ world.keychain /\ op[p].value \in Nat \ {0} /\ op[p].window = {}
        /\ file \in {0, op[p].value} /\ entry = op[p].value
    <2>1. op[p].value # 0
      BY <1>1, <1>2 DEF Writer
    <2>2. op[p].value \in Nat \ {0}
      BY <1>2, <2>1
    <2> QED BY <1>1, <1>2, <2>2 DEF Writer
  <1>5. Store!Saved(p) = {op[p].value} /\ Store!AfterSave(p) = "done"
    BY <1>4 DEF Store!Saved, Store!AfterSave, Store!Migrating
  <1>6. Store!Holds(p, {op[p].value}, "done") /\ current' = {op[p].value}
    BY <1>5 DEF Store!SyncMarkers, Store!Holds
  <1>7. markers' = RewrittenMarkers(markers, op[p].value)
    <2>1. "marker" \notin world.fails
      BY <1>2 DEF StoreWorld
    <2> QED BY <2>1 DEF Store!SyncMarkers, Store!Fault, Newest, RewrittenMarkers
  <1>8. /\ markers \in Seq(Marker) /\ Len(markers) <= Retention /\ Retention \in Nat
        /\ \A i \in DOMAIN markers : markers[i].name <= retired
    BY <1>2 DEF PlaceTypes, StoreConstants
  <1>9. /\ markers' \in Seq(Marker) /\ Len(markers') <= Len(markers) /\ (markers = <<>> => markers' = <<>>)
        /\ \A i \in DOMAIN markers' : /\ i = 1 /\ markers'[i].holds = op[p].value
                                      /\ i \in DOMAIN markers /\ markers'[i].name = markers[i].name
        /\ markers # <<>> =>
             markers' # <<>> /\ markers'[1].holds = op[p].value /\ markers'[1].name = markers[1].name
    BY <1>4, <1>7, <1>8, MarkerRewritten
  <1>10. PlaceTypes'
    <2>1. \A i \in DOMAIN markers' : markers'[i].name <= retired' /\ markers'[i].holds <= made'
      BY <1>2, <1>3, <1>8, <1>9
    <2>2. Len(markers') <= Retention
      <3>1. Len(markers') \in Nat /\ Len(markers) \in Nat
        BY <1>8, <1>9
      <3> QED BY <1>8, <1>9, <3>1
    <2>3. current' \subseteq 0 .. made'
      BY <1>2, <1>3, <1>6
    <2> QED BY <1>2, <1>3, <1>9, <2>1, <2>2, <2>3 DEF PlaceTypes
  <1>11. Kept'
    BY <1>2, <1>3, <1>4, <1>6, <1>9 DEF Kept
  <1>12. ChoiceStands(p) /\ FoundIsCurrent(p)
    BY <1>3, <1>6, <1>9 DEF ChoiceStands, FoundIsCurrent
  <1>13. {op[p].value} \in SUBSET (0 .. made)
    BY <1>2
  <1> QED BY <1>1, <1>3, <1>6, <1>10, <1>11, <1>12, <1>13, Completes

\* ... or the entry is dropped, that the file counts.
LEMMA DropsEntry ==
  ASSUME StoreConstants, StoreInv, NEW p \in Procs, Store!DropEntry(p)
  PROVE  StoreInv'
  <1>1. op[p].at = "drop entry" /\ op[p].at \in Writes
    BY DEF Store!DropEntry, Store!At, Writes
  <1>2. /\ StoreTypes /\ PlaceTypes /\ Kept /\ Writer(p) /\ StoreWorld(world)
        /\ op[p].value \in 0 .. made
    BY <1>1, Held
  <1>3. UNCHANGED <<world, file, old, legacy, markers, retired, lease, made>>
    BY DEF Store!DropEntry
  <1>4. op[p].value # 0 /\ op[p].window = {} /\ file = op[p].value
    BY <1>1, <1>2 DEF Writer
  <1>5. Store!Saved(p) = {op[p].value} /\ Store!AfterSave(p) = "done"
    BY <1>4 DEF Store!Saved, Store!AfterSave, Store!Migrating
  <1>6. Store!Holds(p, {op[p].value}, "done") /\ current' = {op[p].value}
    BY <1>5 DEF Store!DropEntry, Store!Holds
  <1>7. entry' = 0
    <2>1. "kept" \notin world.fails
      BY <1>2 DEF StoreWorld
    <2> QED BY <2>1 DEF Store!DropEntry, Store!Fault
  <1>8. {op[p].value} \in SUBSET (0 .. made)
    BY <1>2
  <1>9. PlaceTypes'
    <2>1. current' \subseteq 0 .. made' /\ entry' \in 0 .. made'
      BY <1>2, <1>3, <1>6, <1>7 DEF PlaceTypes
    <2> QED BY <1>2, <1>3, <2>1 DEF PlaceTypes
  <1>10. Kept'
    BY <1>2, <1>3, <1>4, <1>6, <1>7 DEF Kept
  <1>11. ChoiceStands(p) /\ FoundIsCurrent(p)
    BY <1>3 DEF ChoiceStands, FoundIsCurrent
  <1> QED BY <1>1, <1>3, <1>6, <1>8, <1>9, <1>10, <1>11, Completes

\* The last step of a clear.
LEMMA ClearsMarkers ==
  ASSUME StoreConstants, StoreInv, NEW p \in Procs, Store!ClearMarkers(p)
  PROVE  StoreInv'
  <1>1. op[p].at = "clear markers" /\ op[p].at \in Unlinks
    BY DEF Store!ClearMarkers, Store!At, Unlinks
  <1>2. StoreTypes /\ PlaceTypes /\ Kept /\ Writer(p) /\ StoreWorld(world) /\ made \in Nat
    BY <1>1, Held DEF PlaceTypes
  <1>3. UNCHANGED <<world, file, old, legacy, entry, retired, lease, made>>
    BY DEF Store!ClearMarkers
  <1>4. file = 0 /\ entry = 0
    BY <1>1, <1>2 DEF Writer
  <1>5. markers' = <<>> /\ Store!Holds(p, {0}, "done") /\ current' = {0}
    <2>1. "stuck" \notin world.fails
      BY <1>2 DEF StoreWorld
    <2> QED BY <2>1 DEF Store!ClearMarkers, Store!Fault, Store!Holds
  <1>6. {0} \in SUBSET (0 .. made)
    BY <1>2
  <1>7. PlaceTypes'
    <2>1. markers' \in Seq(Marker) /\ Len(markers') = 0 /\ DOMAIN markers' = {}
      BY <1>5
    <2>2. 0 <= Retention
      BY DEF StoreConstants
    <2>3. current' \subseteq 0 .. made'
      BY <1>2, <1>3, <1>5
    <2> QED BY <1>2, <1>3, <2>1, <2>2, <2>3 DEF PlaceTypes
  <1>8. Kept'
    BY <1>2, <1>3, <1>4, <1>5 DEF Kept
  <1>9. ChoiceStands(p) /\ FoundIsCurrent(p)
    BY <1>3, <1>4, <1>5 DEF ChoiceStands, FoundIsCurrent
  <1> QED BY <1>1, <1>3, <1>5, <1>6, <1>7, <1>8, <1>9, Completes

\* The file is written: the save is complete, or an entry is left to drop.
LEMMA WritesFile ==
  ASSUME StoreConstants, StoreInv, NEW p \in Procs, Store!WriteFile(p)
  PROVE  StoreInv'
  <1>1. op[p].at \in {"write file", "write file, drop entry"} /\ op[p].at \in Writes
    BY DEF Store!WriteFile, Store!At, Writes
  <1>2. /\ StoreTypes /\ PlaceTypes /\ Kept /\ Holder(p) /\ Writer(p) /\ StoreWorld(world)
        /\ op[p].kind \in world.does /\ lease = p /\ \A q \in Procs \ {p} : lease # q
        /\ op[p].value \in 0 .. made /\ op[p].value <= made /\ op[p].window \subseteq 0 .. made
    BY <1>1, Held
  <1>3. UNCHANGED <<world, legacy, entry, markers, retired, lease, made>>
    BY DEF Store!WriteFile
  <1>4. /\ op[p].value # 0 /\ op[p].value \in current /\ op[p].window = {}
        /\ op[p].at = "write file" <=> ~world.keychain
        /\ op[p].at = "write file, drop entry" => "refused" \in world.fails
    BY <1>1, <1>2 DEF Writer
  <1>5. /\ Store!Saved(p) = {op[p].value} /\ Store!AfterSave(p) = "done"
        /\ Store!AfterFailure(p) = "done"
    BY <1>4 DEF Store!Saved, Store!AfterSave, Store!AfterFailure, Store!Migrating
  <1>6. PlaceTypes'
    <2>1. file' \in {file, op[p].value} /\ old' = FALSE
      BY <1>2 DEF Store!WriteFile, PlaceTypes
    <2>2. current' \in {current, {op[p].value}}
      BY <1>5 DEF Store!WriteFile, Store!Holds
    <2>3. file' \in 0 .. made /\ current' \subseteq 0 .. made
      BY <1>2, <2>1, <2>2 DEF PlaceTypes
    <2> QED BY <1>2, <1>3, <2>1, <2>3 DEF PlaceTypes
  <1>7. FoundIsCurrent(p)
    <2>1. file' \in {file, op[p].value}
      BY DEF Store!WriteFile
    <2> QED BY <1>3, <1>4, <2>1 DEF FoundIsCurrent
  \* A rollback that has chosen its marker is of another world.
  <1>8. ChoiceStands(p)
    <2>1. ASSUME NEW q \in Procs \ {p}, op[q].at = "archive file"
          PROVE  FALSE
      <3>1. Holder(q) /\ Mover(q)
        BY DEF StoreInv
      <3>2. world.keychain /\ "rollback" \in world.does
        BY <2>1, <3>1 DEF Holder, Mover, Moves
      <3>3. "refused" \in world.fails
        BY <1>1, <1>4, <3>2
      <3> QED BY <1>2, <3>2, <3>3 DEF StoreWorld
    <2> QED BY <2>1 DEF ChoiceStands
  <1>9. CASE /\ op[p].at = "write file" /\ file' = op[p].value
             /\ Store!Holds(p, {op[p].value}, "done") /\ current' = {op[p].value}
    <2>1. Kept'
      BY <1>2, <1>3, <1>4, <1>9 DEF Kept
    <2>2. {op[p].value} \in SUBSET (0 .. made)
      BY <1>2
    <2> QED BY <1>1, <1>3, <1>6, <1>7, <1>8, <1>9, <2>1, <2>2, Completes
  <1>10. CASE \/ /\ op[p].at = "write file, drop entry" /\ file' = op[p].value
                 /\ Store!Goto(p, "drop entry") /\ UNCHANGED current
              \/ Store!Goto(p, "done") /\ UNCHANGED <<file, current>>
    <2>1. Kept' /\ current' = current
      <3>1. CASE file' = file
        <4>1. UNCHANGED <<world, file, entry, markers, current>>
          BY <1>3, <1>10, <3>1
        <4> QED BY <1>2, <4>1 DEF Kept
      <3>2. CASE op[p].at = "write file, drop entry" /\ file' = op[p].value
        <4>1. "clear" \notin world.does /\ world.keychain
          BY <1>2, <1>4, <3>2 DEF StoreWorld
        <4>2. UNCHANGED <<world, entry, markers, current>>
          BY <1>3, <1>10
        <4> QED BY <1>2, <1>4, <3>2, <4>1, <4>2 DEF Kept
      <3> QED BY <1>10, <3>1, <3>2
    <2>2. /\ op' \in [Procs -> StoreOp] /\ \A q \in Procs \ {p} : op'[q] = op[q]
          /\ op'[p].at \in {"drop entry", "done"} /\ op'[p].kind = op[p].kind
          /\ op'[p].value = op[p].value /\ op'[p].window = op[p].window
          /\ op'[p].at = "drop entry" => op[p].at = "write file, drop entry" /\ file' = op[p].value
      <3>1. "drop entry" \in Steps /\ "done" \in Steps
        BY DEF Steps, Writes
      <3>2. CASE /\ op[p].at = "write file, drop entry" /\ file' = op[p].value
                 /\ Store!Goto(p, "drop entry")
        BY <1>2, <3>1, <3>2, GoesTo
      <3>3. CASE Store!Goto(p, "done") BY <1>2, <3>1, <3>3, GoesTo
      <3> QED BY <1>10, <3>2, <3>3
    <2>3. Reader(p)' /\ Holder(p)'
      BY <1>1, <1>2, <1>3, <2>2 DEF Reader, Holder, Reads, Writes, Unlinks, Moves
    <2>4. Writer(p)' /\ Mover(p)'
      BY <1>3, <1>4, <2>1, <2>2 DEF Writer, Mover, Moves, Writes
    <2>5. \A q \in Procs \ {p} : Watches(q) /\ lease # q /\ lease' # q
      BY <1>2, <1>3, <2>1, <2>2, StillWatches
    <2>6. 0 .. made \subseteq 0 .. made' /\ op'[p].value <= made' /\ op'[p].window \subseteq 0 .. made'
      BY <1>2, <1>3, <2>2
    <2> QED BY <1>3, <1>6, <1>7, <1>8, <2>1, <2>2, <2>3, <2>4, <2>5, <2>6, PlacesChange
  <1> QED
    <2>1. op[p].at # "write file" => op[p].at = "write file, drop entry"
      BY <1>1
    <2> QED BY <1>5, <1>9, <1>10, <2>1 DEF Store!WriteFile, Store!At, Store!Holds

\* A clear removes the file: nothing is current from now on ...
LEMMA ClearsFile ==
  ASSUME StoreConstants, StoreInv, NEW p \in Procs, Store!ClearFile(p)
  PROVE  StoreInv'
  <1>1. op[p].at = "unlink file" /\ op[p].at \in Unlinks
    BY DEF Store!ClearFile, Store!At, Unlinks
  <1>2. /\ StoreTypes /\ PlaceTypes /\ Kept /\ Holder(p) /\ StoreWorld(world)
        /\ op[p].kind \in world.does /\ lease = p /\ \A q \in Procs \ {p} : lease # q
        /\ op[p].value <= made /\ op[p].window \subseteq 0 .. made
    BY <1>1, Held
  <1>3. UNCHANGED <<world, legacy, entry, markers, retired, lease, made>>
    BY DEF Store!ClearFile
  <1> DEFINE step == IF world.keychain THEN "clear entry" ELSE "clear markers"
  <1>4. file' = 0 /\ old' = FALSE /\ Store!Holds(p, current \cup {0}, step)
    <2>1. "stuck" \notin world.fails
      BY <1>2 DEF StoreWorld
    <2> QED BY <2>1 DEF Store!ClearFile, Store!Fault
  <1>5. step \in Steps /\ current \cup {0} \subseteq 0 .. made
    BY <1>2 DEF Steps, Unlinks, PlaceTypes
  <1>6. /\ current' = current \cup {0} /\ op' \in [Procs -> StoreOp]
        /\ op'[p].at = step /\ op'[p].kind = op[p].kind /\ op'[p].value = op[p].value
        /\ op'[p].window = op[p].window
        /\ \A q \in Procs \ {p} : Watches(q)
    <2>1. current \cup {0} \in SUBSET Nat
      BY <1>5, PartsAreNumbers
    <2> QED BY <1>2, <1>4, <1>5, <2>1, HoldsIt
  <1>7. "clear" \in world.does /\ op[p].kind = "clear" /\ "rollback" \notin world.does
    BY <1>1, <1>2 DEF Holder, StoreWorld
  <1>8. PlaceTypes'
    <2>1. file' \in 0 .. made' /\ current' \subseteq 0 .. made'
      BY <1>2, <1>3, <1>4, <1>5, <1>6 DEF PlaceTypes
    <2> QED BY <1>2, <1>3, <1>4, <2>1 DEF PlaceTypes
  <1>9. Kept'
    BY <1>2, <1>3, <1>4, <1>6, <1>7 DEF Kept
  <1>10. ChoiceStands(p) /\ FoundIsCurrent(p)
    BY <1>3, <1>4, <1>6 DEF ChoiceStands, FoundIsCurrent
  <1>11. Reader(p)' /\ Holder(p)'
    BY <1>1, <1>2, <1>3, <1>6, <1>7 DEF Reader, Holder, Reads, Writes, Unlinks, Moves
  <1>12. Writer(p)' /\ Mover(p)'
    BY <1>2, <1>3, <1>4, <1>6 DEF Writer, Mover, Moves, Writes, Kept
  <1>13. \A q \in Procs \ {p} : Watches(q) /\ lease # q /\ lease' # q
    BY <1>2, <1>3, <1>6
  <1>14. 0 .. made \subseteq 0 .. made' /\ op'[p].value <= made' /\ op'[p].window \subseteq 0 .. made'
    BY <1>2, <1>3, <1>6
  <1> QED BY <1>3, <1>6, <1>8, <1>9, <1>10, <1>11, <1>12, <1>13, <1>14, PlacesChange

\* ... and goes on to the entry.
LEMMA ClearsEntry ==
  ASSUME StoreConstants, StoreInv, NEW p \in Procs, Store!ClearEntry(p)
  PROVE  StoreInv'
  <1>1. op[p].at = "clear entry" /\ op[p].at \in Unlinks
    BY DEF Store!ClearEntry, Store!At, Unlinks
  <1>2. /\ StoreTypes /\ PlaceTypes /\ Kept /\ Holder(p) /\ Writer(p) /\ StoreWorld(world)
        /\ op[p].kind \in world.does /\ lease = p /\ \A q \in Procs \ {p} : lease # q
        /\ op[p].value <= made /\ op[p].window \subseteq 0 .. made
    BY <1>1, Held
  <1>3. UNCHANGED <<world, file, old, legacy, markers, retired, lease, current, made>>
    BY DEF Store!ClearEntry
  <1>4. entry' = 0
    <2>1. "kept" \notin world.fails
      BY <1>2 DEF StoreWorld
    <2> QED BY <2>1 DEF Store!ClearEntry, Store!Fault
  <1>5. file = 0 /\ 0 \in current
    BY <1>1, <1>2 DEF Writer
  <1>6. /\ op' \in [Procs -> StoreOp] /\ \A q \in Procs \ {p} : op'[q] = op[q]
        /\ op'[p].at = "clear markers" /\ op'[p].kind = op[p].kind
        /\ op'[p].value = op[p].value /\ op'[p].window = op[p].window
    <2>1. "clear markers" \in Steps /\ Store!Goto(p, "clear markers")
      BY DEF Steps, Unlinks, Store!ClearEntry
    <2> QED BY <1>2, <2>1, GoesTo
  <1>7. PlaceTypes'
    <2>1. entry' \in 0 .. made'
      BY <1>2, <1>3, <1>4 DEF PlaceTypes
    <2> QED BY <1>2, <1>3, <2>1 DEF PlaceTypes
  <1>8. Kept'
    BY <1>2, <1>3, <1>4, <1>5 DEF Kept
  <1>9. ChoiceStands(p) /\ FoundIsCurrent(p)
    BY <1>3 DEF ChoiceStands, FoundIsCurrent
  <1>10. Reader(p)' /\ Holder(p)'
    BY <1>1, <1>2, <1>3, <1>6 DEF Reader, Holder, Reads, Writes, Unlinks, Moves
  <1>11. Writer(p)' /\ Mover(p)'
    BY <1>3, <1>4, <1>5, <1>6 DEF Writer, Mover, Moves, Writes
  <1>12. \A q \in Procs \ {p} : Watches(q) /\ lease # q /\ lease' # q
    BY <1>2, <1>3, <1>6, StillWatches
  <1>13. 0 .. made \subseteq 0 .. made' /\ op'[p].value <= made' /\ op'[p].window \subseteq 0 .. made'
    BY <1>2, <1>3, <1>6
  <1> QED BY <1>3, <1>6, <1>7, <1>8, <1>9, <1>10, <1>11, <1>12, <1>13, PlacesChange

\* A rollback puts the file aside: its marker may be found from now on.
LEMMA ArchivesFile ==
  ASSUME StoreConstants, StoreInv, NEW p \in Procs, Store!ArchiveFile(p)
  PROVE  StoreInv'
  <1>1. /\ StoreTypes /\ PlaceTypes /\ Kept /\ Holder(p) /\ Mover(p) /\ NoProc \notin Procs
        /\ op[p].at = "archive file" /\ op[p] \in StoreOp /\ StoreWorld(world)
    BY DEF StoreInv, StoreTypes, PlaceTypes, StoreConstants, Store!ArchiveFile, Store!At
  <1>2. /\ UNCHANGED <<world, legacy, entry, markers, retired, made>>
        /\ file' = 0 /\ old' = FALSE
    BY DEF Store!ArchiveFile
  <1>3. /\ op[p].kind = "rollback" /\ "rollback" \in world.does /\ op[p].window = {}
        /\ world.keychain /\ (world.store = "flagged" => lease = p)
        /\ file # 0 => markers # <<>> /\ markers[1].name = op[p].marker
    BY <1>1 DEF Holder, Mover, Moves
  <1>4. lease' = p /\ \A q \in Procs \ {p} : lease # q
    <2>1. IF world.store = "flagged" THEN lease' = lease ELSE lease = NoProc /\ lease' = p
      BY DEF Store!ArchiveFile, Store!Locks
    <2>2. NoProc \notin Procs
      BY <1>1
    <2>3. CASE world.store = "flagged" BY <1>3, <2>1, <2>3
    <2>4. CASE world.store # "flagged" BY <2>1, <2>2, <2>4
    <2> QED BY <2>3, <2>4
  <1> DEFINE chosen == {markers[i].holds : i \in Store!Chosen(p)}
             r == [op[p] EXCEPT !.value = file, !.at = "promote marker"]
  <1>5. current' = current \cup chosen /\ op' = [op EXCEPT ![p] = r]
    BY <1>1 DEF Store!ArchiveFile
  <1>6. /\ markers \in Seq(Marker) /\ file \in Nat /\ file <= made /\ 0 \in 0 .. made
        /\ \A i \in DOMAIN markers : markers[i].holds \in 0 .. made
    BY <1>1, PlacesInRange
  <1>7. \A i \in DOMAIN markers : markers[i].name = op[p].marker => markers[i].holds \in current'
    BY <1>5 DEF Store!Chosen
  <1>8. chosen \subseteq 0 .. made
    BY <1>6 DEF Store!Chosen
  <1>9. /\ r \in StoreOp /\ r.at = "promote marker" /\ r.kind = "rollback" /\ r.value = file
        /\ r.window = {} /\ r.marker = op[p].marker
    BY <1>1, <1>3, <1>6 DEF StoreOp, Moves
  <1> HIDE DEF r, chosen
  <1>10. /\ op' \in [Procs -> StoreOp] /\ op'[p] = r /\ \A q \in Procs \ {p} : op'[q] = op[q]
    BY <1>1, <1>5, <1>9 DEF StoreTypes
  \* Loads and other rollbacks are of another world, transactions wait.
  <1>11. \A q \in Procs \ {p} : op[q].at # "archive file" /\ op[q].at \notin Reads
    <2>1. ASSUME NEW q \in Procs \ {p}
          PROVE  op[q].at # "archive file" /\ op[q].at \notin Reads
      <3>1. Reader(q) /\ Holder(q) /\ OneRollback
        BY DEF StoreInv
      <3>2. "load" \notin world.does
        BY <1>1, <1>3 DEF StoreWorld
      <3>3. op[q].at # "archive file"
        BY <1>3, <3>1 DEF Holder, OneRollback, Moves
      <3>4. op[q].at \notin Reads
        BY <1>4, <3>1, <3>2 DEF Reader, Holder, Reads
      <3> QED BY <3>3, <3>4
    <2> QED BY <2>1
  <1>12. ChoiceStands(p) /\ FoundIsCurrent(p)
    BY <1>11 DEF ChoiceStands, FoundIsCurrent
  <1>13. \A q \in Procs \ {p} : Watches(q) /\ lease # q /\ lease' # q
    BY <1>4, <1>10, <1>11 DEF Watches
  <1>14. PlaceTypes'
    <2>1. current' \subseteq 0 .. made' /\ file' \in 0 .. made' /\ lease' \in Procs
      BY <1>1, <1>2, <1>4, <1>5, <1>6, <1>8 DEF PlaceTypes
    <2> QED BY <1>1, <1>2, <2>1 DEF PlaceTypes
  <1>15. Kept'
    <2>1. markers # <<>> => 1 \in DOMAIN markers
      BY <1>6
    <2>2. markers # <<>> => markers[1].holds \in current'
      BY <1>1, <1>3, <1>5, <1>7, <2>1 DEF Kept
    <2> QED BY <1>1, <1>2, <1>3, <1>5, <2>2 DEF Kept
  <1>16. Reader(p)' /\ Holder(p)'
    BY <1>2, <1>3, <1>4, <1>9, <1>10 DEF Reader, Holder, Reads, Writes, Unlinks, Moves
  <1>17. Writer(p)' /\ Mover(p)'
    BY <1>1, <1>2, <1>3, <1>5, <1>7, <1>9, <1>10 DEF Writer, Mover, Writes, Kept
  <1>18. 0 .. made \subseteq 0 .. made' /\ op'[p].value <= made' /\ op'[p].window \subseteq 0 .. made'
    BY <1>2, <1>6, <1>9, <1>10
  <1> QED BY <1>2, <1>3, <1>9, <1>10, <1>12, <1>13, <1>14, <1>15, <1>16, <1>17, <1>18, PlacesChange

\* The marker becomes the file, or the file that was put aside does.
LEMMA PromotesMarker ==
  ASSUME StoreConstants, StoreInv, NEW p \in Procs, Store!PromoteMarker(p)
  PROVE  StoreInv'
  <1>1. op[p].at = "promote marker" /\ op[p].at \in Moves
    BY DEF Store!PromoteMarker, Store!At, Moves
  <1>2. /\ StoreTypes /\ PlaceTypes /\ Kept /\ Holder(p) /\ Mover(p) /\ StoreWorld(world)
        /\ op[p] \in StoreOp
        /\ op[p].kind \in world.does /\ lease = p /\ \A q \in Procs \ {p} : lease # q
        /\ op[p].value \in 0 .. made /\ op[p].value <= made /\ op[p].window \subseteq 0 .. made
    BY <1>1, Held
  <1>3. UNCHANGED <<world, old, legacy, entry, retired, lease, current, made>>
    BY DEF Store!PromoteMarker
  <1>4. /\ op[p].kind = "rollback" /\ op[p].window = {} /\ world.keychain /\ file = 0
        /\ (op[p].value # 0 => op[p].value \in current)
        /\ \A i \in DOMAIN markers : markers[i].name = op[p].marker => markers[i].holds \in current
        /\ "clear" \notin world.does
    BY <1>1, <1>2 DEF Holder, Mover, StoreWorld
  <1>5. /\ markers \in Seq(Marker) /\ Len(markers) \in Nat /\ Len(markers) <= Retention
        /\ Retention \in Nat
        /\ \A i \in DOMAIN markers :
             /\ markers[i].holds # 0 /\ markers[i].holds \in Nat /\ markers[i].holds <= made
             /\ markers[i].holds \in 0 .. made /\ markers[i].name <= retired
    BY <1>2, PlacesInRange
  <1>6. \A q \in Procs \ {p} : op[q].at # "archive file" /\ op[q].at \notin Reads
    BY <1>2, <1>4, Apart
  <1>7. ChoiceStands(p) /\ FoundIsCurrent(p)
    BY <1>6 DEF ChoiceStands, FoundIsCurrent
  <1>8. ASSUME op' \in [Procs -> StoreOp], \A q \in Procs \ {p} : op'[q] = op[q],
               op'[p].at \in {"drop entry", "done"}, op'[p].kind = op[p].kind,
               op'[p].window = op[p].window, op'[p].value = file', file' <= made,
               op'[p].at = "drop entry" => file' # 0 /\ file' \in current,
               PlaceTypes', Kept'
        PROVE  StoreInv'
    <2>1. Reader(p)' /\ Holder(p)'
      BY <1>2, <1>3, <1>4, <1>8 DEF Reader, Holder, Reads, Writes, Unlinks, Moves
    <2>2. Writer(p)' /\ Mover(p)'
      BY <1>3, <1>4, <1>8 DEF Writer, Mover, Moves, Writes
    <2>3. \A q \in Procs \ {p} : Watches(q) /\ lease # q /\ lease' # q
      BY <1>2, <1>3, <1>8, StillWatches
    <2>4. 0 .. made \subseteq 0 .. made' /\ op'[p].value <= made' /\ op'[p].window \subseteq 0 .. made'
      BY <1>2, <1>3, <1>8
    <2> QED BY <1>3, <1>7, <1>8, <2>1, <2>2, <2>3, <2>4, PlacesChange
  <1>9. ASSUME NEW k \in Store!Chosen(p), file' = markers[k].holds,
               markers' = Store!RemoveAt(markers, k),
               op' = [op EXCEPT ![p].value = markers[k].holds, ![p].at = "drop entry"]
        PROVE  StoreInv'
    <2>1. k \in DOMAIN markers /\ markers[k].name = op[p].marker
      BY <1>9 DEF Store!Chosen
    <2>2. /\ markers[k].holds \in current /\ markers[k].holds # 0 /\ markers[k].holds \in Nat
          /\ markers[k].holds <= made /\ markers[k].holds \in 0 .. made
      BY <1>4, <1>5, <2>1
    <2> DEFINE r == [op[p] EXCEPT !.value = markers[k].holds, !.at = "drop entry"]
    <2>3. r \in StoreOp /\ r.at = "drop entry" /\ r.kind = op[p].kind /\ r.window = op[p].window
          /\ r.value = markers[k].holds
      BY <1>2, <2>2 DEF StoreOp, Writes
    <2>4. op' = [op EXCEPT ![p] = r]
      BY <1>2, <1>9
    <2> HIDE DEF r
    <2>5. op' \in [Procs -> StoreOp] /\ op'[p] = r /\ \A q \in Procs \ {p} : op'[q] = op[q]
      BY <1>2, <2>3, <2>4 DEF StoreTypes
    <2>6. /\ markers' \in Seq(Marker) /\ Len(markers') <= Len(markers)
          /\ \A i \in DOMAIN markers' : \E j \in DOMAIN markers : markers'[i] = markers[j]
      BY <1>5, <1>9, <2>1, MarkerTaken
    <2>7. PlaceTypes'
      <3>1. Len(markers') <= Retention
        <4>1. Len(markers') \in Nat
          BY <2>6
        <4> QED BY <1>5, <2>6, <4>1
      <3>2. \A i \in DOMAIN markers' : markers'[i].name <= retired' /\ markers'[i].holds <= made'
        BY <1>3, <1>5, <2>6
      <3>3. file' \in 0 .. made'
        BY <1>3, <1>9, <2>2
      <3> QED BY <1>2, <1>3, <2>6, <3>1, <3>2, <3>3 DEF PlaceTypes
    <2>8. file' # 0 /\ file' \in current
      BY <1>9, <2>2
    <2>9. Kept'
      BY <1>2, <1>3, <1>4, <2>8 DEF Kept
    <2>10. file' <= made
      BY <1>9, <2>2
    <2>11. /\ op'[p].at = "drop entry" /\ op'[p].kind = op[p].kind /\ op'[p].window = op[p].window
           /\ op'[p].value = file'
      BY <1>9, <2>3, <2>5
    <2> QED BY <1>8, <2>5, <2>7, <2>8, <2>9, <2>10, <2>11
  <1>10. ASSUME file' = op[p].value, Store!Goto(p, "done"), markers' = markers
         PROVE  StoreInv'
    <2>1. /\ op' \in [Procs -> StoreOp] /\ \A q \in Procs \ {p} : op'[q] = op[q]
          /\ op'[p].at = "done" /\ op'[p].kind = op[p].kind /\ op'[p].value = op[p].value
          /\ op'[p].window = op[p].window
      <3>1. "done" \in Steps
        BY DEF Steps
      <3> QED BY <1>2, <1>10, <3>1, GoesTo
    <2>2. PlaceTypes'
      BY <1>2, <1>3, <1>10 DEF PlaceTypes
    <2>3. Kept'
      BY <1>2, <1>3, <1>4, <1>10 DEF Kept
    <2>4. file' <= made /\ op'[p].value = file'
      BY <1>2, <1>10, <2>1
    <2> QED BY <1>8, <2>1, <2>2, <2>3, <2>4
  <1> QED BY <1>9, <1>10 DEF Store!PromoteMarker

-----------------------------------------------------------------------------
\* Every step keeps the invariant.
LEMMA StoreStep ==
  ASSUME StoreConstants, StoreInv, [Store!Next]_(Store!vars)
  PROVE  StoreInv'
  <1>1. CASE UNCHANGED Store!vars
    <2>1. UNCHANGED <<world, file, old, legacy, entry, markers, retired, lease, op, current, made>>
      BY <1>1 DEF Store!vars
    <2>2. StoreTypes'
      BY <2>1 DEF StoreInv, StoreTypes, PlaceTypes
    <2>3. Kept' /\ OneRollback'
      BY <2>1 DEF StoreInv, Kept, OneRollback
    <2>4. ASSUME NEW p \in Procs
          PROVE  Reader(p)' /\ Holder(p)' /\ Writer(p)' /\ Mover(p)'
      <3>1. Reader(p) /\ Holder(p) /\ Writer(p) /\ Mover(p)
        BY DEF StoreInv
      <3>2. Reader(p)' /\ Holder(p)'
        BY <2>1, <3>1 DEF Reader, Holder
      <3>3. Writer(p)' /\ Mover(p)'
        BY <2>1, <3>1 DEF Writer, Mover
      <3> QED BY <3>2, <3>3
    <2> QED BY <2>2, <2>3, <2>4 DEF StoreInv
  <1>2. ASSUME NEW p \in Procs, Store!Begin(p) \/ Store!Step(p) \/ Store!Crash(p)
        PROVE  StoreInv'
    <2>1. CASE Store!Begin(p) BY <2>1, BeginSteps
    <2>2. CASE Store!Crash(p) BY <2>2, OtherSteps
    <2>3. CASE Store!Step(p)
      BY <2>3, LoadSteps, OtherSteps, Persists, Retires, WritesEntry, SyncsMarkers, WritesFile,
         DropsEntry, ClearsFile, ClearsEntry, ClearsMarkers, ArchivesFile, PromotesMarker
         DEF Store!Step
    <2> QED BY <1>2, <2>1, <2>2, <2>3
  <1> QED BY <1>1, <1>2 DEF Store!Next

(***************************************************************************)
(* A load returns the pool the last save, clear or rollback left, or one   *)
(* under way meanwhile, and some place holds that pool through every       *)
(* failed rename or write, every refusal, crash, move to the keychain and  *)
(* rollback (loadAccounts, saveAccountsUnlocked and clearAccounts of       *)
(* load-save.ts, their like in flagged.ts, and the rollback of             *)
(* codex-keychain.ts).                                                     *)
(***************************************************************************)
THEOREM StoreStaysSafe ==
  ASSUME StoreConstants
  PROVE  Store!Spec => [](Store!TypeOK /\ Store!LoadIsCurrent /\ Store!PoolSurvives)
  <1>1. Store!Init => StoreInv
    BY StoreStarts
  <1>2. StoreInv /\ [Store!Next]_(Store!vars) => StoreInv'
    BY StoreStep
  <1>3. StoreInv => Store!TypeOK
    <2> SUFFICES ASSUME StoreInv PROVE Store!TypeOK
      OBVIOUS
    <2>1. StoreTypes /\ PlaceTypes /\ NoProc \notin Procs
      BY DEF StoreInv, StoreTypes, StoreConstants
    <2>2. \A i \in DOMAIN markers : markers[i] \in [name : 1 .. retired, holds : 1 .. made]
      BY <2>1, PlacesInRange
    <2>3. ASSUME NEW p \in Procs
          PROVE  op[p].value \in 0 .. made /\ op[p].window \subseteq 0 .. made
      <3>1. op[p].value \in Nat
        BY <2>1 DEF StoreTypes, StoreOp
      <3>2. made \in Nat /\ op[p].value <= made /\ op[p].window \subseteq 0 .. made
        BY <2>1 DEF StoreTypes, PlaceTypes
      <3> QED BY <3>1, <3>2, UpTo
    <2>4. lease # NoProc => op[lease].at # "idle"
      <3>1. lease # NoProc => lease \in Procs
        BY <2>1 DEF PlaceTypes
      <3> QED BY <3>1 DEF StoreInv, Holder
    <2>5. /\ world \in Worlds /\ old \in BOOLEAN /\ current \subseteq 0 .. made
          /\ Len(markers) <= Retention /\ {file, legacy, entry} \subseteq 0 .. made
      BY <2>1, PlacesInRange DEF PlaceTypes
    <2> QED BY <2>2, <2>3, <2>4, <2>5 DEF Store!TypeOK, Store!At
  <1>4. StoreInv => Store!LoadIsCurrent
    BY DEF StoreInv, Reader, Store!LoadIsCurrent, Store!At
  <1>5. StoreInv => Store!PoolSurvives
    <2> SUFFICES ASSUME StoreInv, 0 \notin current
                 PROVE  \E v \in current :
                          v \in {file, entry, legacy} \cup {markers[i].holds : i \in DOMAIN markers}
      BY DEF Store!PoolSurvives
    <2>1. Kept /\ (markers # <<>> => 1 \in DOMAIN markers)
      BY DEF StoreInv, StoreTypes, PlaceTypes
    <2>2. entry # 0 \/ file # 0 \/ markers # <<>>
      BY <2>1 DEF Kept
    <2> QED BY <2>1, <2>2 DEF Kept
  <1> QED BY <1>1, <1>2, <1>3, <1>4, <1>5, PTL DEF Store!Spec
=============================================================================
