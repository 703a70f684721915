----------------------------- MODULE MCServices -----------------------------
(***************************************************************************)
(* Instances, for TLC, of what the processes share and keep in memory:     *)
(* RefreshQueue, ManagerCache, QuotaNotify, QuotaGuard, StatusLine,        *)
(* PoolReadings, PromptCache, ConfigFile, WorktreeLock, CustomSelection    *)
(* and RotationMonitor.  They do not call each other here: a behaviour is  *)
(* one of a single part, and the parts take turns in the variables x1 to   *)
(* x14.                                                                    *)
(*                                                                         *)
(* Case "sound" is what is checked; under each other case the invariant    *)
(* Refuted fails in the part that Cases names (README, disagreements).     *)
(***************************************************************************)
EXTENDS Integers, Sequences, FiniteSets, TLC

CONSTANTS
  Parts,  \* the parts to check
  Case    \* "sound", or a disagreement

VARIABLES part, x1, x2, x3, x4, x5, x6, x7, x8, x9, x10, x11, x12, x13, x14

After7 == <<part, x8, x9, x10, x11, x12, x13, x14>>
After9 == <<part, x10, x11, x12, x13, x14>>
After10 == <<part, x11, x12, x13, x14>>
After12 == <<part, x13, x14>>
All == <<x1, x2, x3, x4, x5, x6, x7, x8, x9, x10, x11, x12, x13, x14>>

Queue == INSTANCE RefreshQueue WITH
  Callers <- {"c1", "c2"}, MaxAge <- 1, MaxToken <- 3, MaxExchanges <- 3, MaxClock <- 3,
  clock <- x1, live <- x2, exchanges <- x3, pending <- x4, rotation <- x5, recent <- x6, calls <- x7

Cache == INSTANCE ManagerCache WITH
  Fetches <- {"f1", "f2"}, ToolsOverlap <- Case = "tools", StartFails <- Case = "start",
  MaxWrites <- 3, MaxLoads <- 4, MaxFailures <- 4,
  file <- x1, own <- x2, foreign <- x3, managers <- x4, cached <- x5, shared <- x6, loads <- x7,
  fetches <- x8, watch <- x9, retry <- x10, tool <- x11, failures <- x12

One == {"p1"}
Two == {"p1", "p2"}

\* One monitor with every fault, or two without.
AlertFaults(kind) == IF kind = "alone" THEN {"delivery", "lease", "dispose", "lost"}
                     ELSE IF Case = "alert lost" THEN {"delivery"} ELSE {}
Alerts(kind) == INSTANCE QuotaNotify WITH
  Procs <- IF kind = "alone" THEN One ELSE Two, Accounts <- {"a1"},
  Windows <- IF kind = "alone" THEN {"w1", "w2"} ELSE {"w1"}, Top <- 2, Thresholds <- {0, 1},
  Every <- Case # "alert lost", Interval <- 2, InOrder <- Case # "alert twice",
  Faults <- AlertFaults(kind), MaxClock <- 4,
  left <- x1, clock <- x2, state <- x3, memory <- x4, monitor <- x5, checks <- x6, told <- x7,
  last <- x8, early <- x9

Guard == INSTANCE QuotaGuard WITH
  Monitors <- IF Case = "lifted" THEN One ELSE Two,
  Commands <- IF Case = "lifted" THEN {"c1"} ELSE {},
  Windows <- IF Case = "lifted" THEN {"week", "five"} ELSE {"week"},
  Credits <- IF Case = "lifted" THEN {"k1"} ELSE {"k1", "k2"},
  Protect <- TRUE, Redeem <- TRUE, Week <- 9, MaxClock <- IF Case = "lifted" THEN 4 ELSE 3,
  clock <- x1, backend <- x2, record <- x3, jobs <- x4, tried <- x5, bought <- x6, evidence <- x7

\* One account whose token rotates, or two of which the host switches.
Line(kind) == INSTANCE StatusLine WITH
  Accounts <- IF kind = "rotated" THEN {"a"} ELSE {"a", "b"}, Lines <- IF Case = "together" THEN {"l1", "l2"} ELSE {"l1"},
  Sessions <- {"l1"}, Together <- Case = "together", Requests <- {"r1"}, Slow <- {}, FreshFor <- 1,
  MaxVersion <- 2, MaxToken <- IF kind = "rotated" THEN 2 ELSE 1,
  MaxClock <- IF kind = "rotated" THEN 3 ELSE 1,
  clock <- x1, now <- x2, base <- x3, token <- x4, pool <- x5, active <- x6, shared <- x7,
  session <- x8, kv <- x9, line <- x10, current <- x11, refresh <- x12, poll <- x13,
  response <- x14

\* The host's prompt with two fetches in flight, the model's instructions with one.
HostSources == <<"a", "b">>
CodexSources == <<"catalog", "file">>
Prompt(kind) == INSTANCE PromptCache WITH
  Processes <- One, Jobs <- IF kind = "host" \/ Case = "pair" THEN {"j1", "j2"} ELSE {"j1"},
  Codex <- kind = "codex", Sources <- IF kind = "host" THEN HostSources ELSE CodexSources,
  Faults <- IF Case = "pair" THEN {} ELSE {"fetch", "write", "restart", "damage"},
  MaxVersion <- 2, MaxFaults <- 2,
  upstream <- x1, body <- x2, meta <- x3, memory <- x4, failed <- x5, tag <- x6, answer <- x7,
  job <- x8, faults <- x9

\* The routing file: texts an editor may leave, and the calls of the pool tool.
Text(m, big, n, mode, valid) ==
  [parses |-> TRUE, other |-> 0, valid |-> valid,
   pools |-> [k \in {"m", "M", "n"} |-> CASE k = "m" -> m [] k = "M" -> big [] k = "n" -> n],
   modes |-> [k \in {"m", "M", "n"} |-> IF k = "m" THEN mode ELSE "none"]]
Texts == IF Case = "spellings" THEN {Text({"s1"}, {"s2"}, {}, "none", TRUE)}
         ELSE {Text({"w"}, {}, {"s1"}, "strict", TRUE), Text({}, {"s1"}, {}, "none", FALSE)}
OneText == {Text({}, {"s1"}, {}, "none", TRUE)}
Ask(what, model, ids) == [what |-> what, model |-> model, ids |-> ids]
Asks == {Ask("add", "m", {"s1"}), Ask("remove", "m", {"s1"}), Ask("set", "n", {"s1"}),
         Ask("clear", "m", {}), Ask("set-mode", "m", {})}
OneAsk == {Ask("clear", "n", {})}
FileHazards(kind) == IF kind = "joined" THEN {"join"}
                     ELSE IF kind = "held" THEN {"left"} ELSE {"left"} \cup ({Case} \cap {"edit", "stale", "join"})

\* What is written and read, how long a held lock stalls the calls, and a login
\* that adds a seat meanwhile.
File(kind) == INSTANCE ConfigFile WITH
  Procs <- Two, Edits <- IF kind = "written" THEN Texts ELSE OneText,
  Requests <- IF kind = "written" THEN Asks ELSE OneAsk, Scoped <- Case = "scoped",
  Hazards <- FileHazards(kind), MaxAsks <- IF kind = "held" THEN 3 ELSE 2,
  MaxVersion <- IF kind = "written" THEN 2 ELSE 1, MaxClock <- IF kind = "held" THEN 6 ELSE 0,
  disk <- x1, accounts <- x2, cache <- x3, load <- x4, queue <- x5, stage <- x6, lock <- x7,
  contended <- x8, clock <- x9, asks <- x10, routed <- x11, stalled <- x12

\* The pool's line: one account of two terminals, or a pool that changes under one.
PoolLine(kind) == INSTANCE PoolReadings WITH
  Seats <- IF kind = "moved" THEN {"a", "b"} ELSE {"a"},
  Pools <- IF kind = "moved" THEN {<<"a", "b">>, <<"b">>, (2 :> "b"), <<>>} ELSE {<<"a">>},
  Terminals <- IF kind = "moved" \/ Case = "newest" THEN {"t1"} ELSE {"t1", "t2"},
  FreshFor <- 1, OldBuild <- TRUE,
  Hazards <- CASE Case = "newest" -> {"served"}
               [] Case = "slow start" -> {"served", "dies", "slow start"}
               [] OTHER -> IF kind = "moved" THEN {"login", "moves"} ELSE {"served", "dies", "login"},
  MaxVersion <- CASE Case = "newest" -> 3 [] kind = "moved" -> 1 [] OTHER -> 2,
  MaxToken <- IF kind = "moved" THEN 2 ELSE 1,
  MaxClock <- IF Case \in {"newest", "slow start"} THEN 3 ELSE 2,
  clock <- x1, used <- x2, base <- x3, dead <- x4, token <- x5, pool <- x6, latest <- x7,
  file <- x8, pass <- x9, view <- x10

\* Two sessions on a lock that a third may have left, or one that loads and saves
\* at once after sessions of this host and of another.
Lock(kind) == INSTANCE WorktreeLock WITH
  Procs <- IF kind = "shared" THEN Two ELSE One,
  Old <- IF kind = "shared" THEN {"o1"} ELSE {"o1", "o2"},
  Host <- [p \in {"p1", "p2", "o1", "o2"} |-> IF p = "o2" THEN "h2" ELSE "h1"],
  Ops <- IF kind = "shared" THEN {"load"} ELSE {"load", "save"},
  StaleAfter <- 1, Throttle <- IF kind = "shared" THEN 1 ELSE 2,
  Fails <- IF kind = "shared" THEN {} ELSE {"io", "crash"},
  MaxClock <- IF kind = "shared" THEN 2 ELSE 3, MaxChecks <- IF kind = "shared" THEN 2 ELSE 3,
  clock <- x1, lock <- x2, state <- x3, owned <- x4, leave <- x5, check <- x6, warned <- x7,
  warnings <- x8, done <- x9, taken <- x10

\* Two requests that want the one child at a time, or one with every fault.
Policy(kind) == INSTANCE CustomSelection WITH
  Requests <- IF kind = "alone" THEN {"r1"} ELSE {"r1", "r2"}, Accounts <- {1, 2}, Preferred <- {2},
  Strict <- kind = "alone" /\ Case # "retired", MaxChildren <- 1, Windows <- TRUE,
  Faults <- IF kind = "alone" THEN {"flood", "spawn", "stdin", "deadline", "abort", "block", "reload", "move"}
            ELSE {"block", "abort", "deadline"},
  MaxFaults <- IF kind = "alone" THEN 3 ELSE 1,
  cached <- x1, eligible <- x2, path <- x3, aborted <- x4, active <- x5, request <- x6, child <- x7,
  chosen <- x8, faults <- x9

\* One seat with every hazard, or three of two paths, one of which is redeemed.
Monitor(kind) == INSTANCE RotationMonitor WITH
  Seats <- IF kind = "wide" THEN {1, 2, 3} ELSE {1},
  Pools <- IF kind = "wide" THEN <<{1, 2, 3}, {1, 3}>> ELSE <<{1}, {1}>>,
  Every <- [usage |-> 2, resets |-> 3], CheckEvery <- 1, Late <- Case = "late headers",
  Hazards <- IF kind = "wide" THEN {"redeem"} ELSE IF Case = "late headers" THEN {"redeem", "headers"}
             ELSE {"redeem", "headers", "dispose", "move", "fail", "shrink"},
  MaxVersion <- IF Case = "late headers" THEN 3 ELSE 2, MaxMoves <- IF Case = "late headers" THEN 0 ELSE 1,
  MaxClock <- IF kind = "wide" THEN 2 ELSE 3,
  clock <- x1, used <- x2, base <- x3, redeemed <- x4, redeeming <- x5, reply <- x6, path <- x7,
  pool <- x8, moves <- x9, monitor <- x10, check <- x11, poll <- x12, states <- x13, seen <- x14

-----------------------------------------------------------------------------
(***************************************************************************)
(* One part at a time; the variables it does not need stay 0.              *)
(***************************************************************************)
Zero12 == x13 = 0 /\ x14 = 0
Zero10 == x11 = 0 /\ x12 = 0 /\ Zero12
Zero9 == x10 = 0 /\ Zero10
Zero7 == x8 = 0 /\ x9 = 0 /\ Zero9

Init ==
  /\ part \in Parts
  /\ \/ part = "queue" /\ Queue!Init /\ Zero7
     \/ part = "cache" /\ Cache!Init /\ Zero12
     \/ part = "alerts" /\ Alerts("alone")!Init /\ Zero9
     \/ part = "two alerts" /\ Alerts("pair")!Init /\ Zero9
     \/ part = "guard" /\ Guard!Init /\ Zero7
     \/ part = "line" /\ Line("rotated")!Init
     \/ part = "switched line" /\ Line("switched")!Init
     \/ part = "host prompt" /\ Prompt("host")!Init /\ Zero9
     \/ part = "codex prompt" /\ Prompt("codex")!Init /\ Zero9
     \/ part = "file" /\ File("written")!Init /\ Zero12
     \/ part = "held file" /\ File("held")!Init /\ Zero12
     \/ part = "joined file" /\ File("joined")!Init /\ Zero12
     \/ part = "pool line" /\ PoolLine("steady")!Init /\ Zero10
     \/ part = "moved pool" /\ PoolLine("moved")!Init /\ Zero10
     \/ part = "shared lock" /\ Lock("shared")!Init /\ Zero10
     \/ part = "lone lock" /\ Lock("lone")!Init /\ Zero10
     \/ part = "policy" /\ Policy("alone")!Init /\ Zero9
     \/ part = "two policies" /\ Policy("pair")!Init /\ Zero9
     \/ part = "monitor" /\ Monitor("one")!Init
     \/ part = "wide monitor" /\ Monitor("wide")!Init

Next ==
  \/ part = "queue" /\ Queue!Next /\ UNCHANGED After7
  \/ part = "cache" /\ Cache!Next /\ UNCHANGED After12
  \/ part = "alerts" /\ Alerts("alone")!Next /\ UNCHANGED After9
  \/ part = "two alerts" /\ Alerts("pair")!Next /\ UNCHANGED After9
  \/ part = "guard" /\ Guard!Next /\ UNCHANGED After7
  \/ part = "line" /\ Line("rotated")!Next /\ UNCHANGED part
  \/ part = "switched line" /\ Line("switched")!Next /\ UNCHANGED part
  \/ part = "host prompt" /\ Prompt("host")!Next /\ UNCHANGED After9
  \/ part = "codex prompt" /\ Prompt("codex")!Next /\ UNCHANGED After9
  \/ part = "file" /\ File("written")!Next /\ UNCHANGED After12
  \/ part = "held file" /\ File("held")!Next /\ UNCHANGED After12
  \/ part = "joined file" /\ File("joined")!Next /\ UNCHANGED After12
  \/ part = "pool line" /\ PoolLine("steady")!Next /\ UNCHANGED After10
  \/ part = "moved pool" /\ PoolLine("moved")!Next /\ UNCHANGED After10
  \/ part = "shared lock" /\ Lock("shared")!Next /\ UNCHANGED After10
  \/ part = "lone lock" /\ Lock("lone")!Next /\ UNCHANGED After10
  \/ part = "policy" /\ Policy("alone")!Next /\ UNCHANGED After9
  \/ part = "two policies" /\ Policy("pair")!Next /\ UNCHANGED After9
  \/ part = "monitor" /\ Monitor("one")!Next /\ UNCHANGED part
  \/ part = "wide monitor" /\ Monitor("wide")!Next /\ UNCHANGED part

Spec == Init /\ [][Next]_<<part, All>>

-----------------------------------------------------------------------------
\* Each property of a part is checked with the part's type invariant.

\* What the callers share is theirs to share: a refresh token is exchanged once
\* (refresh-queue.ts:126), a manager that is no longer the cached one does not
\* write the pool its successor loaded (index.ts:2018), no session takes a live
\* one's lock without a word except in a race (worktree-lock.ts:225), and a policy
\* gives its child's slot back and chooses what may still serve (runner.ts:28).
SharedSafe ==
  /\ part = "queue" => Queue!TypeOK /\ Queue!QueueSafe
  /\ part = "cache" => Cache!TypeOK /\ Cache!CacheSafe
  /\ part = "shared lock" => Lock("shared")!TypeOK /\ Lock("shared")!LockSafe
  /\ part = "lone lock" => Lock("lone")!TypeOK /\ Lock("lone")!LockSafe
  /\ part = "policy" => Policy("alone")!TypeOK /\ Policy("alone")!SelectionSafe
  /\ part = "two policies" => Policy("pair")!TypeOK /\ Policy("pair")!SelectionSafe

\* The quota is judged once by everyone: a crossing is announced once and not
\* forgotten (quota-notifications.ts:413), a credit is redeemed once, and no
\* older reading lifts a block (codex-usage.ts:622).
QuotaSafe ==
  /\ part = "alerts" => Alerts("alone")!TypeOK /\ Alerts("alone")!NotifySafe
  /\ part = "two alerts" => Alerts("pair")!TypeOK /\ Alerts("pair")!NotifySafe
  /\ part = "guard" => Guard!TypeOK /\ Guard!GuardSafe

\* What is kept is what was read: no reading is stamped newer than it is
\* (tui.ts:405, tui-quota-overview.ts:262, custom-rotation/observations.ts:47), no
\* text passes for another source's (prompts/codex.ts:884), and a cached
\* configuration is one the file held (config.ts).
ReadingsSafe ==
  /\ part = "line" => Line("rotated")!TypeOK /\ Line("rotated")!HonestStamps
  /\ part = "switched line" => Line("switched")!TypeOK /\ Line("switched")!HonestStamps
  /\ part = "host prompt" => Prompt("host")!TypeOK /\ Prompt("host")!Genuine
  /\ part = "codex prompt" => Prompt("codex")!TypeOK /\ Prompt("codex")!Genuine
  /\ part = "file" => File("written")!TypeOK /\ File("written")!ConfigSafe
  /\ part = "held file" => File("held")!TypeOK /\ File("held")!ConfigSafe
  /\ part = "joined file" => File("joined")!TypeOK /\ File("joined")!CacheIsTrue
  /\ part = "pool line" => PoolLine("steady")!TypeOK /\ PoolLine("steady")!ReadingsSound
  /\ part = "moved pool" => PoolLine("moved")!TypeOK /\ PoolLine("moved")!ReadingsSound
  /\ part = "monitor" => Monitor("one")!TypeOK /\ Monitor("one")!MonitorSafe
  /\ part = "wide monitor" => Monitor("wide")!TypeOK /\ Monitor("wide")!MonitorSafe

\* What the code does not keep, by Case: false in a state TLC reaches.
Refuted ==
  CASE Case = "foreign" -> part = "cache" => Cache!ForeignAdopted
    [] Case \in {"tools", "start"} -> SharedSafe
    [] Case = "pair" -> part = "codex prompt" => Prompt("codex")!PairMatches
    [] Case \in {"alert lost", "alert twice", "lifted"} -> QuotaSafe
    [] Case \in {"together", "scoped", "edit", "stale", "join", "spellings", "late headers", "slow start"} -> ReadingsSafe
    [] Case = "late exit" -> part = "shared lock" => Lock("shared")!ReleasesItsOwn
    [] Case = "late write" -> part = "shared lock" => Lock("shared")!NoneLeft
    [] Case = "retired" -> part = "policy" => Policy("alone")!LivePool
    [] Case = "hurried" -> part = "monitor" => Monitor("one")!SpacedAnyway
    [] Case = "newest" -> part = "pool line" => PoolLine("steady")!NewestShown
    [] OTHER -> TRUE
=============================================================================
