----------------------------- MODULE MCRequests -----------------------------
(***************************************************************************)
(* Instances, for TLC, of what is done to one request on its way:          *)
(* RequestBody, ModelChoice, Rotation, ErrorVerdict, Responses and         *)
(* RecoveryHook.  A behaviour is one of a single part, and the parts take  *)
(* turns in the variables x1 to x11.                                       *)
(*                                                                         *)
(* Case "sound" is what is checked; under each other case the invariant    *)
(* Refuted fails in one of the parts (README, disagreements).              *)
(***************************************************************************)
EXTENDS Integers, Sequences, FiniteSets

CONSTANTS
  Parts,  \* the parts to check
  Case    \* "sound", or a disagreement

VARIABLES part, x1, x2, x3, x4, x5, x6, x7, x8, x9, x10, x11

After5 == <<part, x6, x7, x8, x9, x10, x11>>
After7 == <<part, x8, x9, x10, x11>>
After9 == <<part, x10, x11>>
All == <<x1, x2, x3, x4, x5, x6, x7, x8, x9, x10, x11>>

\* Conversations that begin with up to two system messages.
System(text) == [type |-> "system", kind |-> "none", call |-> 0, text |-> text]
Beginnings == {<<>>, <<System("short")>>, <<System("promptenv")>>,
               <<System("prompt"), System("medium")>>}
Body == INSTANCE RequestBody WITH
  Heads <- Beginnings, Kinds <- IF Case = "kinds" THEN {"function", "shell", "custom"} ELSE {"function"},
  References <- TRUE, Plans <- [fast : {"off", "hybrid", "always"}, codexMode : BOOLEAN],
  Window <- 3, Lookback <- 4, MaxItems <- IF Case = "heads" THEN 7 ELSE 6,
  plan <- x1, history <- x2, turn <- x3, sent <- x4, offered <- x5

\* Every name of the catalogue, its aliases, some spelled with a suffix, and one unknown.
Catalogue == INSTANCE ModelChoice WITH
  Names <- {}, Requested <- {}, Tiers <- {}, Policies <- {}, MaxSwitches <- 0,
  policy <- x1, name <- x2, asked <- x3, wire <- x4, attempted <- x5, switches <- x6, state <- x7
HostNames == Catalogue!Models \cup {a[1] : a \in Catalogue!Aliases}
               \cup {Append(m, "oauth") : m \in Catalogue!Models} \cup {<<"other">>}
               \cup IF Case = "names" THEN {<<"codex", "max">>} ELSE {}
FallbackPolicies == [fallback : BOOLEAN, optOut : {{}, {"gpt6"}}]
Choice == INSTANCE ModelChoice WITH
  Names <- HostNames, Requested <- {"unset", "none", "minimal", "xhigh", "ultra", "silly"},
  Tiers <- {"unset", "priority", "default"}, Policies <- FallbackPolicies,
  MaxSwitches <- IF Case = "mixed" THEN 2 ELSE 1,
  policy <- x1, name <- x2, asked <- x3, wire <- x4, attempted <- x5, switches <- x6, state <- x7

\* Every strategy over three accounts; and an account removed by another process.
Account(kind) == INSTANCE Rotation WITH
  Accounts <- IF kind = "kept" \/ Case # "sound" THEN {"a", "b", "c"} ELSE {"a", "b"},
  Requests <- {"r1"}, Cap <- 1, Best <- IF kind = "kept" \/ Case # "sound" THEN 1 ELSE 0,
  Strategies <- IF kind = "kept" THEN {"round-robin", "sticky", "custom", "hybrid"} ELSE {"round-robin"},
  Hazards <- IF kind = "dropped" THEN {"dropped elsewhere"} ELSE {Case} \cap {"late"},
  strategy <- x1, pool <- x2, blocked <- x3, cursor <- x4, current <- x5, bucket <- x6,
  health <- x7, recent <- x8, held <- x9, own <- x10, passed <- x11

\* Every cause of one answer, or answers to two requests handled in any order.
Lengths == [w \in {"five", "week"} |-> IF w = "five" THEN 2 ELSE 5]
Verdict(kind) == INSTANCE ErrorVerdict WITH
  Windows <- {"five", "week"}, Length <- Lengths, Off <- {},
  Causes <- IF kind = "pair" THEN {"usage", "served"}
            ELSE {"served", "usage", "throttle", "overload", "plan", "deactivated", "unsupported",
                  "overflow", "auth", "server", "other"},
  Retries <- IF kind = "pair" THEN {0} ELSE {0, 1, 5}, Bare <- Case = "bare",
  MaxInFlight <- IF kind = "pair" THEN 2 ELSE 1, MaxClock <- IF Case = "bare" THEN 2 ELSE 1,
  clock <- x1, quota <- x2, echo <- x3, inFlight <- x4, limited <- x5, exhausted <- x6,
  backoff <- x7, last <- x8, spentUntil <- x9

\* Every stream of up to three lines, and one of two results.
Lines == {"ok", "err", "open", "rest", "delta", "done", "note", "blank"}
Streams == (UNION {[1..n -> Lines] : n \in 0..3}) \cup {<<"delta", "blank", "ok", "blank", "err">>}
Answer == INSTANCE Responses WITH
  Bodies <- Streams, Logging <- FALSE, Limit <- 12, Keep <- 4, Stall <- 2, Total <- 3,
  Status <- {200, 400},
  task <- x1, status <- x2, body <- x3, sent <- x4, reader <- x5, parts <- x6, clock <- x7,
  stallAt <- x8, dueAt <- x9, source <- x10, verdict <- x11

Repair == INSTANCE RecoveryHook WITH
  Calls <- {"c1", "c2"}, Kinds <- {"tool", "order", "disabled"}, Unnamed <- Case = "unnamed",
  MaxParts <- 2, Resume <- TRUE, Shift <- IF Case = "shift" THEN 1 ELSE 0,
  Faults <- {"listing", "gone", "prompt", "turn"} \cup ({Case} \cap {"write"}),
  parts <- x1, newest <- x2, call <- x3, processing <- x4, answers <- x5

-----------------------------------------------------------------------------
(***************************************************************************)
(* One part at a time; the variables it does not need stay 0.              *)
(***************************************************************************)
Zero9 == x10 = 0 /\ x11 = 0
Zero7 == x8 = 0 /\ x9 = 0 /\ Zero9
Zero5 == x6 = 0 /\ x7 = 0 /\ Zero7

Init ==
  /\ part \in Parts
  /\ \/ part = "body" /\ Body!Init /\ Zero5
     \/ part = "choice" /\ Choice!Init /\ Zero7
     \/ part = "account" /\ Account("kept")!Init
     \/ part = "dropped account" /\ Account("dropped")!Init
     \/ part = "verdict" /\ Verdict("single")!Init /\ Zero9
     \/ part = "two verdicts" /\ Verdict("pair")!Init /\ Zero9
     \/ part = "answer" /\ Answer!Init
     \/ part = "repair" /\ Repair!Init /\ Zero5

Next ==
  \/ part = "body" /\ Body!Next /\ UNCHANGED After5
  \/ part = "choice" /\ Choice!Next /\ UNCHANGED After7
  \/ part = "account" /\ Account("kept")!Next /\ UNCHANGED part
  \/ part = "dropped account" /\ Account("dropped")!Next /\ UNCHANGED part
  \/ part = "verdict" /\ Verdict("single")!Next /\ UNCHANGED After9
  \/ part = "two verdicts" /\ Verdict("pair")!Next /\ UNCHANGED After9
  \/ part = "answer" /\ Answer!Next /\ UNCHANGED part
  \/ part = "repair" /\ Repair!Next /\ UNCHANGED After5

Spec == Init /\ [][Next]_<<part, All>>

-----------------------------------------------------------------------------
\* Each property of a part is checked with the part's type invariant.

\* A request says what the host asked: every tool call it carries has its result
\* (request-transformer.ts), and goes out under a model and effort the provider
\* accepts, whichever fallback was taken (fetch-helpers.ts:573).
RequestSafe ==
  /\ part = "body" => Body!TypeOK /\ Body!BodySafe
  /\ part = "choice" => Choice!TypeOK /\ Choice!ChoiceSafe

\* The account is chosen on its own record: indices that shift when accounts are
\* removed take their health and place with them, and no account is skipped for
\* more than a round (rotation.ts:514).
AccountSafe ==
  /\ part = "account" => Account("kept")!TypeOK /\ Account("kept")!RotationSafe
  /\ part = "dropped account" => Account("dropped")!TypeOK /\ Account("dropped")!NoOneSkipped

\* An account is blocked for as long as its provider says and on no other
\* account, in whatever order answers are handled (fetch-helpers.ts:1349).
VerdictSafe ==
  /\ part = "verdict" => Verdict("single")!TypeOK /\ Verdict("single")!VerdictSafe
  /\ part = "two verdicts" => Verdict("pair")!TypeOK /\ Verdict("pair")!VerdictSafe

\* An answer is read as it was sent, however it was cut (response-handler.ts:368),
\* and a session is repaired once and truthfully (recovery.ts).
AnswerSafe ==
  /\ part = "answer" => Answer!TypeOK /\ Answer!ReadSafe
  /\ part = "repair" => Repair!TypeOK /\ Repair!RecoverySafe

\* What the code does not keep, by Case: false in a state TLC reaches.
Refuted ==
  CASE Case = "heads" -> part = "body" => Body!HeadsSent
    [] Case = "mixed" -> part = "choice" => Choice!WalkedAll
    [] Case = "unread" -> part = "answer" => Answer!AnswerNotThrown
    [] Case = "dropped" -> part = "dropped account" => Account("dropped")!RotationSafe
    [] Case \in {"kinds", "names"} -> RequestSafe
    [] Case = "late" -> AccountSafe
    [] Case = "bare" -> VerdictSafe
    [] Case \in {"shift", "write", "unnamed"} -> AnswerSafe
    [] OTHER -> TRUE
=============================================================================
