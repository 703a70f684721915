----------------------------- MODULE MCLiveness -----------------------------
(***************************************************************************)
(* What must eventually happen, for TLC: QuotaGuard, StatusLine and        *)
(* PromptCache come back to what is true once the world stops changing,    *)
(* and LoginFlow and Responses let go of what they wait for.  A behaviour  *)
(* is one of a single part, in the variables x1 to x14.  The fairness is   *)
(* the parts' own (timers fire, the provider answers, a polling loop       *)
(* polls), each action guarded by its part; requests, failures, users and  *)
(* other processes have none.                                              *)
(***************************************************************************)
EXTENDS Integers, Sequences, FiniteSets

CONSTANT Parts  \* the parts to check

VARIABLES part, x1, x2, x3, x4, x5, x6, x7, x8, x9, x10, x11, x12, x13, x14

After7 == <<part, x8, x9, x10, x11, x12, x13, x14>>
After8 == <<part, x9, x10, x11, x12, x13, x14>>
After9 == <<part, x10, x11, x12, x13, x14>>
After11 == <<part, x12, x13, x14>>
All == <<x1, x2, x3, x4, x5, x6, x7, x8, x9, x10, x11, x12, x13, x14>>

\* One monitor, one command that redeems the one credit there is.
Guard == INSTANCE QuotaGuard WITH
  Monitors <- {"p1"}, Commands <- {"c1"}, Windows <- {"week"}, Credits <- {"k1"},
  Protect <- FALSE, Redeem <- TRUE, Week <- 9, MaxClock <- 2,
  clock <- x1, backend <- x2, record <- x3, jobs <- x4, tried <- x5, bought <- x6, evidence <- x7

\* One line of one account, whose reading changes twice.
Line == INSTANCE StatusLine WITH
  Accounts <- {"a"}, Lines <- {"l1"}, Sessions <- {"l1"}, Together <- FALSE, Requests <- {"r1"},
  Slow <- {}, FreshFor <- 1, MaxVersion <- 3, MaxToken <- 1, MaxClock <- 2,
  clock <- x1, now <- x2, base <- x3, token <- x4, pool <- x5, active <- x6, shared <- x7,
  session <- x8, kv <- x9, line <- x10, current <- x11, refresh <- x12, poll <- x13,
  response <- x14

\* The host's prompt: two sources, a release, two faults.
HostSources == <<"a", "b">>
Prompt == INSTANCE PromptCache WITH
  Processes <- {"p1"}, Jobs <- {"j1"}, Codex <- FALSE, Sources <- HostSources,
  Faults <- {"fetch", "write", "restart", "damage"}, MaxVersion <- 2, MaxFaults <- 2,
  upstream <- x1, body <- x2, meta <- x3, memory <- x4, failed <- x5, tag <- x6, answer <- x7,
  job <- x8, faults <- x9

\* One sign-in by any method, abandoned or not.
Flow == INSTANCE LoginFlow WITH
  Sessions <- {"s1"}, Methods <- {"browser", "manual browser", "device", "paste"},
  Projects <- {"p1"}, Fresh <- {"s1"}, Wait <- 2, MaxFlags <- 1, MaxClock <- 4,
  clock <- x1, session <- x2, owner <- x3, path <- x4, pools <- x5, flagged <- x6, flags <- x7,
  last <- x8

\* Streams of up to two lines that may stop arriving, or drip, at any point.
Streams == UNION {[1..n -> {"ok", "open", "delta", "note", "blank"}] : n \in 0..2}
Answer == INSTANCE Responses WITH
  Bodies <- Streams, Logging <- FALSE, Limit <- 12, Keep <- 4, Stall <- 2, Total <- 3,
  Status <- {200, 400},
  task <- x1, status <- x2, body <- x3, sent <- x4, reader <- x5, parts <- x6, clock <- x7,
  stallAt <- x8, dueAt <- x9, source <- x10, verdict <- x11

-----------------------------------------------------------------------------
(***************************************************************************)
(* One part at a time; the variables it does not need stay 0.              *)
(***************************************************************************)
Zero11 == x12 = 0 /\ x13 = 0 /\ x14 = 0
Zero9 == x10 = 0 /\ x11 = 0 /\ Zero11
Zero8 == x9 = 0 /\ Zero9
Zero7 == x8 = 0 /\ Zero8

Init ==
  /\ part \in Parts
  /\ \/ part = "guard" /\ Guard!Init /\ Zero7
     \/ part = "line" /\ Line!Init
     \/ part = "prompt" /\ Prompt!Init /\ Zero9
     \/ part = "flow" /\ Flow!Init /\ Zero8
     \/ part = "answer" /\ Answer!Init /\ Zero11

Next ==
  \/ part = "guard" /\ Guard!Next /\ UNCHANGED After7
  \/ part = "line" /\ Line!Next /\ UNCHANGED part
  \/ part = "prompt" /\ Prompt!Next /\ UNCHANGED After9
  \/ part = "flow" /\ Flow!Next /\ UNCHANGED After8
  \/ part = "answer" /\ Answer!Next /\ UNCHANGED After11

InGuard(A) == part = "guard" /\ A /\ UNCHANGED After7
InLine(A) == part = "line" /\ A /\ UNCHANGED part
InPrompt(A) == part = "prompt" /\ A /\ UNCHANGED After9
InFlow(A) == part = "flow" /\ A /\ UNCHANGED After8
InAnswer(A) == part = "answer" /\ A /\ UNCHANGED After11

vars == <<part, All>>

\* A monitor polls on a timer, and the backend does not refuse it for ever.
GuardIsFair ==
  /\ WF_vars(InGuard(Guard!Start("p1", "monitor"))) /\ WF_vars(InGuard(Guard!Step("p1")))
  /\ SF_vars(InGuard(Guard!Read("p1")))

\* Timers fire, files are read and the provider answers.
LineIsFair ==
  /\ WF_vars(InLine(Line!Tick)) /\ WF_vars(InLine(Line!Record("r1")))
  /\ WF_vars(InLine(Line!Due("l1"))) /\ WF_vars(InLine(Line!Begin("l1")))
  /\ WF_vars(InLine(Line!Serve("l1"))) /\ WF_vars(InLine(Line!Answered("l1")))
  /\ WF_vars(InLine(Line!PollTarget("l1"))) /\ WF_vars(InLine(Line!PollShow("l1")))

\* Calls keep coming, times to live run out, and a fetch ends.
PromptIsFair ==
  /\ SF_vars(InPrompt(Prompt!FromMemory("p1"))) /\ SF_vars(InPrompt(Prompt!Cold("p1")))
  /\ WF_vars(InPrompt(Prompt!Stale("p1"))) /\ WF_vars(InPrompt(Prompt!Forgiven("p1")))
  /\ WF_vars(InPrompt(Prompt!TagStale("p1"))) /\ WF_vars(InPrompt(Prompt!Tag("j1")))
  /\ WF_vars(InPrompt(Prompt!Unchanged("j1"))) /\ WF_vars(InPrompt(Prompt!Fetched("j1")))
  /\ WF_vars(InPrompt(Prompt!Write("j1"))) /\ WF_vars(InPrompt(Prompt!Done("j1")))

\* The poll interval and the timers of a read pass; nobody is obliged to open a
\* browser, to call back or to send.
WaitingIsFair ==
  /\ WF_vars(InFlow(Flow!Tick)) /\ WF_vars(InFlow(Flow!Poll("s1")))
  /\ WF_vars(InAnswer(Answer!Tick)) /\ WF_vars(InAnswer(Answer!GiveUp))
  /\ WF_vars(InAnswer(Answer!BoundedEnd))

Spec == Init /\ [][Next]_vars /\ GuardIsFair /\ LineIsFair /\ PromptIsFair /\ WaitingIsFair

-----------------------------------------------------------------------------
\* What is kept comes back to what is true, whatever failed before: once the plan's
\* quota stays available its block is lifted again and again, however the monitor's
\* reads, the command and the redemption interleave (codex-usage.ts); the line
\* settles on the account's last reading (tui.ts), and the prompt on the last one
\* released, from the first source (opencode-codex.ts).
ReadingsSettle ==
  /\ <>[](part = "guard" /\ Guard!SpentUntil = 0) => []<>(part = "guard" /\ x3.until <= x1)
  /\ <>[](part = "line" => Line!Right("l1"))
  /\ <>[](part = "prompt" => x7["p1"] = <<HostSources[1], x1>>)

\* Nobody waits for ever: a sign-in gives its port back although its user left
\* (loopback-flow.ts), and an answer that stalls or drips is given up
\* (response-handler.ts, readWithTimeout).
WaitsEnd ==
  /\ (part = "flow" /\ Flow!Bound("s1") # {} /\ x2["s1"].deadline <= 4)
       ~> (part = "flow" /\ Flow!Bound("s1") = {})
  /\ <>(part = "answer" => x11.kind # Answer!Running)
=============================================================================
