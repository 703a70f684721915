------------------------------ MODULE RequestBody ------------------------------
(***************************************************************************)
(* What of a conversation reaches the backend (request-transformer.ts and  *)
(* helpers/input-utils.ts).  The backend keeps nothing between requests,   *)
(* so the host sends its whole history each time and transformRequestBody  *)
(* rewrites it: fast sessions shorten it, references and host prompts are  *)
(* dropped, and tool calls and results are paired up again.                *)
(*                                                                         *)
(* An item is [type, kind, call, text].  type is what the item is to the   *)
(* rewriting; kind tells function, shell and custom tools apart; call is   *)
(* its call_id (0 for none); text classifies what the code measures or     *)
(* matches: "short" (at most 400 characters), "medium" (at most 1200),     *)
(* "long", "prompt" (the host's own prompt, longer still), "promptenv"     *)
(* (that prompt with the environment after it) and, of a user, "trivial",  *)
(* "plain" or "complex" (isTrivialLatestPrompt,                            *)
(* isStructurallyComplexPrompt).                                           *)
(***************************************************************************)
EXTENDS Integers, Sequences, FiniteSets, SequencesExt

CONSTANTS
  Heads,      \* the system messages a conversation may begin with
  Kinds,      \* the kinds of tools the host offers
  References, \* the host may send a stored call as an item_reference
  Plans,      \* [fast, codexMode] of a process
  Window,     \* Math.max(8, fastSessionMaxInputItems)
  Lookback,   \* Math.max(12, fastSessionMaxInputItems / 2)
  MaxItems    \* bound: items of a conversation

VARIABLES
  plan,     \* the configuration of the process
  history,  \* the items the host holds
  turn,     \* "user", "request", "model" or "tool": whose move it is
  sent,     \* the input of the last request
  offered   \* the last request carried tools

vars == <<plan, history, turn, sent, offered>>

Item(type, kind, call, text) == [type |-> type, kind |-> kind, call |-> call, text |-> text]

Texts == {"short", "medium", "long", "prompt", "promptenv", "trivial", "plain", "complex", "cancelled"}

(***************************************************************************)
(* The decision to shorten (isComplexFastSessionRequest, isTrivialTurn).   *)
(***************************************************************************)
LastUser(s) == SelectLastInSeq(s, LAMBDA i : i.type = "user")

Latest(s, n) == SubSeq(s, IF Len(s) > n THEN Len(s) - n + 1 ELSE 1, Len(s))

Recent(s) == Latest(s, Lookback)

\* The code asks for function_call and function_call_output only; a shell
\* call of the host may be answered by a function_call_output.
ToolActivity(i) ==
  /\ i.type \in {"call", "output"}
  /\ i.kind = "function"

IsComplex(s) ==
  LET users == SelectSeq(Recent(s), LAMBDA i : i.type = "user") IN
  \/ \E n \in DOMAIN Recent(s) : ToolActivity(Recent(s)[n])
  \/ /\ users # <<>>
     /\ Last(users).text # "trivial"
     /\ \E n \in DOMAIN users : n > Len(users) - 3 /\ users[n].text = "complex"

IsTrivialTurn(s) == LastUser(s) # 0 /\ s[LastUser(s)].text = "trivial"

Tuned(s) == plan.fast = "always" \/ (plan.fast = "hybrid" /\ ~IsComplex(s))

(***************************************************************************)
(* trimInputForFastSession: a trivial turn keeps the first system message, *)
(* if it is short, and the latest user message.  Any other turn keeps the  *)
(* last Window items and up to two leading system messages that are not    *)
(* long, and then the last Window of those.                                *)
(***************************************************************************)
KeepOnly(s, kept) == [n \in 1 .. Cardinality(kept) |-> s[SetToSortSeq(kept, <)[n]]]

TrivialInput(s) ==
  LET head == SelectInSeq(s, LAMBDA i : i.type = "system") IN
  KeepOnly(s, {LastUser(s)} \cup {n \in {head} \ {0} : s[n].text = "short"})

LeadingHeads(s) == {n \in DOMAIN s : \A m \in 1 .. n : s[m].type = "system"}

Fits(i) == i.text \in {"short", "medium"}

ExcludedHeads(s) ==
  {n \in LeadingHeads(s) :
     ~Fits(s[n]) /\ Cardinality({m \in 1 .. n - 1 : Fits(s[m])}) < 2}

KeptHeads(s) ==
  {n \in LeadingHeads(s) :
     Fits(s[n]) /\ Cardinality({m \in 1 .. n - 1 : Fits(s[m])}) < 2}

Newest(s) == {n \in DOMAIN s : n > Len(s) - Window}

WindowInput(s) ==
  LET trimmed == KeepOnly(s, KeptHeads(s) \cup (Newest(s) \ ExcludedHeads(s))) IN
  IF trimmed = <<>> \/ (Len(s) <= Window /\ ExcludedHeads(s) = {}) THEN s
  ELSE Latest(trimmed, Window)

Trim(s) ==
  IF ~Tuned(s) THEN s
  ELSE IF IsTrivialTurn(s) THEN TrivialInput(s) ELSE WindowInput(s)

(***************************************************************************)
(* filterInput, the prompts of codexMode, and the message that explains    *)
(* the tools when the request carries any.                                 *)
(***************************************************************************)
FilterInput(s) == SelectSeq(s, LAMBDA i : i.type # "reference")

WithoutHostPrompt(s) ==
  LET kept == SelectSeq(s, LAMBDA i : i.text # "prompt") IN
  [n \in DOMAIN kept |->
     IF kept[n].text = "promptenv" THEN [kept[n] EXCEPT !.text = "short"] ELSE kept[n]]

Bridged(s, tools) ==
  (IF tools THEN <<Item("system", "none", 0, "long")>> ELSE <<>>)
    \o (IF plan.codexMode THEN WithoutHostPrompt(s) ELSE s)

(***************************************************************************)
(* normalizeOrphanedToolOutputs: a result whose call is not in the input   *)
(* becomes a message; then injectMissingToolOutputs gives every call       *)
(* without a result one that says it was cancelled.                        *)
(***************************************************************************)
Answers(output, call) ==
  /\ call.type = "call"
  /\ output.type = "output"
  /\ call.call = output.call
  /\ \/ output.kind = call.kind
     \/ output.kind = "function" /\ call.kind = "shell"

NormalizeOrphanedToolOutputs(s) ==
  [n \in DOMAIN s |->
     IF s[n].type = "output" /\ ~\E m \in DOMAIN s : Answers(s[n], s[m])
     THEN [s[n] EXCEPT !.type = "message"]
     ELSE s[n]]

Cancelled(call) == Item("output", call.kind, call.call, "cancelled")

InjectMissingToolOutputs(s) ==
  FlattenSeq(
    [n \in DOMAIN s |->
       IF s[n].type = "call" /\ ~\E m \in DOMAIN s : s[m].type = "output" /\ s[m].call = s[n].call
       THEN <<s[n], Cancelled(s[n])>>
       ELSE <<s[n]>>])

ToolsOn(s) == ~(Tuned(s) /\ IsTrivialTurn(s))

TransformRequestBody(s) ==
  InjectMissingToolOutputs(
    NormalizeOrphanedToolOutputs(Bridged(FilterInput(Trim(s)), ToolsOn(s))))

(***************************************************************************)
(* The conversation: the user asks, the model calls tools one at a time    *)
(* while it is offered any, the host runs them and asks again, and the     *)
(* user may interrupt at any point.                                        *)
(***************************************************************************)
Init ==
  /\ plan \in Plans
  /\ history \in Heads
  /\ turn = "user"
  /\ sent = <<>>
  /\ offered = FALSE

Say(item, next) ==
  /\ Len(history) < MaxItems
  /\ history' = Append(history, item)
  /\ turn' = next

Ask(text) ==
  /\ turn = "user"
  /\ Say(Item("user", "none", 0, text), "request")
  /\ UNCHANGED <<plan, sent, offered>>

Request ==
  /\ turn = "request"
  /\ sent' = TransformRequestBody(history)
  /\ offered' = ToolsOn(history)
  /\ turn' = "model"
  /\ UNCHANGED <<plan, history>>

Call(kind, type) ==
  /\ turn = "model"
  /\ offered
  /\ Say(Item(type, kind, Len(history) + 1, "short"), "tool")
  /\ UNCHANGED <<plan, sent, offered>>

Result(kind) ==
  /\ turn = "tool"
  /\ \/ kind = Last(history).kind
     \/ kind = "function" /\ Last(history).kind = "shell"
  /\ Say(Item("output", kind, Last(history).call, "long"), "request")
  /\ UNCHANGED <<plan, sent, offered>>

Answer ==
  /\ turn = "model"
  /\ Say(Item("message", "none", 0, "long"), "user")
  /\ UNCHANGED <<plan, sent, offered>>

Interrupt ==
  /\ turn \in {"model", "tool"}
  /\ turn' = "user"
  /\ UNCHANGED <<plan, history, sent, offered>>

Next ==
  \/ \E text \in {"trivial", "plain", "complex"} : Ask(text)
  \/ Request
  \/ \E kind \in Kinds : Call(kind, "call")
  \/ \E kind \in Kinds : References /\ Call(kind, "reference")
  \/ \E kind \in Kinds \cup {"function"} : Result(kind)
  \/ Answer
  \/ Interrupt

Spec == Init /\ [][Next]_vars

--------------------------------------------------------------------------------
Items ==
  [type : {"system", "user", "message", "call", "output", "reference"},
   kind : {"none", "function", "shell", "custom"}, call : 0 .. MaxItems, text : Texts]

\* The conversation, the request and the turn are what the code passes around.
TypeOK ==
  /\ plan \in Plans
  /\ history \in Seq(Items)
  /\ turn \in {"user", "request", "model", "tool"}
  /\ sent \in Seq(Items)
  /\ offered \in BOOLEAN

\* The backend refuses a body with an unpaired tool call (input-utils.ts): in
\* what is sent every call has exactly one result after it, of a type that
\* answers it, and every result a call before it.
Paired ==
  /\ \A n \in DOMAIN sent : sent[n].type = "call" =>
       Cardinality({m \in DOMAIN sent : m > n /\ Answers(sent[m], sent[n])}) = 1
  /\ \A n \in DOMAIN sent : sent[n].type = "output" =>
       \E m \in 1 .. n - 1 : Answers(sent[n], sent[m])

\* "Instead of removing orphans (which causes infinite loops as LLM loses tool
\* results)" (request-transformer.ts:1341): the model is never asked to go on
\* with a turn without the result it has just been given.
TurnResultSent ==
  turn = "model" /\ Last(history).type = "output" =>
    \E n \in DOMAIN sent :
      sent[n].call = Last(history).call /\ sent[n].type \in {"output", "message"}

\* However the history is cut, the request carries the user's latest words.
PromptSent ==
  turn = "model" /\ Last(history).type = "user" =>
    \E n \in DOMAIN sent : sent[n] = Last(history)

BodySafe == Paired /\ TurnResultSent /\ PromptSent

\* "Keeps a small leading developer/system context plus the most recent items"
\* (request-transformer.ts:964).
HeadsSent ==
  turn = "model" /\ Tuned(history) /\ ~IsTrivialTurn(history) =>
    \A n \in KeptHeads(history) : history[n] \in ToSet(sent)

================================================================================
