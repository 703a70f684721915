---- MODULE RecoveryHook ----
(***************************************************************************)
(* The session recovery hook: it repairs the host's stored messages after  *)
(* the provider refused a conversation.  A handler call waits for the host *)
(* four times (listing, toast, prompt, resume), so two calls about the     *)
(* same message interleave, and the session goes on under them.  The       *)
(* session is a user message and assistant messages; of a message only its *)
(* stored parts count, which the code sorts by their names.                *)
(***************************************************************************)
EXTENDS Naturals, Sequences, FiniteSets

CONSTANTS
    Calls,    \* error events handed to handleSessionRecovery
    Kinds,    \* the recoverable errors the provider reports
    Unnamed,  \* events may leave the failed message's name out
    MaxParts, \* parts of a message at the start
    Resume,   \* config.autoResume
    Shift,    \* system messages the provider counts and the storage lacks
    Faults    \* of "listing", "gone", "write", "prompt", "turn"

(* Parts in the order of their names: "lead" is the fixed                  *)
(* prt_0000000000_thinking that prependThinkingPart writes.                *)
Part == {"lead", "early", "body", "call", "late"}
Thinking == {"lead", "early", "late"}
Messages == <<"u", "m1", "m2", "m3">>
Assistants == {"m1", "m2", "m3"}

VARIABLES
    parts,       \* PART_STORAGE: message -> its part files
    newest,      \* the last message of the session, an index of Messages
    call,        \* call -> how far its handler is and what it holds
    processing,  \* the hook's processingErrors
    answers      \* message -> prompts under way that answer its tool calls

vars == <<parts, newest, call, processing, answers>>

Stored == {Messages[i] : i \in 2 .. newest}
Orphan(files) == /\ files \cap {"lead", "early"} = {}
                 /\ files \cap {"body", "call"} # {}
OrphanThinking == {m \in Stored : Orphan(parts[m])}
WithThinking == {m \in Stored : parts[m] \cap Thinking # {}}

(* What the provider complains about is so at that moment.                 *)
Refused(kind, m) ==
    CASE kind = "tool" -> "call" \in parts[m]
      [] kind = "order" -> Orphan(parts[m])
      [] kind = "disabled" -> parts[m] \cap Thinking # {}

IndexOf(m) == CHOOSE i \in 1 .. Len(Messages) : Messages[i] = m

(* The message the provider's "messages.N" leads to: N counts from zero.   *)
MessageAt(index) ==
    {m \in OrphanThinking : IndexOf(m) = index + 1}

Idle == [at |-> "idle", kind |-> "none", about |-> "u", named |-> TRUE,
         target |-> "u", seen |-> {}, result |-> FALSE, cured |-> FALSE]

Init ==
    /\ parts \in {p \in [Assistants -> SUBSET Part] :
                    /\ \A m \in Assistants : /\ "lead" \notin p[m]
                                              /\ Cardinality(p[m]) <= MaxParts
                    /\ p["m3"] = {"body", "call"}}
    /\ newest = 3
    /\ call = [c \in Calls |-> Idle]
    /\ processing = {}
    /\ answers = [m \in Assistants |-> 0]

-----------------------------------------------------------------------------
(* An error event: the handler aborts the session and asks for its         *)
(* messages.  An event without a message name is about the newest one.     *)
Reported(c) ==
    /\ call[c].at = "idle"
    /\ \E kind \in Kinds, m \in Stored, named \in BOOLEAN :
         /\ Refused(kind, m)
         /\ ~named => Unnamed /\ m = Messages[newest]
         /\ call' = [call EXCEPT ![c] = [@ EXCEPT
              !.at = "listing", !.kind = kind, !.about = m, !.named = named]]
    /\ UNCHANGED <<parts, newest, processing, answers>>

(* The user goes on: a new assistant message, whose tool runs.             *)
Turn ==
    /\ "turn" \in Faults
    /\ newest = 3
    /\ newest' = 4
    /\ UNCHANGED <<parts, call, processing, answers>>

(* No listing: the exception leaves the handler before anything is held.   *)
ListingFailed(c) ==
    /\ "listing" \in Faults
    /\ call[c].at = "listing"
    /\ call' = [call EXCEPT ![c].at = "threw"]
    /\ UNCHANGED <<parts, newest, processing, answers>>

Target(c) == IF call[c].named THEN call[c].about ELSE Messages[newest]

(* The listing is there: another call that repairs the message already     *)
(* ends this one; a message that is not listed ends it through `finally`,  *)
(* which forgets the message; the others hold it and show a toast.         *)
Listed(c) ==
    /\ call[c].at = "listing"
    /\ \/ /\ Target(c) \in processing
          /\ call' = [call EXCEPT ![c].at = "over"]
          /\ UNCHANGED processing
       \/ /\ Target(c) \notin processing
          /\ "gone" \in Faults /\ call[c].named
          /\ call' = [call EXCEPT ![c].at = "over"]
          /\ UNCHANGED processing
       \/ /\ Target(c) \notin processing
          /\ processing' = processing \cup {Target(c)}
          /\ \E seen \in {{}, parts[Target(c)]} :
               call' = [call EXCEPT ![c] = [@ EXCEPT
                 !.at = "toast", !.target = Target(c), !.seen = seen]]
    /\ UNCHANGED <<parts, newest, answers>>

Over(c, result, cured) ==
    /\ processing' = processing \ {call[c].target}
    /\ call' = [call EXCEPT ![c] = [@ EXCEPT
         !.at = "over", !.result = result, !.cured = cured]]

(* recoverToolResultMissing: the parts the listing gave, or the stored     *)
(* ones when it gave none.                                                 *)
ToolCalls(c) ==
    (IF call[c].seen = {} THEN parts[call[c].target] ELSE call[c].seen)
        \cap {"call"}

ToolRepair(c) ==
    /\ call[c].at = "toast"
    /\ call[c].kind = "tool"
    /\ IF ToolCalls(c) = {}
       THEN /\ Over(c, FALSE, FALSE)
            /\ UNCHANGED answers
       ELSE /\ call' = [call EXCEPT ![c].at = "prompting"]
            /\ answers' = [answers EXCEPT ![call[c].target] = @ + 1]
            /\ UNCHANGED processing
    /\ UNCHANGED <<parts, newest>>

(* The prompt with the cancelled results was accepted, or not.             *)
Prompted(c) ==
    /\ call[c].at = "prompting"
    /\ answers' = [answers EXCEPT ![call[c].target] = @ - 1]
    /\ \/ /\ parts' = [parts EXCEPT ![call[c].target] = @ \ {"call"}]
          /\ Over(c, TRUE, ~("call" \in parts'[call[c].about]))
       \/ /\ "prompt" \in Faults
          /\ Over(c, FALSE, FALSE)
          /\ UNCHANGED parts
    /\ UNCHANGED newest

(* Files that can be written: with the fault, any part of them.            *)
Writable(ms) == IF "write" \in Faults THEN SUBSET ms ELSE {ms}

(* After a repair of the stored parts: the next prompt, or the end.        *)
Repaired(c, done, cured) ==
    IF done /\ Resume
    THEN /\ call' = [call EXCEPT ![c] = [@ EXCEPT
              !.at = "resuming", !.result = TRUE, !.cured = cured]]
         /\ UNCHANGED processing
    ELSE Over(c, done, cured)

(* recoverThinkingBlockOrder: the message at the provider's index if it    *)
(* needs a thinking part, else every message that does.                    *)
OrderTargets(c) ==
    LET named == MessageAt(IndexOf(call[c].about) - 1 + Shift)
    IN  IF named # {} THEN named ELSE OrphanThinking

OrderRepair(c) ==
    /\ call[c].at = "toast"
    /\ call[c].kind = "order"
    /\ \E written \in Writable(OrderTargets(c)) :
         /\ parts' = [m \in Assistants |->
                        IF m \in written THEN parts[m] \cup {"lead"} ELSE parts[m]]
         /\ Repaired(c, written # {}, ~Orphan(parts'[call[c].about]))
    /\ UNCHANGED <<newest, answers>>

(* recoverThinkingDisabledViolation: no thinking anywhere in the session.  *)
DisabledRepair(c) ==
    /\ call[c].at = "toast"
    /\ call[c].kind = "disabled"
    /\ \E written \in Writable(WithThinking) :
         /\ parts' = [m \in Assistants |->
                        IF m \in written THEN parts[m] \ Thinking ELSE parts[m]]
         /\ Repaired(c, written # {}, parts'[call[c].about] \cap Thinking = {})
    /\ UNCHANGED <<newest, answers>>

(* resumeSession answers; its failure changes nothing.                     *)
Resumed(c) ==
    /\ call[c].at = "resuming"
    /\ Over(c, TRUE, call[c].cured)
    /\ UNCHANGED <<parts, newest, answers>>

Next ==
    \/ Turn
    \/ \E c \in Calls : Reported(c)
    \/ \E c \in Calls : ListingFailed(c)
    \/ \E c \in Calls : Listed(c)
    \/ \E c \in Calls : ToolRepair(c)
    \/ \E c \in Calls : Prompted(c)
    \/ \E c \in Calls : OrderRepair(c)
    \/ \E c \in Calls : DisabledRepair(c)
    \/ \E c \in Calls : Resumed(c)

Spec == Init /\ [][Next]_vars

-----------------------------------------------------------------------------
Holding == {c \in Calls : call[c].at \in {"toast", "prompting", "resuming"}}

TypeOK ==
    /\ parts \in [Assistants -> SUBSET Part]
    /\ newest \in 3 .. 4
    /\ \A c \in Calls :
         /\ call[c].at \in {"idle", "listing", "toast", "prompting", "resuming",
                            "over", "threw"}
         /\ call[c].kind \in Kinds \cup {"none"}
         /\ {call[c].about, call[c].target} \subseteq Assistants \cup {"u"}
    /\ processing \subseteq Assistants
    /\ answers \in [Assistants -> Nat]

(* Two events about one message never repair it together, so its tool      *)
(* calls are never answered twice at a time, and a message is held exactly *)
(* while a call repairs it: whatever way a call ends, the next error of    *)
(* the message is handled.                                                 *)
OneRepairAtATime ==
    /\ processing = {call[c].target : c \in Holding}
    /\ \A c, d \in Holding : call[c].target = call[d].target => c = d
    /\ \A m \in Assistants : answers[m] <= 1

(* A call that reports the session recovered has ended the complaint it    *)
(* was called for, although another call repaired the same session between *)
(* its waits.                                                              *)
SuccessIsTrue ==
    \A c \in Calls :
        call[c].at \in {"resuming", "over"} /\ call[c].result => call[c].cured

RecoverySafe == OneRepairAtATime /\ SuccessIsTrue
====
