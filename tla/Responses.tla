----------------------------- MODULE Responses -----------------------------
(***************************************************************************)
(* What the plugin reads of an upstream body (request/response-handler.ts):*)
(* convertSseToJson folds an event stream into the one response it ends    *)
(* with, line by line as chunks arrive, under a stall timer and a          *)
(* deadline; readBoundedResponseText keeps a prefix of an error body.      *)
(*                                                                         *)
(* A text is a sequence of atoms: the halves of a line, and Newline.  A    *)
(* line is recognised when it is whole, so a chunk may end inside one.     *)
(***************************************************************************)
EXTENDS Integers, Sequences, FiniteSets, SequencesExt

CONSTANTS
  Bodies,   \* the lines an upstream may send
  Logging,  \* LOGGING_ENABLED: the whole text is retained
  Limit,    \* MAX_SSE_SIZE, in atoms
  Keep,     \* maxBytes of the bounded reader, in atoms
  Stall,    \* streamStallTimeoutMs
  Total,    \* maxStreamDurationMs, and timeoutMs of the bounded reader
  Status    \* the statuses an upstream answers with

VARIABLES
  task,      \* "convert" or "bounded"
  status,    \* the upstream's status
  body,      \* the text the upstream has to send
  sent,      \* how much of it arrived
  reader,    \* what convertSseToJson holds of it
  parts,     \* what is retained of the text: textParts, or the bounded reader's parts
  clock,     \* time since the headers
  stallAt,   \* when the stall timer is due
  dueAt,     \* when the deadline is due
  source,    \* "open", "ended" or "cancelled"
  verdict    \* how the read ended

vars == <<task, status, body, sent, reader, parts, clock, stallAt, dueAt, source, verdict>>

Newline == "nl"
Data == {"ok", "err", "open", "rest", "delta"}  \* lines that carry a JSON payload
Lines == Data \union {"done", "note", "blank"}  \* [DONE], any other text, no text

\* A line as it is sent; a blank one is only its newline.
Sent(line) == IF line = "blank" THEN <<Newline>>
              ELSE <<line, "end", Newline>>
TextOf(lines) == FlattenSeq([i \in 1..Len(lines) |-> Sent(lines[i])])

\* What a line of atoms reads as; a cut data line still starts with "{",
\* except one that continues a payload.
ReadsAs(atoms) ==
  CASE atoms = <<>> -> "blank"
    [] Len(atoms) = 2 -> atoms[1]
    [] Len(atoms) = 1 -> IF atoms[1] \in Data \ {"rest"} THEN "delta" ELSE "note"

NoResult == "none"

\* processSsePayload: the payloads that are a result, alone or joined.
Payload(payloads) ==
  CASE payloads = <<"ok">> -> "response"
    [] payloads = <<"err">> -> "error"
    [] payloads = <<"open", "rest">> -> "response"
    [] OTHER -> NoResult

\* dispatch: each payload alone, then all of them joined; the first result wins.
Candidates(payloads) == Append([i \in 1..Len(payloads) |-> <<payloads[i]>>], payloads)
Dispatched(payloads) ==
  LET hits == {i \in 1..(Len(payloads) + 1) : Payload(Candidates(payloads)[i]) # NoResult}
  IN IF payloads = <<>> \/ hits = {} THEN NoResult ELSE Payload(Candidates(payloads)[Min(hits)])

NewReader == [pending |-> <<>>, data |-> <<>>, sse |-> FALSE, result |-> NoResult]

\* processLine: a blank line dispatches, a data line is collected.
ProcessLine(r, atoms) ==
  LET line == ReadsAs(atoms) IN
  IF line = "blank" THEN [r EXCEPT !.data = <<>>, !.result = Dispatched(r.data)]
  ELSE [r EXCEPT !.data = IF line \in Data THEN Append(@, line) ELSE @,
                 !.sse = @ \/ line \in (Data \ {"rest"}) \union {"done"}]

\* drainLines: whole lines are processed until one gives a result.
Feed(r, atom) ==
  IF r.result # NoResult THEN r
  ELSE IF atom = Newline THEN [ProcessLine(r, r.pending) EXCEPT !.pending = <<>>]
  ELSE [r EXCEPT !.pending = Append(@, atom)]
Drained(r, chunk) ==
  LET after[n \in 0..Len(chunk)] == IF n = 0 THEN r ELSE Feed(after[n - 1], chunk[n])
  IN after[Len(chunk)]

\* Mutant: the residual line is dropped.
FlushDataOnly(r) == [r EXCEPT !.pending = <<>>, !.data = <<>>, !.result = Dispatched(r.data)]

\* flushPending: the residual line, then the residual data.
FlushPending(r) ==
  LET line == IF r.pending = <<>> THEN r ELSE [ProcessLine(r, r.pending) EXCEPT !.pending = <<>>]
  IN IF line.result # NoResult THEN line
     ELSE [line EXCEPT !.data = <<>>, !.result = Dispatched(line.data)]

Running == "running"

Init ==
  /\ task \in {"convert", "bounded"} /\ status \in Status
  /\ body \in {TextOf(lines) : lines \in Bodies}
  /\ sent = 0 /\ reader = NewReader /\ parts = <<>>
  /\ clock = 0 /\ stallAt = Stall /\ dueAt = Total
  /\ source = "open" /\ verdict = [kind |-> Running, status |-> 0, text |-> <<>>]

Ends(kind, code, text) == verdict' = [kind |-> kind, status |-> code, text |-> text]

Received == SubSeq(body, 1, sent)

\* The status of a stream that failed: the upstream's own error, or 502.
FailedStatus == IF status >= 400 THEN status ELSE 502

\* A result: an error, the response, or a 502 when JSON.stringify cannot write it.
Judged(r) ==
  \/ r.result = "error" /\ Ends("error", FailedStatus, <<>>)
  \/ r.result = "response" /\ (Ends("response", status, <<>>) \/ Ends("garbled", 502, <<>>))

Reading(t) == task = t /\ verdict.kind = Running /\ source = "open"

\* A time at which no timer is due: the event loop runs a due timer first.
InTime == clock < dueAt /\ (task = "convert" => clock < stallAt)

(***************************************************************************)
(* convertSseToJson                                                        *)
(***************************************************************************)

\* armStallTimer: only the gap between chunks is measured anew.
Rearm == stallAt' = clock + Stall /\ UNCHANGED dueAt

\* textParts after a chunk: kept until the stream proved to be events.
Retained(old, chunk, r) ==
  LET kept == IF Logging \/ ~reader.sse THEN old \o chunk ELSE old
  IN IF ~Logging /\ r.sse /\ Newline \in ToSet(chunk) THEN <<>> ELSE kept

\* A chunk arrives: counted, drained when it ends a line, and the read stops
\* at the first result or beyond the limit.
Chunk(n) ==
  LET chunk == SubSeq(body, sent + 1, sent + n)
      r == Drained(reader, chunk)
  IN /\ Reading("convert") /\ InTime /\ sent + n <= Len(body)
     /\ sent' = sent + n
     /\ IF sent + n > Limit
        THEN /\ source' = "cancelled" /\ Ends("threw", 0, <<>>)
             /\ UNCHANGED <<reader, parts, stallAt, dueAt>>
        ELSE /\ reader' = r /\ parts' = Retained(parts, chunk, r)
             /\ IF r.result # NoResult
                THEN /\ source' = "cancelled" /\ UNCHANGED <<stallAt, dueAt>>
                     /\ Judged(r)
                ELSE /\ Rearm /\ UNCHANGED <<source, verdict>>
     /\ UNCHANGED <<task, status, body, clock>>

\* The stream ends, early or not: what is pending is flushed and judged.
EndOfStream ==
  LET r == FlushPending(reader) IN
  /\ Reading("convert") /\ InTime
  /\ source' = "ended" /\ reader' = r
  /\ parts' = IF ~Logging /\ r.sse THEN <<>> ELSE parts
  /\ \/ Judged(r)
     \/ r.result = NoResult /\ ~r.sse /\ Ends("passed through", status, parts)
     \/ r.result = NoResult /\ r.sse /\ Ends("incomplete", FailedStatus, <<>>)
  /\ UNCHANGED <<task, status, body, sent, clock, stallAt, dueAt>>

\* The stall timer or the deadline: the conversion throws and cancels.
GiveUp ==
  /\ Reading("convert") /\ (clock >= stallAt \/ clock >= dueAt)
  /\ source' = "cancelled" /\ Ends("threw", 0, <<>>)
  /\ UNCHANGED <<task, status, body, sent, reader, parts, clock, stallAt, dueAt>>

(***************************************************************************)
(* readBoundedResponseText                                                 *)
(***************************************************************************)
Kept(text) == SubSeq(text, 1, IF Len(text) < Keep THEN Len(text) ELSE Keep)

BoundedChunk(n) ==
  LET all == parts \o SubSeq(body, sent + 1, sent + n) IN
  /\ Reading("bounded") /\ InTime /\ sent + n <= Len(body)
  /\ sent' = sent + n /\ parts' = all
  /\ IF Len(all) >= Keep THEN source' = "cancelled" /\ Ends("text", status, Kept(all))
     ELSE UNCHANGED <<source, verdict>>
  /\ UNCHANGED <<task, status, body, reader, clock, stallAt, dueAt>>

BoundedEnd ==
  /\ Reading("bounded")
  /\ \/ InTime /\ source' = "ended"
     \/ clock >= dueAt /\ source' = "cancelled"
  /\ Ends("text", status, Kept(parts))
  /\ UNCHANGED <<task, status, body, sent, reader, parts, clock, stallAt, dueAt>>

\* Time passes; the upstream may stay silent for ever.
Tick ==
  /\ verdict.kind = Running /\ InTime
  /\ clock' = clock + 1
  /\ UNCHANGED <<task, status, body, sent, reader, parts, stallAt, dueAt, source, verdict>>

Next ==
  \/ \E n \in 1..Len(body) : Chunk(n) \/ BoundedChunk(n)
  \/ EndOfStream \/ GiveUp \/ BoundedEnd
  \/ Tick

Spec == Init /\ [][Next]_vars
FairSpec == Spec /\ WF_vars(Tick) /\ WF_vars(GiveUp) /\ WF_vars(BoundedEnd)

-----------------------------------------------------------------------------
(***************************************************************************)
(* What the body says when it is read at once.                             *)
(***************************************************************************)
Breaks(text) == {i \in 1..Len(text) : text[i] = Newline}
LineEnds(text) == Breaks(text) \union {Len(text) + 1}
LineStart(text, i) == Max({b \in Breaks(text) \union {0} : b < i}) + 1
Says(text, i) == ReadsAs(SubSeq(text, LineStart(text, i), i - 1))

\* An event ends at a blank line, or with the text.
EventEnds(text) == {e \in LineEnds(text) : Says(text, e) = "blank"} \union {Len(text) + 1}
EventData(text, e) ==
  {i \in LineEnds(text) : /\ i <= e /\ Says(text, i) \in Data
                          /\ ~\E d \in EventEnds(text) : i <= d /\ d < e}

\* The first of its lines that is a result, or all of them.
Told(text, e) ==
  LET data == EventData(text, e)
      alone == {i \in data : Says(text, i) \in {"ok", "err"}}
  IN IF alone # {} THEN IF Says(text, Min(alone)) = "ok" THEN "response" ELSE "error"
     ELSE IF \E i, j \in data : /\ i < j /\ data = {i, j}
                                /\ Says(text, i) = "open" /\ Says(text, j) = "rest"
     THEN "response" ELSE NoResult

Meaning(text) ==
  LET telling == {e \in EventEnds(text) : Told(text, e) # NoResult}
  IN IF telling = {} THEN NoResult ELSE Told(text, Min(telling))
Framed(text) == \E i \in LineEnds(text) : Says(text, i) \in (Data \ {"rest"}) \union {"done"}

TypeOK ==
  /\ task \in {"convert", "bounded"} /\ status \in Status
  /\ sent \in 0..Len(body) /\ clock \in Nat
  /\ reader.sse \in BOOLEAN /\ reader.result \in {NoResult, "response", "error"}
  /\ source \in {"open", "ended", "cancelled"}
  /\ verdict.kind \in {Running, "response", "error", "garbled", "incomplete", "passed through",
                       "threw", "text"}

\* However the chunks were cut, the verdict is the one of the whole text that arrived.
ChunkingIsInvisible ==
  /\ verdict.kind \in {"response", "garbled"} => Meaning(Received) = "response"
  /\ verdict.kind = "error" => Meaning(Received) = "error"
  /\ verdict.kind \in {"incomplete", "passed through"} => Meaning(Received) = NoResult

\* A stream that broke off is never credited as a success, and a body that is
\* no stream comes back as it was sent.
CutIsNoSuccess ==
  /\ verdict.kind = "incomplete" => verdict.status >= 400
  /\ verdict.kind = "passed through" => verdict.text = Received /\ ~Framed(Received)
  /\ verdict.kind = "text" => verdict.text = Kept(Received)

\* A drip cannot hold a read beyond its deadline, and a read that ended holds
\* no socket open.
DripIsBounded ==
  /\ clock <= Total
  /\ verdict.kind # Running => source # "open"

ReadSafe == ChunkingIsInvisible /\ CutIsNoSuccess /\ DripIsBounded

\* An answer that arrived is not thrown away (it is: response-handler.ts:333
\* says the first terminal event stops the read, but a line without the blank
\* line after it waits for one, and the stall timer throws).
AnswerNotThrown == verdict.kind = "threw" => Len(body) > Limit \/ Meaning(Received) = NoResult

\* Every read ends, whatever the upstream does.
ReadEnds == <>(verdict.kind # Running)
=============================================================================
