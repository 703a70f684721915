---------------------------- MODULE PromptCache ----------------------------
(***************************************************************************)
(* The instructions fetched for a model and the host's prompt              *)
(* (prompts/codex.ts, prompts/opencode-codex.ts): a text from upstream,    *)
(* kept in memory by each process and in two files they all share, one     *)
(* with the text and one with its hash and ETag.  A stale memory is served *)
(* while it is refreshed; a process without one fetches, and falls back to *)
(* the files when their hash agrees, or to the bundled text.               *)
(*                                                                         *)
(* A text is <<source, version>>.  Times to live are flags that expire.    *)
(***************************************************************************)
EXTENDS Integers, Sequences

CONSTANTS
  Processes,   \* processes that share the files
  Jobs,        \* fetches in flight at once
  Codex,       \* TRUE: prompts/codex.ts; FALSE: prompts/opencode-codex.ts
  Sources,     \* where the text is fetched from, in order
  Faults,      \* which of "fetch", "write", "restart", "damage" may happen
  MaxVersion,  \* bound: versions upstream
  MaxFaults    \* bound: faults

VARIABLES
  upstream,  \* the version upstream
  body,      \* the file with the text
  meta,      \* the file with its hash, ETag and origin
  memory,    \* each process's memoryCache entry
  failed,    \* upstreamRecentlyFailed
  tag,       \* latestReleaseTagCache
  answer,    \* what the last call returned
  job,       \* the fetches in flight
  faults     \* faults so far

vars == <<upstream, body, meta, memory, failed, tag, answer, job, faults>>

None == <<"none", 0>>
Junk == <<"junk", 0>>       \* a damaged file
Bundled == <<"bundled", 0>>

NoMeta == [sha |-> None, etag |-> None, tag |-> 0]
NoMemory == [text |-> None, fresh |-> FALSE]
NoTag == [version |-> 0, fresh |-> FALSE]
NoJob == [owner |-> "", kind |-> "none", step |-> "", source |-> 1, version |-> 0, plain |-> FALSE,
          meta |-> NoMeta, disk |-> None, text |-> None, etag |-> None, due |-> {}]

Init ==
  /\ upstream = 1 /\ faults = 0
  /\ body = None /\ meta = NoMeta
  /\ memory = [p \in Processes |-> NoMemory]
  /\ failed = [p \in Processes |-> FALSE]
  /\ tag = [p \in Processes |-> NoTag]
  /\ answer = [p \in Processes |-> None]
  /\ job = [j \in Jobs |-> NoJob]

\* isContentBoundToEtag: the text has the recorded hash.
Bound(text, hash) == text # None /\ text = hash

\* What the files can serve without upstream.
Verified == IF Bound(body, meta.sha) THEN body ELSE None

-----------------------------------------------------------------------------
(* A call.                                                                 *)

Idle == {j \in Jobs : job[j].kind = "none"}

Started(j, p, kind) ==
  job' = [job EXCEPT ![j] = [NoJob EXCEPT
            !.owner = p, !.kind = kind, !.step = IF Codex THEN "tag" ELSE "fetch",
            !.meta = IF Codex \/ kind = "cold" THEN meta
                     ELSE [NoMeta EXCEPT !.etag = memory[p].text, !.sha = memory[p].text],
            !.disk = IF Codex \/ kind = "cold" THEN Verified ELSE memory[p].text]]

Refreshing(p) == \E j \in Jobs : job[j].owner = p /\ job[j].kind = "background"

\* Memory answers; a stale one also starts a refresh, unless one is under way
\* or has just failed.  codex.ts counts the stale text as fresh meanwhile.
FromMemory(p) ==
  /\ memory[p].text # None
  /\ answer' = [answer EXCEPT ![p] = memory[p].text]
  /\ memory' = IF Codex THEN [memory EXCEPT ![p].fresh = TRUE] ELSE memory
  /\ IF memory[p].fresh \/ failed[p] \/ Refreshing(p) THEN UNCHANGED job
     ELSE \E j \in Idle : Started(j, p, "background")
  /\ UNCHANGED <<upstream, body, meta, failed, tag, faults>>

\* Without upstream: the verified files, else the bundled text, else an error.
FallBack(p, disk) ==
  /\ answer' = [answer EXCEPT ![p] = IF disk # None THEN disk ELSE IF Codex THEN Bundled ELSE None]
  /\ memory' = IF disk = None /\ Codex
               THEN [memory EXCEPT ![p] = [text |-> Bundled, fresh |-> TRUE]] ELSE memory

\* A process without the text fetches it, also beside another call that does.
Cold(p) ==
  /\ memory[p].text = None
  /\ IF failed[p] THEN FallBack(p, Verified) /\ UNCHANGED job
     ELSE UNCHANGED <<answer, memory>> /\ \E j \in Idle : Started(j, p, "cold")
  /\ UNCHANGED <<upstream, body, meta, failed, tag, faults>>

-----------------------------------------------------------------------------
(* A fetch.                                                                *)

Fault(kind) == kind \in Faults /\ faults < MaxFaults /\ faults' = faults + 1

\* getLatestReleaseTag
Tag(j) ==
  /\ job[j].step = "tag"
  /\ LET p == job[j].owner
         version == IF tag[p].fresh THEN tag[p].version ELSE upstream
     IN /\ tag' = [tag EXCEPT ![p] = [version |-> version, fresh |-> TRUE]]
        /\ job' = [job EXCEPT ![j].step = "fetch", ![j].version = version]
  /\ UNCHANGED <<upstream, body, meta, memory, failed, answer, faults>>

Served(j) == <<Sources[job[j].source], IF Codex THEN job[j].version ELSE upstream>>

\* If-None-Match is sent to the source and, in codex.ts, for the release that
\* issued the ETag, never to the catalog.
Conditional(j) ==
  /\ ~job[j].plain /\ job[j].meta.etag # None
  /\ IF Codex THEN Sources[job[j].source] # "catalog" /\ job[j].meta.tag = job[j].version
     ELSE job[j].meta.etag[1] = Sources[job[j].source]

NotModified(j) == Conditional(j) /\ job[j].meta.etag = Served(j)

\* A 304: the text at hand is the one if it has the hash of the ETag; if not,
\* it is asked for again without conditions.
Unchanged(j) ==
  /\ job[j].step = "fetch" /\ NotModified(j)
  /\ LET p == job[j].owner
         here == IF Codex THEN body ELSE job[j].disk
     IN IF Bound(here, job[j].meta.etag)
        THEN /\ memory' = [memory EXCEPT ![p] = [text |-> here, fresh |-> TRUE]]
             /\ job' = [job EXCEPT ![j].step = "write", ![j].text = here, ![j].etag = here,
                                   ![j].due = {"meta"}]
        ELSE /\ job' = [job EXCEPT ![j].plain = TRUE]
             /\ UNCHANGED memory
  /\ UNCHANGED <<upstream, body, meta, failed, tag, answer, faults>>

\* A 200 with a usable text.  The catalog's answer has no ETag.
Fetched(j) ==
  /\ job[j].step = "fetch" /\ ~NotModified(j)
  /\ job' = [job EXCEPT ![j].step = "write", ![j].text = Served(j), ![j].due = {"body", "meta"},
                        ![j].etag = IF Served(j)[1] = "catalog" THEN None ELSE Served(j)]
  /\ UNCHANGED <<upstream, body, meta, memory, failed, tag, answer, faults>>

\* The two files are written side by side.
Write(j) ==
  /\ job[j].step = "write"
  /\ \E file \in job[j].due :
       /\ job' = [job EXCEPT ![j].due = @ \ {file}]
       /\ IF file = "body" THEN body' = job[j].text /\ UNCHANGED meta
          ELSE /\ meta' = [sha |-> job[j].text, etag |-> job[j].etag, tag |-> job[j].version]
               /\ UNCHANGED body
  /\ UNCHANGED <<upstream, memory, failed, tag, answer, faults>>

Done(j) ==
  /\ job[j].step = "write" /\ job[j].due = {}
  /\ LET p == job[j].owner
     IN /\ memory' = [memory EXCEPT ![p] = [text |-> job[j].text, fresh |-> TRUE]]
        /\ answer' = IF job[j].kind = "cold" THEN [answer EXCEPT ![p] = job[j].text] ELSE answer
  /\ job' = [job EXCEPT ![j] = NoJob]
  /\ UNCHANGED <<upstream, body, meta, failed, tag, faults>>

\* The fetch as a whole failed; further calls wait for the failure to expire.
GivesUp(j) ==
  LET p == job[j].owner
  IN /\ failed' = [failed EXCEPT ![p] = TRUE]
     /\ IF job[j].kind = "cold" THEN FallBack(p, job[j].disk) ELSE UNCHANGED <<answer, memory>>
     /\ job' = [job EXCEPT ![j] = NoJob]

\* A source times out, refuses, or answers with something that is no text: the
\* next one is tried.
SourceFails(j) ==
  /\ job[j].step \in {"tag", "fetch"} /\ Fault("fetch")
  /\ IF job[j].step = "fetch" /\ job[j].source < Len(Sources)
     THEN /\ job' = [job EXCEPT ![j].source = @ + 1, ![j].plain = FALSE]
          /\ UNCHANGED <<failed, answer, memory>>
     ELSE GivesUp(j)
  /\ UNCHANGED <<upstream, body, meta, tag>>

WriteFails(j) ==
  /\ job[j].step = "write" /\ job[j].due # {} /\ Fault("write")
  /\ GivesUp(j)
  /\ UNCHANGED <<upstream, body, meta, tag>>

-----------------------------------------------------------------------------
(* Time and the environment.                                               *)

Stale(p) ==
  /\ memory[p].fresh /\ memory' = [memory EXCEPT ![p].fresh = FALSE]
  /\ UNCHANGED <<upstream, body, meta, failed, tag, answer, job, faults>>

Forgiven(p) ==
  /\ failed[p] /\ failed' = [failed EXCEPT ![p] = FALSE]
  /\ UNCHANGED <<upstream, body, meta, memory, tag, answer, job, faults>>

TagStale(p) ==
  /\ tag[p].fresh /\ tag' = [tag EXCEPT ![p].fresh = FALSE]
  /\ UNCHANGED <<upstream, body, meta, memory, failed, answer, job, faults>>

Release ==
  /\ upstream < MaxVersion /\ upstream' = upstream + 1
  /\ UNCHANGED <<body, meta, memory, failed, tag, answer, job, faults>>

Restart(p) ==
  /\ Fault("restart")
  /\ memory' = [memory EXCEPT ![p] = NoMemory]
  /\ failed' = [failed EXCEPT ![p] = FALSE]
  /\ tag' = [tag EXCEPT ![p] = NoTag]
  /\ answer' = [answer EXCEPT ![p] = None]
  /\ job' = [j \in Jobs |-> IF job[j].owner = p THEN NoJob ELSE job[j]]
  /\ UNCHANGED <<upstream, body, meta>>

Damage ==
  /\ Fault("damage") /\ body # None /\ body' = Junk
  /\ UNCHANGED <<upstream, meta, memory, failed, tag, answer, job>>

Next ==
  \/ \E p \in Processes : FromMemory(p) \/ Cold(p) \/ Stale(p) \/ Forgiven(p)
                           \/ TagStale(p) \/ Restart(p)
  \/ \E j \in Jobs : \/ Tag(j) \/ Unchanged(j) \/ Fetched(j) \/ Write(j) \/ Done(j)
                     \/ SourceFails(j) \/ WriteFails(j)
  \/ Release \/ Damage

Spec == Init /\ [][Next]_vars

\* Calls keep coming, times to live run out, and a fetch ends.
Fairness ==
  /\ \A p \in Processes : /\ SF_vars(FromMemory(p)) /\ SF_vars(Cold(p))
                          /\ WF_vars(Stale(p)) /\ WF_vars(Forgiven(p)) /\ WF_vars(TagStale(p))
  /\ \A j \in Jobs : /\ WF_vars(Tag(j)) /\ WF_vars(Unchanged(j)) /\ WF_vars(Fetched(j))
                     /\ WF_vars(Write(j)) /\ WF_vars(Done(j))

FairSpec == Spec /\ Fairness

-----------------------------------------------------------------------------
(* Properties.                                                             *)

Texts == {<<s, v>> : s \in {Sources[i] : i \in DOMAIN Sources}, v \in 1 .. upstream}

\* Types: memory never holds a damaged file's text.
TypeOK ==
  /\ upstream \in 1 .. MaxVersion /\ faults \in 0 .. MaxFaults
  /\ body \in Texts \cup {None, Junk} /\ meta.sha \in Texts \cup {None}
  /\ \A j \in Jobs : job[j].step \in {"", "tag", "fetch", "write"}

\* Every answer is a text that upstream published, or the bundled one: two
\* files of different writers, or a damaged one, are never served.
Genuine ==
  \A p \in Processes : {answer[p], memory[p].text} \subseteq Texts \cup {Bundled, None}

\* A text that was fetched is served: a process does not answer with the bundled
\* text, or not at all, while a fetch of its own has the text in hand.
FetchedIsServed ==
  [][\A j \in Jobs : (job[j].kind = "cold" /\ job[j].step = "write" /\ job'[j].kind = "none"
                      /\ ~\E p \in Processes : memory'[p] = NoMemory)
                     => answer'[job[j].owner] \in Texts]_vars

\* When nothing is being written, the two files belong together, so that they
\* can be served without upstream.
PairMatches ==
  (\A j \in Jobs : job[j].step # "write") => body \in {None, Junk, meta.sha}

\* Once releases and faults end, every process comes to serve the first source's
\* latest text, and stays with it.
LatestServed == \A p \in Processes : <>[](answer[p] = <<Sources[1], upstream>>)
=============================================================================
