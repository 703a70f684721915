-------------------------- MODULE CustomSelection --------------------------
(***************************************************************************)
(* The "custom" rotation strategy (index.ts:3395, custom-rotation/):        *)
(* every account of a request is chosen by a policy of the user's, which   *)
(* runs in a child process of its own (runner.ts) while accounts are       *)
(* blocked, the pool is reloaded, the storage path changes and the request *)
(* is aborted.  The answer is an account of the list the child was given,  *)
(* or none of them, and what it may serve is checked again afterwards.     *)
(***************************************************************************)
EXTENDS Naturals, FiniteSets, FiniteSetsExt

CONSTANTS
  Requests,     \* requests in flight
  Accounts,     \* numbers, in the order of the pool
  Preferred,    \* the members of the model's pool, or {}
  Strict,       \* poolMode "strict"
  MaxChildren,  \* MAX_CHILDREN
  Windows,      \* the process tree is killed by a helper, which takes a while
  Faults,       \* of "flood", "spawn", "stdin", "deadline", "abort", "block",
                \* "reload", "move": what may happen while a child runs
  MaxFaults     \* bound

VARIABLES
  cached,    \* number of the cached AccountManager
  eligible,  \* the accounts that can serve now
  path,      \* getStoragePath
  aborted,   \* the requests that were aborted
  active,    \* activeChildren
  request,   \* request -> where its selection is
  child,     \* request -> its policy child
  chosen,    \* history: what was served last
  faults

vars == <<cached, eligible, path, aborted, active, request, child, chosen, faults>>

Null == 0
Line(kind, a) == [kind |-> kind, account |-> a]
NoFrame == Line("none", Null)
NoChild == [phase |-> "none", error |-> "none", frame |-> NoFrame, inTime |-> FALSE, code |-> "none",
            tree |-> "alive", deadline |-> FALSE, grace |-> FALSE]
Fresh == [phase |-> "selecting", manager |-> cached, attempted |-> {}, given |-> {}, scope |-> path,
          selection |-> cached, result |-> Null, error |-> "none", inTime |-> NoFrame]
NoChoice == [account |-> Null, eligible |-> TRUE, again |-> FALSE, aborted |-> FALSE, moved |-> FALSE,
             replaced |-> FALSE, retired |-> FALSE]

Init ==
  /\ cached = 1 /\ eligible = Accounts /\ path = 1 /\ aborted = {} /\ active = 0
  /\ request = [r \in Requests |-> Fresh]
  /\ child = [r \in Requests |-> NoChild]
  /\ chosen = NoChoice /\ faults = 0

-----------------------------------------------------------------------------
(* Meanwhile.                                                              *)

Fault(kind) == kind \in Faults /\ faults < MaxFaults /\ faults' = faults + 1

\* An account is blocked, or free again.
Block(a) ==
  /\ Fault("block")
  /\ eligible' \in {eligible \ {a}, eligible \cup {a}}
  /\ UNCHANGED <<cached, path, aborted, active, request, child, chosen>>

\* A watcher or a tool replaces the manager.
Reload ==
  /\ Fault("reload") /\ cached' = cached + 1
  /\ UNCHANGED <<eligible, path, aborted, active, request, child, chosen>>

Move ==
  /\ Fault("move") /\ path' = path + 1
  /\ UNCHANGED <<cached, eligible, aborted, active, request, child, chosen>>

-----------------------------------------------------------------------------
(* The child (runRotationPolicy).                                          *)

ChildIs(r, c) == child' = [child EXCEPT ![r] = c]

(* terminate: the tree is killed once, and the host waits no longer than   *)
(* the settlement timer for the child to close.                            *)
Terminate(c) ==
  IF c.tree # "alive" THEN c ELSE [c EXCEPT !.tree = IF Windows THEN "dying" ELSE "dead", !.grace = TRUE]

FirstError(c, reason) == IF c.error = "none" THEN reason ELSE c.error
Fails(c, reason) == Terminate([c EXCEPT !.error = FirstError(c, reason)])

Listening(c) == c.phase \in {"running", "settled"}
Event(r) == Listening(child[r]) /\ UNCHANGED <<cached, eligible, path, active, request, chosen>>

Abort(r) ==
  /\ Fault("abort") /\ r \notin aborted
  /\ aborted' = aborted \cup {r}
  /\ child' = IF Listening(child[r]) THEN [child EXCEPT ![r] = Fails(@, "cancelled")] ELSE child
  /\ UNCHANGED <<cached, eligible, path, active, request, chosen>>

Deadline(r) ==
  /\ Event(r) /\ Fault("deadline") /\ child[r].deadline
  /\ ChildIs(r, Fails([child[r] EXCEPT !.deadline = FALSE], "timeout"))
  /\ UNCHANGED aborted

\* More than MAX_BYTES, from any of its streams.
Flood(r) ==
  /\ Event(r) /\ Fault("flood")
  /\ ChildIs(r, Fails(child[r], "output-limit"))
  /\ UNCHANGED aborted

SpawnFails(r) ==
  /\ Event(r) /\ Fault("spawn") /\ child[r].frame = NoFrame /\ child[r].code = "none"
  /\ ChildIs(r, [child[r] EXCEPT !.code = "null", !.error = FirstError(child[r], "spawn"), !.tree = "dead",
                                 !.grace = TRUE])
  /\ UNCHANGED aborted

StdinFails(r) ==
  /\ Event(r) /\ Fault("stdin")
  /\ ChildIs(r, [child[r] EXCEPT !.error = FirstError(child[r], "protocol")])
  /\ UNCHANGED aborted

\* The worker writes one line: an answer, or that the policy threw; a policy
\* may write anything itself.  It may be read after the child has exited.  The
\* deadline does not outlive it.
Frames == {Line(k, Null) : k \in {"threw", "junk", "none of them", "a stranger"}}
            \cup {Line("choice", a) : a \in Accounts}

Frame(r, f) ==
  /\ Event(r) /\ child[r].frame = NoFrame /\ child[r].error # "spawn"
  /\ f.kind = "choice" => f.account \in request[r].given
  /\ ChildIs(r, Terminate([child[r] EXCEPT !.frame = f, !.inTime = child[r].error = "none",
                                           !.deadline = FALSE]))
  /\ UNCHANGED <<aborted, faults>>

\* The child exits by itself, or because its tree was killed.
ChildExits(r) ==
  /\ Event(r) /\ child[r].code = "none"
  /\ \E code \in IF child[r].tree = "alive" THEN {"zero", "one"} ELSE {"null"} :
       ChildIs(r, Terminate([child[r] EXCEPT !.code = code]))
  /\ UNCHANGED <<aborted, faults>>

TreeGone(r) ==
  /\ Event(r) /\ child[r].tree = "dying"
  /\ ChildIs(r, [child[r] EXCEPT !.tree = "dead"])
  /\ UNCHANGED <<aborted, faults>>

\* finish: the child's streams close, or the settlement timer fires first and
\* the exit code counts as unknown.
Finish(r) ==
  /\ Event(r) /\ child[r].phase = "running"
  /\ \/ child[r].code # "none"
        /\ ChildIs(r, Terminate([child[r] EXCEPT !.phase = "settled"]))
     \/ child[r].grace
        /\ ChildIs(r, [child[r] EXCEPT !.phase = "settled", !.grace = FALSE, !.code = "null"])
  /\ UNCHANGED <<aborted, faults>>

Result(c) ==
  LET no(error) == [result |-> Null, error |-> error]
  IN CASE c.error # "none" -> no(c.error)
       [] c.error = "none" /\ c.frame = NoFrame -> no(IF c.code # "zero" THEN "policy" ELSE "protocol")
       [] OTHER -> CASE c.frame.kind = "choice" -> [result |-> c.frame.account, error |-> "none"]
                     [] c.frame.kind = "none of them" -> no("none")
                     [] c.frame.kind = "a stranger" -> no("ineligible-id")
                     [] c.frame.kind = "threw" -> no("policy")
                     [] c.frame.kind = "junk" -> no("protocol")

\* finish goes on when the tree is gone, with the errors of the meantime.
Settle(r) ==
  LET c == child[r]
  IN /\ c.phase = "settled" /\ c.tree = "dead"
     /\ active' = active - 1
     /\ ChildIs(r, NoChild)
     /\ request' = [request EXCEPT ![r] =
          [@ EXCEPT !.phase = "answered", !.result = Result(c).result, !.error = Result(c).error,
                    !.inTime = IF c.inTime THEN c.frame ELSE NoFrame]]
     /\ UNCHANGED <<cached, eligible, path, aborted, chosen, faults>>

-----------------------------------------------------------------------------
(* The selection (selection.ts, accounts/rotation.ts).                     *)

(* getCustomCandidates                                                     *)
Candidates(attempted) ==
  LET mine == (Preferred \cap eligible) \ attempted
  IN IF mine = {} /\ ~(Strict /\ Preferred # {}) THEN eligible \ attempted ELSE mine

RequestIs(r, q) == request' = [request EXCEPT ![r] = q]

\* runRotationPolicy: a child of its own, unless too many run already.
Select(r) ==
  LET given == Candidates(request[r].attempted)
      q == [request[r] EXCEPT !.given = given, !.scope = path, !.selection = cached,
                              !.result = Null, !.error = "none", !.inTime = NoFrame]
  IN /\ request[r].phase = "selecting"
     /\ IF given = {} \/ r \in aborted
          THEN /\ RequestIs(r, [q EXCEPT !.phase = "none"])
               /\ UNCHANGED <<active, child>>
        ELSE IF active >= MaxChildren
          THEN /\ RequestIs(r, [q EXCEPT !.phase = "answered", !.error = "busy"])
               /\ UNCHANGED <<active, child>>
        ELSE /\ RequestIs(r, [q EXCEPT !.phase = "asking"])
             /\ active' = active + 1
             /\ ChildIs(r, [NoChild EXCEPT !.phase = "running", !.deadline = TRUE])
     /\ UNCHANGED <<cached, eligible, path, aborted, chosen, faults>>

(* What the policy chose, if that is still a candidate, and otherwise the  *)
(* first that is (acceptCustomCandidate).                                  *)
Choice(q) ==
  LET now == Candidates(q.attempted)
  IN IF q.result \in now THEN q.result ELSE IF now = {} THEN Null ELSE Min(now)

Serves(r, q, a) ==
  /\ RequestIs(r, [q EXCEPT !.phase = "serving", !.attempted = @ \cup {a}])
  /\ chosen' = [account |-> a, eligible |-> a \in eligible, again |-> a \in q.attempted,
                aborted |-> r \in aborted, moved |-> path # q.scope,
                replaced |-> cached # q.selection, retired |-> cached # q.manager]

\* A manager replaced while the policy ran starts the traversal over.
Choose(r) ==
  LET q == request[r]
      a == IF r \in aborted \/ path # q.scope THEN Null ELSE Choice(q)
  IN /\ q.phase = "answered"
     /\ IF cached # q.selection THEN RequestIs(r, Fresh) /\ UNCHANGED chosen
        ELSE IF a = Null THEN RequestIs(r, [q EXCEPT !.phase = "none"]) /\ UNCHANGED chosen
        ELSE Serves(r, q, a)
     /\ UNCHANGED <<cached, eligible, path, aborted, active, child, faults>>

\* The attempt is answered, or the next account is tried, the manager as it was.
Attempt(r) ==
  LET q == request[r]
  IN /\ q.phase = "serving"
     /\ \/ RequestIs(r, [q EXCEPT !.phase = "done"])
        \/ RequestIs(r, [q EXCEPT !.phase = IF Accounts \subseteq q.attempted THEN "none" ELSE "selecting"])
     /\ UNCHANGED <<cached, eligible, path, aborted, active, child, chosen, faults>>

Next ==
  \/ \E a \in Accounts : Block(a)
  \/ Reload \/ Move
  \/ \E r \in Requests : Abort(r)
  \/ \E r \in Requests : Deadline(r)
  \/ \E r \in Requests : Flood(r)
  \/ \E r \in Requests : SpawnFails(r)
  \/ \E r \in Requests : StdinFails(r)
  \/ \E r \in Requests : \E f \in Frames : Frame(r, f)
  \/ \E r \in Requests : ChildExits(r)
  \/ \E r \in Requests : TreeGone(r)
  \/ \E r \in Requests : Finish(r)
  \/ \E r \in Requests : Settle(r)
  \/ \E r \in Requests : Select(r)
  \/ \E r \in Requests : Choose(r)
  \/ \E r \in Requests : Attempt(r)

Spec == Init /\ [][Next]_vars

-----------------------------------------------------------------------------
Errors == {"none", "busy", "cancelled", "timeout", "output-limit", "policy", "protocol", "spawn",
           "ineligible-id"}
TypeOK ==
  /\ cached \in 1 .. MaxFaults + 1 /\ path \in 1 .. MaxFaults + 1 /\ faults \in 0 .. MaxFaults
  /\ eligible \subseteq Accounts /\ aborted \subseteq Requests /\ active \in 0 .. MaxChildren
  /\ \A r \in Requests :
       /\ request[r].phase \in {"selecting", "asking", "answered", "serving", "none", "done"}
       /\ request[r].error \in Errors /\ request[r].result \in {Null} \cup Accounts
       /\ child[r].phase \in {"none", "running", "settled"} /\ child[r].error \in Errors
       /\ child[r].tree \in {"alive", "dying", "dead"} /\ child[r].code \in {"none", "zero", "one", "null"}

(* However a child ends, and however many things end it at once, its slot  *)
(* is given back once, to the request that took it, and its tree is dead.  *)
SlotsCounted ==
  /\ active = Cardinality({r \in Requests : child[r].phase # "none"})
  /\ \A r \in Requests : child[r].phase # "none" <=> request[r].phase = "asking"

(* No request waits for a child that nothing will end.                     *)
NeverStuck ==
  \A r \in Requests : child[r].phase = "running" =>
    child[r].deadline \/ child[r].grace \/ child[r].code # "none"

(* An answer in time does not turn into a timeout while the tree dies, and *)
(* only what happens to the child or the request takes it back.            *)
AnswerKept ==
  \A r \in Requests :
    LET q == request[r]
    IN q.phase = "answered" /\ q.inTime # NoFrame =>
         \/ q.error \in {"cancelled", "output-limit", "protocol"}
         \/ q.result = q.inTime.account /\ q.error # "timeout"

(* What is served may serve then, whatever the policy was told.            *)
ChoiceHolds ==
  chosen.account # Null =>
    /\ chosen.eligible /\ ~chosen.again /\ ~chosen.aborted /\ ~chosen.moved /\ ~chosen.replaced
    /\ Strict /\ Preferred # {} => chosen.account \in Preferred

SelectionSafe == SlotsCounted /\ NeverStuck /\ AnswerKept /\ ChoiceHolds

(* Refuted: what is served is of the live pool (index.ts:3419).            *)
LivePool == ~chosen.retired
=============================================================================
