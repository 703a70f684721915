---------------------------- MODULE ServiceProofs ----------------------------
(***************************************************************************)
(* Safety of what is shared: the refreshes of the queue, for every set of  *)
(* callers; the managers of the account cache, for every set of requests;  *)
(* the worktree lock, for every set of sessions; the children of the       *)
(* rotation policies, for every set of requests and accounts; the prompts, *)
(* for every set of processes; the block of a spent account, for every set *)
(* of monitors and commands; and the alerts of the monitors.  The bounds   *)
(* of the models are parameters of the theorems.                           *)
(***************************************************************************)
EXTENDS Integers, Sequences, FiniteSets, SequenceTheorems, FiniteSetTheorems,
        WellFoundedInduction, TLAPS

CONSTANTS
  Callers, MaxAge, MaxToken, MaxExchanges, MaxClock,                        \* the queue
  Fetches, ToolsOverlap, StartFails, MaxWrites, MaxLoads, MaxFailures,      \* the cache
  Procs, Old, Host, Ops, StaleAfter, Throttle, Fails, MaxTime, MaxChecks,   \* the lock
  Requests, Accounts, Preferred, Strict, MaxChildren, Windows, Faults, MaxFaults,  \* the policies
  Processes, Jobs, Codex, Sources, Troubles, MaxVersion, MaxTroubles,       \* the prompts
  Monitors, Commands, Credits, Protect, Redeem, Week, MaxElapsed,           \* the block
  Top, Thresholds, Every, Interval, InOrder                                 \* the alerts

VARIABLES
  clock, live, exchanges, pending, rotation, recent, calls,
  file, own, foreign, managers, cached, shared, loads, fetches, watch, retry, tool, failures,
  now, lock, state, owned, leave, check, warned, warnings, done, taken,
  generation, eligible, path, aborted, active, request, child, chosen, faults,
  upstream, body, meta, memory, failed, tag, reply, job, troubles,
  elapsed, backend, record, jobs, tried, bought, evidence,
  left, monitor, checks, told, last, early

(***************************************************************************)
(* The refresh queue.                                                      *)
(***************************************************************************)
Queue == INSTANCE RefreshQueue

QueueConstants ==
  /\ MaxAge \in Nat /\ MaxToken \in Nat \ {0}
  /\ MaxExchanges \in Nat /\ MaxClock \in Nat

-----------------------------------------------------------------------------
Tokens == 1..MaxToken

Exchange ==
  [token : Tokens, started : Nat, answer : {"none", "tokens", "rejected"}, ended : Int,
   rotated : BOOLEAN]

Call(n) ==
  [token : 0..MaxToken, live : BOOLEAN, waits : 0..n,
   got : {"nothing", "tokens", "rejected", "error"}]

QueueTypes ==
  /\ clock \in 0..MaxClock /\ live \in Tokens
  /\ exchanges \in Seq(Exchange)
  /\ pending \in [Tokens -> 0..Len(exchanges)]
  /\ recent \in [Tokens -> 0..Len(exchanges)]
  /\ rotation \in [Tokens -> Nat]
  /\ calls \in [Callers -> Call(Len(exchanges))]

\* What the entries point to.
Linked ==
  \A t \in Tokens :
    /\ rotation[t] \in {0, t + 1}
    /\ pending[t] # 0 => exchanges[pending[t]].token = t /\ exchanges[pending[t]].ended = -1
    /\ recent[t] # 0 => exchanges[recent[t]].token = t /\ exchanges[recent[t]].rotated

\* Nobody waits for an exchange that has ended.
Awaited ==
  \A c \in Callers : calls[c].waits # 0 => exchanges[calls[c].waits].ended = -1

Timed ==
  \A e \in 1..Len(exchanges) :
    /\ exchanges[e].started <= clock
    /\ exchanges[e].ended # -1 => exchanges[e].started <= exchanges[e].ended /\ exchanges[e].ended <= clock

\* What an answer says of its token.
Answered ==
  \A e \in 1..Len(exchanges) :
    /\ exchanges[e].token <= live
    /\ exchanges[e].answer # "none" => exchanges[e].token < live
    /\ exchanges[e].rotated => exchanges[e].answer = "tokens" /\ exchanges[e].ended # -1

OneRotation ==
  \A e, f \in 1..Len(exchanges) :
    /\ exchanges[e].answer = "tokens" /\ exchanges[f].answer = "tokens"
    /\ exchanges[e].token = exchanges[f].token
    => e = f

\* An exchange in flight is the one its token's callers join, or is too old;
\* one that rotated is the one they are answered from, or is.
Findable ==
  \A e \in 1..Len(exchanges) :
    /\ exchanges[e].ended = -1 =>
         pending[exchanges[e].token] = e \/ clock - exchanges[e].started > MaxAge
    /\ exchanges[e].rotated =>
         recent[exchanges[e].token] = e \/ clock - exchanges[e].ended > MaxAge

\* Queue!ExchangesSpaced and Queue!Prompt, over the exchanges' numbers.
Spaced ==
  \A e, f \in 1..Len(exchanges) :
    e < f /\ exchanges[e].token = exchanges[f].token =>
      IF \/ exchanges[e].ended = -1 \/ exchanges[e].ended > exchanges[f].started
         \/ exchanges[e].rotated /\ exchanges[e].ended = exchanges[f].started
        THEN exchanges[f].started - exchanges[e].started > MaxAge
        ELSE exchanges[e].rotated => exchanges[f].started - exchanges[e].ended > MaxAge

Prompt ==
  \A e \in 1..Len(exchanges) :
    /\ exchanges[e].ended = -1 => clock - exchanges[e].started <= MaxAge
    /\ exchanges[e].ended # -1 => exchanges[e].ended - exchanges[e].started <= MaxAge

\* While exchanges are prompt, nobody joins another token's exchange, and a caller whose
\* token was live waits for the exchange that will get the answer.
Undisturbed ==
  /\ \A t \in Tokens : rotation[t] = 0
  /\ \A c \in Callers : calls[c].live =>
       /\ calls[c].got # "rejected"
       /\ calls[c].waits # 0 =>
            /\ exchanges[calls[c].waits].answer # "rejected"
            /\ exchanges[calls[c].waits].answer = "none" => exchanges[calls[c].waits].token = live

QueueInv ==
  /\ QueueTypes /\ Linked /\ Awaited /\ Timed /\ Answered /\ OneRotation /\ Findable
  /\ Spaced
  /\ Prompt => Undisturbed

-----------------------------------------------------------------------------
\* What forgetting old entries does.
LEMMA Cleaned ==
  ASSUME QueueConstants, QueueTypes, Linked
  PROVE  /\ Queue!CleanPending \in [Tokens -> 0..Len(exchanges)]
         /\ \A t \in Tokens :
              /\ Queue!StillRecent(t) \in {0, recent[t]}
              /\ Queue!StillRecent(t) = 0 /\ recent[t] # 0 => clock - exchanges[recent[t]].ended > MaxAge
              /\ Queue!CleanPending[t] \in {0, pending[t]}
              /\ Queue!CleanPending[t] = 0 /\ pending[t] # 0 =>
                   clock - exchanges[pending[t]].started > MaxAge
  BY DEF Queue!CleanPending, Queue!Fresh, Queue!StillRecent, Queue!TooOld, Queue!Tokens, Tokens, QueueTypes

\* The exchanges, counted, and the types of their fields.
LEMMA Counted ==
  ASSUME QueueTypes
  PROVE  /\ Len(exchanges) \in Nat
         /\ DOMAIN exchanges = 1..Len(exchanges)
         /\ \A e \in 1..Len(exchanges) :
              /\ exchanges[e] \in Exchange
              /\ exchanges[e].token \in Tokens /\ exchanges[e].started \in Nat
              /\ exchanges[e].answer \in {"none", "tokens", "rejected"}
              /\ exchanges[e].ended \in Int /\ exchanges[e].rotated \in BOOLEAN
  <1>1. Len(exchanges) \in Nat /\ DOMAIN exchanges = 1..Len(exchanges)
    BY LenProperties DEF QueueTypes
  <1>2. \A e \in 1..Len(exchanges) : exchanges[e] \in Exchange
    BY ElementOfSeq DEF QueueTypes
  <1> QED BY <1>1, <1>2 DEF Exchange

\* One exchange is replaced.
LEMMA Replaced ==
  ASSUME QueueTypes, NEW e \in 1..Len(exchanges), NEW x \in Exchange,
         exchanges' = [exchanges EXCEPT ![e] = x]
  PROVE  /\ exchanges' \in Seq(Exchange) /\ Len(exchanges') = Len(exchanges)
         /\ \A f \in 1..Len(exchanges) : exchanges'[f] = IF f = e THEN x ELSE exchanges[f]
  BY ExceptSeq DEF QueueTypes

\* One exchange is added.
LEMMA Added ==
  ASSUME QueueTypes, NEW x \in Exchange, exchanges' = Append(exchanges, x)
  PROVE  /\ exchanges' \in Seq(Exchange) /\ Len(exchanges') = Len(exchanges) + 1
         /\ exchanges'[Len(exchanges) + 1] = x
         /\ \A f \in 1..Len(exchanges) : exchanges'[f] = exchanges[f]
  BY AppendProperties DEF QueueTypes

\* The initial state satisfies the invariant.
LEMMA QueueStarts ==
  ASSUME QueueConstants, Queue!Init
  PROVE  QueueInv
  <1>1. exchanges \in Seq(Exchange) /\ Len(exchanges) = 0 /\ DOMAIN exchanges = {}
    BY EmptySeq, LenProperties DEF Queue!Init
  <1>2. QueueTypes
    BY <1>1 DEF QueueTypes, Queue!Init, QueueConstants, Tokens, Queue!Tokens, Call, Queue!NoCall
  <1> QED BY <1>1, <1>2 DEF QueueInv, Linked, Awaited, Timed, Answered, OneRotation, Findable,
      Spaced, Undisturbed, Queue!Init, Tokens, Queue!Tokens, Queue!NoCall

\* Waiting changes no exchange and no entry.
LEMMA TickKeeps ==
  ASSUME QueueConstants, QueueInv, Queue!Tick
  PROVE  QueueInv'
  <1> USE DEF QueueInv
  <1>0. /\ clock \in Nat /\ MaxAge \in Nat /\ clock' = clock + 1
        /\ UNCHANGED <<live, exchanges, pending, rotation, recent, calls>>
    BY DEF QueueTypes, QueueConstants, Queue!Tick
  <1>1. QueueTypes'
    BY DEF QueueTypes, Queue!Tick, QueueConstants
  <1>2. Linked' /\ Awaited' /\ Answered' /\ OneRotation'
    BY <1>0 DEF Linked, Awaited, Answered, OneRotation
  <1>3. Timed'
    BY <1>0, Counted DEF Timed
  <1>4. Findable'
    BY <1>0, Counted DEF Findable
  <1>5. Spaced'
    BY <1>0 DEF Spaced
  <1>6. Prompt' => Prompt
    <2> SUFFICES ASSUME Prompt', NEW e \in 1..Len(exchanges)
                 PROVE  /\ exchanges[e].ended = -1 => clock - exchanges[e].started <= MaxAge
                        /\ exchanges[e].ended # -1 => exchanges[e].ended - exchanges[e].started <= MaxAge
      BY DEF Prompt
    <2>1. exchanges[e].started \in Nat
      BY Counted
    <2>2. /\ exchanges[e].ended = -1 => clock' - exchanges[e].started <= MaxAge
          /\ exchanges[e].ended # -1 => exchanges[e].ended - exchanges[e].started <= MaxAge
      BY <1>0 DEF Prompt
    <2> QED BY <1>0, <2>1, <2>2
  <1>7. Undisturbed => Undisturbed'
    BY <1>0 DEF Undisturbed
  <1> QED BY <1>1, <1>2, <1>3, <1>4, <1>5, <1>6, <1>7

\* A caller holds tokens up to the live one.
LEMMA GivenIsOld ==
  ASSUME QueueConstants, QueueInv, NEW t \in Queue!Given
  PROVE  t \in Tokens /\ t <= live
  <1>1. live \in Nat /\ 1 <= live /\ live <= MaxToken /\ MaxToken \in Nat
    BY DEF QueueInv, QueueTypes, QueueConstants, Tokens
  <1>2. CASE t = 1 BY <1>1, <1>2 DEF Tokens
  <1>3. CASE t # 1
    <2>1. PICK e \in 1..Len(exchanges) : t = exchanges[e].token + 1 /\ exchanges[e].rotated
      BY <1>3, Counted DEF Queue!Given, QueueInv
    <2>2. exchanges[e].token \in Nat /\ exchanges[e].token < live /\ exchanges[e].token >= 1
      BY <2>1, Counted DEF QueueInv, Answered, Tokens
    <2> QED BY <1>1, <2>1, <2>2 DEF Tokens
  <1> QED BY <1>2, <1>3

\* Forgetting old entries keeps what is said of the entries.
LEMMA CleanupKeeps ==
  ASSUME QueueConstants, QueueInv, Queue!Cleanup, UNCHANGED <<clock, live, exchanges, rotation>>
  PROVE  /\ pending' \in [Tokens -> 0..Len(exchanges)]
         /\ recent' \in [Tokens -> 0..Len(exchanges)]
         /\ Linked' /\ Timed' /\ Answered' /\ OneRotation' /\ Findable' /\ Spaced'
         /\ Prompt' => Prompt
  <1> USE DEF QueueInv
  <1>1. /\ pending' \in [Tokens -> 0..Len(exchanges)]
        /\ recent' \in [Tokens -> 0..Len(exchanges)]
        /\ \A t \in Tokens :
              /\ recent'[t] \in {0, recent[t]}
              /\ recent'[t] = 0 /\ recent[t] # 0 => clock - exchanges[recent[t]].ended > MaxAge
              /\ pending'[t] \in {0, pending[t]}
              /\ pending'[t] = 0 /\ pending[t] # 0 => clock - exchanges[pending[t]].started > MaxAge
    BY Cleaned DEF Queue!Cleanup, Queue!Tokens, Tokens, QueueTypes
  <1>2. Linked'
    BY <1>1 DEF Linked
  <1>3. Timed' /\ Answered' /\ OneRotation' /\ Spaced'
    BY DEF Timed, Answered, OneRotation, Spaced
  <1>4. Findable'
    <2> SUFFICES ASSUME NEW e \in 1..Len(exchanges)
                 PROVE  /\ exchanges[e].ended = -1 =>
                             pending'[exchanges[e].token] = e \/ clock - exchanges[e].started > MaxAge
                        /\ exchanges[e].rotated =>
                             recent'[exchanges[e].token] = e \/ clock - exchanges[e].ended > MaxAge
      BY DEF Findable
    <2>1. exchanges[e].token \in Tokens /\ e # 0
      BY Counted
    <2> QED BY <1>1, <2>1 DEF Findable
  <1>5. Prompt' => Prompt
    BY DEF Prompt
  <1> QED BY <1>1, <1>2, <1>3, <1>4, <1>5

\* A call that joins, or is answered, in a state that is otherwise as it was.
LEMMA CallKeeps ==
  ASSUME QueueConstants, QueueInv, Queue!Cleanup, UNCHANGED <<clock, live, exchanges, rotation>>,
         NEW c \in Callers, NEW t \in Tokens, NEW e \in 0..Len(exchanges),
         NEW got \in {"nothing", "tokens"},
         calls' = [calls EXCEPT ![c] = [token |-> t, live |-> t = live, waits |-> e, got |-> got]],
         e # 0 => exchanges[e].ended = -1,
         Prompt /\ e # 0 => exchanges[e].token = t
  PROVE  QueueInv'
  <1>1. QueueTypes'
    <2>1. pending' \in [Tokens -> 0..Len(exchanges)] /\ recent' \in [Tokens -> 0..Len(exchanges)]
      BY CleanupKeeps
    <2>2. calls' \in [Callers -> Call(Len(exchanges))]
      <3>1. live \in Tokens /\ calls \in [Callers -> Call(Len(exchanges))] /\ t \in 0..MaxToken
        BY DEF QueueInv, QueueTypes, Tokens, QueueConstants
      <3>2. [token |-> t, live |-> t = live, waits |-> e, got |-> got] \in Call(Len(exchanges))
        BY <3>1 DEF Call
      <3> QED BY <3>1, <3>2
    <2> QED BY <2>1, <2>2 DEF QueueInv, QueueTypes
  <1>2. Awaited'
    BY DEF QueueInv, Awaited, QueueTypes
  <1>3. Prompt' => Undisturbed'
    <2> SUFFICES ASSUME Undisturbed, Prompt
                 PROVE  Undisturbed'
      BY CleanupKeeps DEF QueueInv
    <2>1. e # 0 /\ t = live => exchanges[e].answer = "none" /\ exchanges[e].token = live
      BY Counted DEF QueueInv, Answered, QueueTypes, Tokens
    <2> QED BY <2>1 DEF Undisturbed, QueueInv, QueueTypes
  <1> QED BY <1>1, <1>2, <1>3, CleanupKeeps DEF QueueInv

\* Joining an exchange in flight.
LEMMA JoinKeeps ==
  ASSUME QueueConstants, QueueInv, NEW c \in Callers, NEW t \in Tokens, Queue!Join(c, t)
  PROVE  QueueInv'
  <1>1. Queue!Cleanup /\ UNCHANGED <<clock, live, exchanges, rotation>>
    BY DEF Queue!Join
  <1>2. CASE Queue!CleanPending[t] # 0 /\ Queue!Waits(c, t, Queue!CleanPending[t])
    <2>1. pending[t] # 0 /\ Queue!CleanPending[t] = pending[t]
      BY <1>2, Cleaned DEF QueueInv
    <2>2. /\ pending[t] \in 0..Len(exchanges)
          /\ exchanges[pending[t]].token = t /\ exchanges[pending[t]].ended = -1
      BY <2>1 DEF QueueInv, Linked, QueueTypes
    <2>3. PICK e \in 0..Len(exchanges) : e = pending[t] /\ Queue!Waits(c, t, e)
      BY <1>2, <2>1, <2>2
    <2>4. exchanges[e].ended = -1 /\ exchanges[e].token = t
      BY <2>2, <2>3
    <2>5. calls' = [calls EXCEPT ![c] = [token |-> t, live |-> t = live, waits |-> e, got |-> "nothing"]]
      BY <2>3 DEF Queue!Waits
    <2> QED BY <1>1, <2>4, <2>5, CallKeeps
  <1>3. ASSUME NEW e \in Queue!Joinable(t), Queue!Waits(c, t, e)
        PROVE  QueueInv'
    <2>1. PICK o \in Tokens : rotation[o] = t /\ e = Queue!CleanPending[o] /\ e # 0
      BY DEF Queue!Joinable, Queue!Tokens, Tokens
    <2>2. e \in 0..Len(exchanges) /\ exchanges[e].ended = -1
      BY <2>1, Cleaned DEF QueueInv, Linked, QueueTypes
    <2>3. ~Prompt
      BY <2>1 DEF QueueInv, Undisturbed, Tokens
    <2> QED BY <1>1, <1>3, <2>2, <2>3, CallKeeps DEF Queue!Waits
  <1> QED BY <1>2, <1>3 DEF Queue!Join

\* Getting the result of a recent exchange.
LEMMA ReuseKeeps ==
  ASSUME QueueConstants, QueueInv, NEW c \in Callers, NEW t \in Tokens, Queue!Reuse(c, t)
  PROVE  QueueInv'
  <1>1. 0 \in 0..Len(exchanges)
    BY Counted DEF QueueInv
  <1> QED BY <1>1, CallKeeps DEF Queue!Reuse

\* Starting an exchange.
LEMMA StartKeeps ==
  ASSUME QueueConstants, QueueInv, NEW c \in Callers, NEW t \in Tokens, t <= live, Queue!Start(c, t),
         NEW e, e = Len(exchanges) + 1
  PROVE  QueueInv'
  <1> DEFINE x == [token |-> t, started |-> clock, answer |-> "none", ended |-> -1, rotated |-> FALSE]
  <1> USE DEF QueueInv
  <1>1. clock \in Nat /\ MaxAge \in Nat /\ live \in Nat /\ t \in Nat /\ x \in Exchange
        /\ x.token = t /\ x.started = clock /\ x.answer = "none" /\ x.ended = -1 /\ x.rotated = FALSE
    BY DEF QueueTypes, QueueConstants, Tokens, Exchange
  <1>2. /\ UNCHANGED <<clock, live, rotation>>
        /\ exchanges' = Append(exchanges, x)
        /\ pending' = [Queue!CleanPending EXCEPT ![t] = e]
        /\ recent' = [u \in Tokens |-> Queue!StillRecent(u)]
        /\ calls' = [calls EXCEPT ![c] = [token |-> t, live |-> t = live, waits |-> e, got |-> "nothing"]]
        /\ Queue!CleanPending[t] = 0 /\ Queue!StillRecent(t) = 0
    BY DEF Queue!Start, Queue!Waits, Queue!Tokens, Tokens
  <1> HIDE DEF x
  <1>3. /\ exchanges' \in Seq(Exchange) /\ Len(exchanges') = e /\ Len(exchanges) \in Nat
        /\ exchanges'[e].token = t /\ exchanges'[e].started = clock /\ exchanges'[e].answer = "none"
        /\ exchanges'[e].ended = -1 /\ exchanges'[e].rotated = FALSE
        /\ \A f \in 1..Len(exchanges) : exchanges'[f] = exchanges[f]
    BY <1>1, <1>2, Added, Counted
  <1>4. /\ pending' \in [Tokens -> 0..e] /\ recent' \in [Tokens -> 0..e]
        /\ pending'[t] = e
        /\ \A u \in Tokens :
             /\ recent'[u] \in {0, recent[u]}
             /\ recent'[u] = 0 /\ recent[u] # 0 => clock - exchanges[recent[u]].ended > MaxAge
             /\ u # t => pending'[u] \in {0, pending[u]}
             /\ pending'[u] = 0 /\ pending[u] # 0 => clock - exchanges[pending[u]].started > MaxAge
    <2>1. Queue!CleanPending \in [Tokens -> 0..e] /\ e \in 0..e
      BY <1>3, Cleaned
    <2>2. recent' \in [Tokens -> 0..e]
      <3>1. \A u \in Tokens : Queue!StillRecent(u) \in {0, recent[u]}
        BY Cleaned
      <3>2. \A u \in Tokens : recent[u] \in 0..Len(exchanges)
        BY DEF QueueTypes
      <3>3. \A u \in Tokens : Queue!StillRecent(u) \in 0..e
        BY <1>3, <3>1, <3>2
      <3> QED BY <1>2, <3>3
    <2> QED BY <1>2, <1>3, Cleaned, <2>1, <2>2
  <1>5. /\ pending[t] # 0 => clock - exchanges[pending[t]].started > MaxAge
        /\ recent[t] # 0 => clock - exchanges[recent[t]].ended > MaxAge
    BY <1>2, Cleaned
  <1>6. QueueTypes'
    <2>1. calls' \in [Callers -> Call(e)]
      BY <1>1, <1>2, <1>3 DEF QueueTypes, Call, Tokens
    <2> QED BY <1>2, <1>3, <1>4, <2>1 DEF QueueTypes
  <1>7. Linked'
    <2> SUFFICES ASSUME NEW u \in Tokens
                 PROVE  /\ rotation[u] \in {0, u + 1}
                        /\ pending'[u] # 0 => /\ exchanges'[pending'[u]].token = u
                                              /\ exchanges'[pending'[u]].ended = -1
                        /\ recent'[u] # 0 => /\ exchanges'[recent'[u]].token = u
                                             /\ exchanges'[recent'[u]].rotated
      BY <1>2 DEF Linked
    <2>1. pending[u] \in 0..Len(exchanges) /\ recent[u] \in 0..Len(exchanges)
      BY DEF QueueTypes
    <2>2. pending[u] # 0 => exchanges'[pending[u]] = exchanges[pending[u]]
      BY <1>3, <2>1
    <2>3. recent[u] # 0 => exchanges'[recent[u]] = exchanges[recent[u]]
      BY <1>3, <2>1
    <2> QED BY <1>3, <1>4, <2>2, <2>3 DEF Linked
  <1>8. Awaited'
    <2> SUFFICES ASSUME NEW d \in Callers, calls'[d].waits # 0
                 PROVE  exchanges'[calls'[d].waits].ended = -1
      BY DEF Awaited
    <2>1. d # c => calls[d].waits \in 0..Len(exchanges) /\ calls'[d] = calls[d]
      BY <1>2 DEF QueueTypes, Call
    <2>2. d = c => calls'[d].waits = e
      BY <1>2 DEF QueueTypes
    <2> QED BY <1>3, <2>1, <2>2 DEF Awaited
  <1>9. Timed'
    BY <1>1, <1>2, <1>3, Counted DEF Timed
  <1>10. Answered'
    BY <1>1, <1>2, <1>3, Counted DEF Answered
  <1>11. OneRotation'
    <2>1. \A f \in 1..e : exchanges'[f].answer = "tokens" => f \in 1..Len(exchanges)
      BY <1>3
    <2> QED BY <1>3, <2>1 DEF OneRotation
  <1>12. Findable'
    <2> SUFFICES ASSUME NEW f \in 1..e
                 PROVE  /\ exchanges'[f].ended = -1 =>
                             pending'[exchanges'[f].token] = f \/ clock - exchanges'[f].started > MaxAge
                        /\ exchanges'[f].rotated =>
                             recent'[exchanges'[f].token] = f \/ clock - exchanges'[f].ended > MaxAge
      BY <1>2, <1>3 DEF Findable
    <2>1. CASE f = e BY <1>3, <1>4, <2>1
    <2>2. CASE f \in 1..Len(exchanges)
      <3>1. exchanges[f].token \in Tokens /\ f # 0
        BY <2>2, Counted
      <3>2. exchanges[f].ended = -1 =>
              pending'[exchanges[f].token] = f \/ clock - exchanges[f].started > MaxAge
        <4>1. exchanges[f].ended = -1 =>
                pending[exchanges[f].token] = f \/ clock - exchanges[f].started > MaxAge
          BY <2>2 DEF Findable
        <4> QED BY <1>4, <1>5, <2>2, <3>1, <4>1
      <3>3. exchanges[f].rotated =>
              recent'[exchanges[f].token] = f \/ clock - exchanges[f].ended > MaxAge
        BY <1>4, <2>2, <3>1 DEF Findable
      <3> QED BY <1>3, <2>2, <3>2, <3>3
    <2> QED BY <1>3, <2>1, <2>2
  <1>13. Spaced'
    <2> SUFFICES ASSUME NEW f \in 1..e, NEW g \in 1..e, f < g,
                        exchanges'[f].token = exchanges'[g].token
                 PROVE  IF \/ exchanges'[f].ended = -1 \/ exchanges'[f].ended > exchanges'[g].started
                           \/ exchanges'[f].rotated /\ exchanges'[f].ended = exchanges'[g].started
                          THEN exchanges'[g].started - exchanges'[f].started > MaxAge
                          ELSE exchanges'[f].rotated => exchanges'[g].started - exchanges'[f].ended > MaxAge
      BY <1>3 DEF Spaced
    <2>1. f \in 1..Len(exchanges) /\ exchanges'[f] = exchanges[f]
      BY <1>3
    <2>2. CASE g \in 1..Len(exchanges) BY <1>3, <2>1, <2>2 DEF Spaced
    <2>3. CASE g = e
      <3>1. exchanges'[g].started = clock /\ exchanges[f].token = t
        BY <1>3, <2>1, <2>3
      <3>2. /\ exchanges[f].ended = -1 => clock - exchanges[f].started > MaxAge
            /\ exchanges[f].rotated => clock - exchanges[f].ended > MaxAge
        BY <1>5, <2>1, <3>1 DEF Findable
      <3>3. exchanges[f].ended \in Int /\ exchanges[f].ended <= clock
        BY <1>1, <2>1, Counted DEF Timed
      <3> QED BY <1>1, <2>1, <3>1, <3>2, <3>3
    <2> QED BY <1>3, <2>2, <2>3
  <1>14. Prompt' => Prompt
    BY <1>2, <1>3 DEF Prompt
  <1>15. Undisturbed => Undisturbed'
    <2> SUFFICES ASSUME Undisturbed, NEW d \in Callers, calls'[d].live
                 PROVE  /\ calls'[d].got # "rejected"
                        /\ calls'[d].waits # 0 =>
                             /\ exchanges'[calls'[d].waits].answer # "rejected"
                             /\ exchanges'[calls'[d].waits].answer = "none" =>
                                  exchanges'[calls'[d].waits].token = live
      BY <1>2 DEF Undisturbed
    <2>1. d # c => calls[d].waits \in 0..Len(exchanges) /\ calls'[d] = calls[d]
      BY <1>2 DEF QueueTypes, Call
    <2>2. d = c => calls'[d].waits = e /\ t = live /\ calls'[d].got = "nothing"
      BY <1>2 DEF QueueTypes
    <2> QED BY <1>3, <2>1, <2>2 DEF Undisturbed
  <1> QED BY <1>6, <1>7, <1>8, <1>9, <1>10, <1>11, <1>12, <1>13, <1>14, <1>15

\* The provider handles an exchange.
LEMMA ProviderKeeps ==
  ASSUME QueueConstants, QueueInv, NEW e \in 1..Len(exchanges), Queue!Provider(e)
  PROVE  QueueInv'
  <1> DEFINE answer == IF exchanges[e].token = live THEN "tokens" ELSE "rejected"
             x == [exchanges[e] EXCEPT !.answer = answer]
  <1> USE DEF QueueInv
  <1>0. exchanges[e].ended = -1 /\ exchanges[e].answer = "none"
    BY DEF Queue!Provider, Queue!Flying
  <1>1. /\ clock \in Nat /\ live \in Nat /\ Len(exchanges) \in Nat /\ MaxAge \in Nat
        /\ x \in Exchange /\ x.token = exchanges[e].token /\ x.started = exchanges[e].started
        /\ x.ended = -1 /\ x.rotated = exchanges[e].rotated /\ x.answer = answer
    <2>1. clock \in Nat /\ live \in Nat /\ Len(exchanges) \in Nat /\ MaxAge \in Nat
      BY Counted DEF QueueTypes, QueueConstants, Tokens
    <2>2. exchanges[e] \in Exchange /\ answer \in {"none", "tokens", "rejected"}
      BY Counted
    <2> QED BY <1>0, <2>1, <2>2 DEF Exchange
  <1>2. /\ UNCHANGED <<clock, pending, rotation, recent, calls>>
        /\ exchanges' = [exchanges EXCEPT ![e] = x]
        /\ exchanges[e].token = live => live' = live + 1 /\ live' <= MaxToken
        /\ exchanges[e].token # live => live' = live
    BY <1>1 DEF Queue!Provider, QueueTypes, QueueConstants, Tokens
  <1>3. /\ exchanges' \in Seq(Exchange) /\ Len(exchanges') = Len(exchanges)
        /\ \A f \in 1..Len(exchanges) : exchanges'[f] = IF f = e THEN x ELSE exchanges[f]
    BY <1>0, <1>1, <1>2, Replaced
  <1> HIDE DEF x
  <1>4. /\ \A f \in 1..Len(exchanges) :
             /\ exchanges'[f].token = exchanges[f].token /\ exchanges'[f].started = exchanges[f].started
             /\ exchanges'[f].ended = exchanges[f].ended /\ exchanges'[f].rotated = exchanges[f].rotated
             /\ f # e => exchanges'[f].answer = exchanges[f].answer
        /\ exchanges'[e].answer = answer
    <2>1. exchanges'[e] = x /\ \A f \in 1..Len(exchanges) : f # e => exchanges'[f] = exchanges[f]
      BY <1>3
    <2> QED BY <1>0, <1>1, <2>1
  <1>5. live' \in Tokens /\ live <= live' /\ live' \in Nat
    <2>1. live \in Nat /\ 1 <= live /\ live <= MaxToken /\ MaxToken \in Nat
      BY DEF QueueTypes, QueueConstants, Tokens
    <2>2. exchanges[e].token = live => live' = live + 1 /\ live' <= MaxToken
      BY <1>2
    <2>3. exchanges[e].token # live => live' = live
      BY <1>2
    <2> QED BY <2>1, <2>2, <2>3 DEF Tokens
  <1>6. QueueTypes'
    <2>1. clock' \in 0..MaxClock /\ live' \in Tokens /\ exchanges' \in Seq(Exchange)
      BY <1>2, <1>3, <1>5 DEF QueueTypes
    <2>2. /\ pending' \in [Tokens -> 0..Len(exchanges)] /\ recent' \in [Tokens -> 0..Len(exchanges)]
          /\ rotation' \in [Tokens -> Nat] /\ calls' \in [Callers -> Call(Len(exchanges))]
      BY <1>2 DEF QueueTypes
    <2> QED BY <1>3, <2>1, <2>2 DEF QueueTypes
  <1>7. Linked' /\ Awaited'
    BY <1>2, <1>3, <1>4 DEF Linked, Awaited, QueueTypes, Call
  <1>8. Timed' /\ Findable' /\ Spaced'
    BY <1>2, <1>3, <1>4, Counted DEF Timed, Findable, Spaced
  <1>9. Answered'
    BY <1>0, <1>1, <1>2, <1>3, <1>4, <1>5, Counted DEF Answered, Tokens
  <1>10. OneRotation'
    BY <1>0, <1>1, <1>2, <1>3, <1>4, Counted DEF OneRotation, Answered, Tokens
  <1>11. Prompt' => Prompt
    BY <1>2, <1>4, Counted DEF Prompt
  <1>12. Prompt /\ Undisturbed => Undisturbed'
    <2> SUFFICES ASSUME Prompt, Undisturbed, NEW c \in Callers, calls[c].live,
                        NEW f \in 1..Len(exchanges), calls[c].waits = f
                 PROVE  /\ exchanges'[f].answer # "rejected"
                        /\ exchanges'[f].answer = "none" => exchanges'[f].token = live'
      BY <1>2, <1>3, Counted DEF Undisturbed, QueueTypes, Call
    <2>1. /\ exchanges[f].ended = -1 /\ exchanges[f].answer # "rejected"
          /\ exchanges[f].answer = "none" => exchanges[f].token = live
      BY Counted DEF Undisturbed, Awaited
    <2>2. ASSUME exchanges[f].answer = "none", exchanges[e].token = live
          PROVE  f = e
      <3>1. \A g \in 1..Len(exchanges) : exchanges[g].ended = -1 => pending[exchanges[g].token] = g
        BY <1>1, Counted DEF Findable, Prompt
      <3> QED BY <1>0, <2>1, <2>2, <3>1
    <2> QED BY <1>0, <1>1, <1>2, <1>3, <1>4, <2>1, <2>2
  <1> QED BY <1>6, <1>7, <1>8, <1>9, <1>10, <1>11, <1>12

\* An exchange settles.
LEMMA SettleKeeps ==
  ASSUME QueueConstants, QueueInv, NEW e \in 1..Len(exchanges), Queue!Settle(e)
  PROVE  QueueInv'
  <1>0. PICK got \in {"error"} \cup ({exchanges[e].answer} \ {"none"}), rotates \in BOOLEAN :
          /\ rotates <=> got = "tokens"
          /\ exchanges' = [exchanges EXCEPT ![e].ended = clock, ![e].rotated = rotates]
          /\ recent' = IF rotates THEN [recent EXCEPT ![exchanges[e].token] = e] ELSE recent
          /\ LET t == exchanges[e].token
                 mapped == IF rotates THEN [rotation EXCEPT ![t] = t + 1] ELSE rotation
             IN IF pending[t] = e
                  THEN /\ pending' = [pending EXCEPT ![t] = 0]
                       /\ rotation' = Queue!Forget(mapped, t)
                  ELSE rotation' = mapped /\ pending' = pending
          /\ Queue!Settled(e, got)
    BY DEF Queue!Settle
  <1> DEFINE t == exchanges[e].token
             x == [exchanges[e] EXCEPT !.ended = clock, !.rotated = rotates]
  <1> USE DEF QueueInv
  <1>1. /\ clock \in Nat /\ live \in Nat /\ Len(exchanges) \in Nat /\ MaxAge \in Nat
        /\ exchanges[e] \in Exchange /\ t \in Tokens /\ e # 0
    BY Counted DEF QueueTypes, QueueConstants, Tokens
  <1>a. exchanges[e].ended = -1 /\ clock' = clock /\ live' = live
    BY DEF Queue!Settle, Queue!Flying
  <1>b. /\ rotates => exchanges[e].answer = "tokens"
        /\ got = "rejected" => exchanges[e].answer = "rejected"
        /\ got \in {"error", "tokens", "rejected"}
    BY <1>0, Counted
  <1>2. /\ x \in Exchange /\ x.token = t /\ x.started = exchanges[e].started /\ x.ended = clock
        /\ x.answer = exchanges[e].answer /\ x.rotated = rotates
    <2>1. rotates \in BOOLEAN
      BY <1>0
    <2> DEFINE y == exchanges[e]
               z == [y EXCEPT !.ended = clock]
    <2>2. x = [z EXCEPT !.rotated = rotates]
      OBVIOUS
    <2>3. y \in Exchange
      BY <1>1
    <2> HIDE DEF x, y
    <2>4. /\ z \in Exchange /\ z.token = y.token /\ z.started = y.started
          /\ z.ended = clock /\ z.answer = y.answer
      BY <1>1, <2>3 DEF Exchange
    <2> HIDE DEF z
    <2>5. /\ x \in Exchange /\ x.token = z.token /\ x.started = z.started
          /\ x.ended = z.ended /\ x.answer = z.answer /\ x.rotated = rotates
      BY <2>1, <2>2, <2>4 DEF Exchange
    <2> QED BY <2>4, <2>5 DEF y, t
  <1>c. exchanges' = [exchanges EXCEPT ![e] = x]
    BY <1>0
  <1> HIDE DEF x
  <1>3. /\ exchanges' \in Seq(Exchange) /\ Len(exchanges') = Len(exchanges)
        /\ exchanges'[e] = x
        /\ \A f \in 1..Len(exchanges) : f # e => exchanges'[f] = exchanges[f]
    <2>1. \A f \in 1..Len(exchanges) : exchanges'[f] = IF f = e THEN x ELSE exchanges[f]
      BY <1>2, <1>c, Replaced
    <2>2. exchanges' \in Seq(Exchange) /\ Len(exchanges') = Len(exchanges)
      BY <1>2, <1>c, Replaced
    <2> QED BY <2>1, <2>2
  <1>4. /\ \A f \in 1..Len(exchanges) :
             /\ exchanges'[f].token = exchanges[f].token /\ exchanges'[f].started = exchanges[f].started
             /\ exchanges'[f].answer = exchanges[f].answer
        /\ exchanges'[e].ended = clock /\ exchanges'[e].rotated = rotates
    BY <1>2, <1>3
  <1> HIDE DEF t
  <1>d. /\ recent' = IF rotates THEN [recent EXCEPT ![t] = e] ELSE recent
        /\ pending[t] = e => pending' = [pending EXCEPT ![t] = 0]
        /\ pending[t] # e => pending' = pending
    BY <1>0 DEF t
  <1>5. \A u \in Tokens : pending'[u] # 0 => pending'[u] = pending[u] /\ pending[u] # e
    <2>1. \A u \in Tokens : pending[u] = e => u = t
      BY <1>1 DEF Linked, t
    <2> QED BY <1>d, <1>1, <2>1 DEF QueueTypes
  <1>6. pending' \in [Tokens -> 0..Len(exchanges)] /\ \A u \in Tokens : pending'[u] # pending[u] => pending[u] = e
    BY <1>d, <1>1 DEF QueueTypes
  <1>7. /\ recent' \in [Tokens -> 0..Len(exchanges)]
        /\ rotates => recent'[t] = e
        /\ \A u \in Tokens : recent'[u] # recent[u] => rotates /\ u = t
    BY <1>d, <1>1 DEF QueueTypes
  <1>8. /\ rotation' \in [Tokens -> Nat] /\ \A u \in Tokens : rotation'[u] \in {0, u + 1}
        /\ pending[t] = e => \A u \in Tokens : u = t \/ rotation[u] = 0 => rotation'[u] = 0
    <2> DEFINE mapped == IF rotates THEN [rotation EXCEPT ![t] = t + 1] ELSE rotation
    <2>1. /\ mapped \in [Tokens -> Nat]
          /\ \A u \in Tokens : mapped[u] \in {0, u + 1} /\ (u # t => mapped[u] = rotation[u])
      <3>1. rotation \in [Tokens -> Nat] /\ t \in Tokens /\ t + 1 \in Nat
        BY <1>1 DEF QueueTypes, Tokens, QueueConstants
      <3>2. \A u \in Tokens : rotation[u] \in {0, u + 1}
        BY DEF Linked
      <3>3. mapped \in [Tokens -> Nat]
        BY <3>1
      <3>4. ASSUME NEW u \in Tokens
            PROVE  mapped[u] \in {0, u + 1} /\ (u # t => mapped[u] = rotation[u])
        <4>1. CASE u = t BY <3>1, <3>2, <4>1
        <4>2. CASE u # t BY <3>1, <3>2, <4>2
        <4> QED BY <4>1, <4>2
      <3> QED BY <3>3, <3>4
    <2>2. /\ pending[t] = e => rotation' = Queue!Forget(mapped, t)
          /\ pending[t] # e => rotation' = mapped
      BY <1>0 DEF t
    <2> HIDE DEF mapped
    <2> QED
      <3>1. CASE pending[t] # e BY <2>1, <2>2, <3>1
      <3>2. CASE pending[t] = e
        <4>1. rotation' = [o \in Tokens |-> IF o = t \/ mapped[o] = t THEN 0 ELSE mapped[o]]
          BY <2>2, <3>2 DEF Queue!Forget, Queue!Tokens, Tokens
        <4> QED BY <2>1, <4>1
      <3> QED BY <3>1, <3>2
  <1>9. /\ calls' \in [Callers -> Call(Len(exchanges))]
        /\ \A c \in Callers :
             /\ calls'[c].live = calls[c].live /\ calls'[c].waits # e
             /\ calls'[c].waits # 0 => calls'[c].waits = calls[c].waits
             /\ calls'[c].got # calls[c].got => calls'[c].got = got /\ calls[c].waits = e
    <2>1. /\ calls' = [c \in Callers |-> IF calls[c].waits = e
                         THEN [calls[c] EXCEPT !.waits = 0, !.got = got] ELSE calls[c]]
          /\ \A c \in Callers : calls[c] \in Call(Len(exchanges))
      BY <1>0 DEF Queue!Settled, QueueTypes
    <2>2. \A c \in Callers :
            [calls[c] EXCEPT !.waits = 0, !.got = got] \in Call(Len(exchanges))
      <3>1. 0 \in 0..Len(exchanges) /\ got \in {"nothing", "tokens", "rejected", "error"}
        BY <1>1, <1>b
      <3> QED BY <2>1, <3>1 DEF Call
    <2> QED BY <1>1, <1>b, <2>1, <2>2 DEF Call
  <1>10. QueueTypes'
    BY <1>1, <1>a, <1>b, <1>3, <1>6, <1>7, <1>8, <1>9 DEF QueueTypes
  <1>11. Linked'
    <2> SUFFICES ASSUME NEW u \in Tokens
                 PROVE  /\ pending'[u] # 0 => /\ exchanges'[pending'[u]].token = u
                                              /\ exchanges'[pending'[u]].ended = -1
                        /\ recent'[u] # 0 => /\ exchanges'[recent'[u]].token = u
                                             /\ exchanges'[recent'[u]].rotated
      BY <1>8 DEF Linked
    <2>1. pending[u] \in 0..Len(exchanges) /\ recent[u] \in 0..Len(exchanges)
      BY DEF QueueTypes
    <2>2. pending'[u] # 0 => exchanges'[pending'[u]].token = u /\ exchanges'[pending'[u]].ended = -1
      BY <1>3, <1>5, <2>1 DEF Linked
    <2>3. CASE recent'[u] = e
      <3>1. recent[u] # e => rotates /\ u = t
        BY <1>7, <2>3
      <3>2. recent[u] = e => FALSE
        BY <1>1, <1>a, <2>1 DEF Linked, Answered
      <3> QED BY <1>1, <1>4, <2>2, <2>3, <3>1, <3>2 DEF t
    <2>4. CASE recent'[u] # e
      <3>1. recent'[u] = recent[u]
        BY <1>7, <2>4
      <3> QED BY <1>3, <2>1, <2>2, <2>4, <3>1 DEF Linked
    <2> QED BY <2>2, <2>3, <2>4
  <1>12. Awaited'
    BY <1>3, <1>9 DEF Awaited, QueueTypes, Call
  <1>13. Timed'
    BY <1>1, <1>a, <1>b, <1>3, <1>4 DEF Timed
  <1>14. Answered'
    BY <1>1, <1>a, <1>b, <1>3, <1>4, Counted DEF Answered
  <1>15. OneRotation'
    BY <1>3, <1>4 DEF OneRotation
  <1>16. Findable'
    <2> SUFFICES ASSUME NEW f \in 1..Len(exchanges)
                 PROVE  /\ exchanges'[f].ended = -1 =>
                             pending'[exchanges[f].token] = f \/ clock - exchanges[f].started > MaxAge
                        /\ exchanges'[f].rotated =>
                             recent'[exchanges[f].token] = f \/ clock - exchanges'[f].ended > MaxAge
      BY <1>1, <1>a, <1>b, <1>3, <1>4 DEF Findable
    <2>1. exchanges[f].token \in Tokens
      BY Counted
    <2>2. CASE f = e BY <1>1, <1>4, <1>7, <2>2 DEF t
    <2>3. CASE f # e
      <3>1. exchanges'[f] = exchanges[f]
        BY <1>3, <2>3
      <3>2. exchanges[f].ended = -1 =>
              pending'[exchanges[f].token] = f \/ clock - exchanges[f].started > MaxAge
        BY <1>6, <2>1, <2>3 DEF Findable
      <3>3. exchanges[f].rotated /\ exchanges[f].token = t => ~rotates
        BY <1>1, <1>a, <1>b, <2>3 DEF Answered, OneRotation, t
      <3>4. exchanges[f].rotated =>
              recent'[exchanges[f].token] = f \/ clock - exchanges[f].ended > MaxAge
        BY <1>7, <2>1, <3>3 DEF Findable
      <3> QED BY <3>1, <3>2, <3>4
    <2> QED BY <2>2, <2>3
  <1>17. Spaced'
    <2> SUFFICES ASSUME NEW f \in 1..Len(exchanges), NEW g \in 1..Len(exchanges), f < g,
                        exchanges[f].token = exchanges[g].token
                 PROVE  IF \/ exchanges'[f].ended = -1 \/ exchanges'[f].ended > exchanges[g].started
                           \/ exchanges'[f].rotated /\ exchanges'[f].ended = exchanges[g].started
                          THEN exchanges[g].started - exchanges[f].started > MaxAge
                          ELSE exchanges'[f].rotated => exchanges[g].started - exchanges'[f].ended > MaxAge
      BY <1>3, <1>4 DEF Spaced
    <2>1. CASE f = e
      <3>1. exchanges[g].started - exchanges[f].started > MaxAge
        BY <1>1, <1>a, <1>b, <2>1 DEF Spaced
      <3>2. exchanges[g].started <= clock /\ exchanges[g].started \in Nat
        BY Counted DEF Timed
      <3> QED BY <1>1, <1>a, <1>b, <1>4, <2>1, <3>1, <3>2
    <2>2. CASE f # e BY <1>3, <2>2 DEF Spaced
    <2> QED BY <2>1, <2>2
  <1>18. Prompt' => Prompt
    BY <1>1, <1>a, <1>b, <1>3, <1>4 DEF Prompt
  <1>19. Prompt /\ Undisturbed => Undisturbed'
    <2> SUFFICES ASSUME Prompt, Undisturbed
                 PROVE  Undisturbed'
      OBVIOUS
    <2>1. pending[t] = e
      BY <1>1, <1>a, <1>b, Counted DEF Findable, Prompt, t
    <2>2. \A u \in Tokens : rotation'[u] = 0
      BY <1>8, <2>1 DEF Undisturbed
    <2>3. ASSUME NEW c \in Callers, calls'[c].live
          PROVE  /\ calls'[c].got # "rejected"
                 /\ calls'[c].waits # 0 =>
                      /\ exchanges'[calls'[c].waits].answer # "rejected"
                      /\ exchanges'[calls'[c].waits].answer = "none" =>
                           exchanges'[calls'[c].waits].token = live
      <3>1. calls[c].live /\ calls[c].waits \in 0..Len(exchanges)
        BY <1>9, <2>3 DEF QueueTypes, Call
      <3>2. calls'[c].got # "rejected"
        BY <1>1, <1>a, <1>b, <1>9, <3>1 DEF Undisturbed
      <3> QED BY <1>4, <1>9, <3>1, <3>2 DEF Undisturbed
    <2> QED BY <1>1, <1>a, <1>b, <2>2, <2>3 DEF Undisturbed
  <1> QED BY <1>10, <1>11, <1>12, <1>13, <1>14, <1>15, <1>16, <1>17, <1>18, <1>19

\* Every step of the queue keeps the invariant.
LEMMA QueueSteps ==
  ASSUME QueueConstants, QueueInv, [Queue!Next]_(Queue!vars)
  PROVE  QueueInv'
  <1>1. CASE UNCHANGED Queue!vars
    BY <1>1 DEF Queue!vars, QueueInv, QueueTypes, Linked, Awaited, Timed, Answered, OneRotation,
      Findable, Spaced, Prompt, Undisturbed
  <1>2. ASSUME NEW c \in Callers, Queue!Ask(c)
        PROVE  QueueInv'
    <2>1. PICK t \in Queue!Given : Queue!Join(c, t) \/ Queue!Reuse(c, t) \/ Queue!Start(c, t)
      BY <1>2 DEF Queue!Ask
    <2>2. t \in Tokens /\ t <= live
      BY GivenIsOld
    <2> QED BY <2>1, <2>2, JoinKeeps, ReuseKeeps, StartKeeps
  <1>3. ASSUME NEW e \in DOMAIN exchanges, Queue!Provider(e) \/ Queue!Settle(e)
        PROVE  QueueInv'
    <2>1. e \in 1..Len(exchanges)
      BY Counted DEF QueueInv
    <2> QED BY <1>3, <2>1, ProviderKeeps, SettleKeeps
  <1>4. CASE Queue!Tick BY <1>4, TickKeeps
  <1> QED BY <1>1, <1>2, <1>3, <1>4 DEF Queue!Next

\* The invariant says what the queue promises.
LEMMA QueuePromises ==
  ASSUME QueueConstants, QueueInv
  PROVE  Queue!TypeOK /\ Queue!QueueSafe
  <1> USE DEF QueueInv
  <1>1. DOMAIN exchanges = 1..Len(exchanges)
    BY Counted
  <1>2. Queue!TypeOK
    BY DEF Queue!TypeOK, Queue!Tokens, Tokens, Queue!Flying, QueueTypes, Linked, Awaited
  <1>3. Queue!ExchangesSpaced
    BY <1>1 DEF Queue!ExchangesSpaced, Spaced
  <1>4. Queue!Prompt => Prompt
    BY <1>1 DEF Queue!Prompt, Queue!Flying, Prompt
  <1>5. Queue!RejectedOnlyIfSpent
    BY <1>4 DEF Queue!RejectedOnlyIfSpent, Undisturbed
  <1> QED BY <1>2, <1>3, <1>5 DEF Queue!QueueSafe

(***************************************************************************)
(* For every number of callers, tokens and exchanges: no token is          *)
(* exchanged twice within MaxAge unless the exchange failed, and while     *)
(* exchanges are prompt a caller whose token is live is never told that it *)
(* was rejected (lib/refresh-queue.ts).                                    *)
(***************************************************************************)
THEOREM ExchangesStaySpaced ==
  ASSUME QueueConstants
  PROVE  Queue!Spec => [](Queue!TypeOK /\ Queue!QueueSafe)
  <1>1. Queue!Init => QueueInv
    BY QueueStarts
  <1>2. QueueInv /\ [Queue!Next]_(Queue!vars) => QueueInv'
    BY QueueSteps
  <1>3. QueueInv => Queue!TypeOK /\ Queue!QueueSafe
    BY QueuePromises
  <1> QED BY <1>1, <1>2, <1>3, PTL DEF Queue!Spec

-----------------------------------------------------------------------------
(***************************************************************************)
(* The account manager cache, without the two situations in which a        *)
(* retired manager may stay live: account tools that overlap, and a reload *)
(* that fails while the first load is in flight.                           *)
(***************************************************************************)
Cache == INSTANCE ManagerCache

CacheConstants ==
  /\ ToolsOverlap = FALSE /\ StartFails = FALSE
  /\ MaxWrites \in Nat \ {0} /\ MaxLoads \in Nat /\ MaxFailures \in Nat

-----------------------------------------------------------------------------
Manager == [seen : Nat, disposed : BOOLEAN]

Load ==
  [seen : Nat \ {0}, for : {"fetch", "tool", "retry", "watch", "done"}, incumbent : Nat]

Fetch(m, l) ==
  [phase : {"idle", "starting", "again", "serving"}, held : 0..m, on : 0..l]

Watch(l) == [observed : Nat, timer : BOOLEAN, attempt : Nat, load : 0..l]

Retry(m) == [left : 0..3, armed : BOOLEAN, incumbent : 0..m]

CacheTypes ==
  /\ file \in 1..MaxWrites /\ own \in 0..file /\ foreign \in 1..file
  /\ managers \in Seq(Manager) /\ cached \in 0..Len(managers)
  /\ loads \in Seq(Load) /\ shared \in 0..Len(loads) /\ tool \in 0..Len(loads)
  /\ fetches \in [Fetches -> Fetch(Len(managers), Len(loads))]
  /\ watch \in Watch(Len(loads))
  /\ retry \in Retry(Len(managers))
  /\ failures \in Nat

\* Nothing was read from a file that is still to be written.
Past ==
  /\ watch.observed <= file
  /\ \A m \in 1..Len(managers) : managers[m].seen <= file
  /\ \A l \in 1..Len(loads) : loads[l].seen <= file /\ loads[l].incumbent <= Len(managers)

\* Managers that have accounts.
Has(m) == m # 0 /\ managers[m].seen # 0

\* What may be installed, served from or kept in its place has accounts.
Filled ==
  /\ cached # 0 => Has(cached)
  /\ \A f \in Fetches : fetches[f].phase \in {"again", "serving"} => Has(fetches[f].held)
  /\ retry.incumbent # 0 => Has(retry.incumbent)
  /\ \A l \in 1..Len(loads) : loads[l].for \in {"tool", "retry"} => Has(loads[l].incumbent)

\* Only a request that waits is on a load.
OnLoads ==
  \A f \in Fetches : fetches[f].on # 0 => fetches[f].phase \in {"starting", "again"}

\* A tool's load replaces the manager that was cached when it began.
Tooled ==
  /\ own # foreign
  /\ tool # 0 =>
       loads[tool].for = "tool" /\ cached = loads[tool].incumbent /\ watch.load = 0

\* Cache!OrphansRetired.
Retired == \A m \in 1..Len(managers) : m # cached => managers[m].disposed = TRUE

\* The watcher is at rest after a change that another process made.
Rest ==
  /\ watch.observed = file /\ watch.timer = FALSE /\ watch.load = 0
  /\ watch.attempt <= 2 /\ foreign = file

\* At rest, what is cached and what may still be installed is of the last version.
Current ==
  Rest =>
    /\ cached # 0 => managers[cached].seen = file /\ managers[cached].disposed = FALSE
    /\ cached = 0 =>
         \A l \in 1..Len(loads) : loads[l].for \in {"fetch", "retry"} => loads[l].seen = file
    /\ tool # 0 => loads[tool].seen = file

CacheInv ==
  CacheTypes /\ Past /\ Filled /\ OnLoads /\ Tooled /\ Retired /\ Current

-----------------------------------------------------------------------------
\* The types of the parts of the state.
LEMMA CacheCounted ==
  ASSUME CacheTypes
  PROVE  /\ Len(managers) \in Nat /\ DOMAIN managers = 1..Len(managers)
         /\ \A m \in 1..Len(managers) :
              managers[m].seen \in Nat /\ managers[m].disposed \in BOOLEAN
         /\ Len(loads) \in Nat /\ DOMAIN loads = 1..Len(loads)
         /\ \A l \in 1..Len(loads) : loads[l].seen \in Nat \ {0} /\ loads[l].incumbent \in Nat
         /\ \A f \in Fetches :
              fetches[f].held \in 0..Len(managers) /\ fetches[f].on \in 0..Len(loads)
         /\ watch.observed \in Nat /\ watch.timer \in BOOLEAN /\ watch.attempt \in Nat
         /\ watch.load \in 0..Len(loads)
         /\ retry.left \in 0..3 /\ retry.armed \in BOOLEAN /\ retry.incumbent \in 0..Len(managers)
         /\ file \in Nat \ {0} /\ own \in Nat /\ foreign \in Nat
  <1>1. Len(managers) \in Nat /\ DOMAIN managers = 1..Len(managers)
    BY LenProperties DEF CacheTypes
  <1>2. Len(loads) \in Nat /\ DOMAIN loads = 1..Len(loads)
    BY LenProperties DEF CacheTypes
  <1>3. \A m \in 1..Len(managers) : managers[m] \in Manager
    BY ElementOfSeq DEF CacheTypes
  <1>4. \A l \in 1..Len(loads) : loads[l] \in Load
    BY ElementOfSeq DEF CacheTypes
  <1>5. \A m \in 1..Len(managers) :
          managers[m].seen \in Nat /\ managers[m].disposed \in BOOLEAN
    BY <1>3 DEF Manager
  <1>6. \A l \in 1..Len(loads) : loads[l].seen \in Nat \ {0} /\ loads[l].incumbent \in Nat
    BY <1>4 DEF Load
  <1>7. \A f \in Fetches :
          fetches[f].held \in 0..Len(managers) /\ fetches[f].on \in 0..Len(loads)
    BY DEF CacheTypes, Fetch
  <1>8. /\ watch.observed \in Nat /\ watch.timer \in BOOLEAN /\ watch.attempt \in Nat
        /\ watch.load \in 0..Len(loads)
    BY DEF CacheTypes, Watch
  <1>9. retry.left \in 0..3 /\ retry.armed \in BOOLEAN /\ retry.incumbent \in 0..Len(managers)
    BY DEF CacheTypes, Retry
  <1>10. file \in Nat \ {0} /\ own \in Nat /\ foreign \in Nat
    BY DEF CacheTypes
  <1> QED BY <1>1, <1>2, <1>5, <1>6, <1>7, <1>8, <1>9, <1>10

\* Retiring managers changes what they were loaded from in none.
LEMMA DisposedSeq ==
  ASSUME NEW ms \in Seq(Manager), NEW gone
  PROVE  /\ Cache!Disposed(ms, gone) \in Seq(Manager)
         /\ Len(Cache!Disposed(ms, gone)) = Len(ms)
         /\ \A m \in 1..Len(ms) :
              /\ Cache!Disposed(ms, gone)[m].seen = ms[m].seen
              /\ m \in gone \/ ms[m].disposed = TRUE => Cache!Disposed(ms, gone)[m].disposed = TRUE
              /\ m \notin gone => Cache!Disposed(ms, gone)[m] = ms[m]
  <1> DEFINE ds == Cache!Disposed(ms, gone)
  <1>1. Len(ms) \in Nat /\ DOMAIN ms = 1..Len(ms) /\ \A m \in 1..Len(ms) : ms[m] \in Manager
    BY LenProperties, ElementOfSeq
  <1>2. ds = [m \in 1..Len(ms) |->
                IF m \in gone THEN [ms[m] EXCEPT !.disposed = TRUE] ELSE ms[m]]
    BY <1>1 DEF Cache!Disposed
  <1> HIDE DEF ds
  <1>3. ds \in [1..Len(ms) -> Manager]
    BY <1>1, <1>2 DEF Manager
  <1>4. ds \in Seq(Manager) /\ Len(ds) = Len(ms)
    BY <1>1, <1>3, SeqDef
  <1>5. ASSUME NEW m \in 1..Len(ms), m \in gone
        PROVE  ds[m].seen = ms[m].seen /\ ds[m].disposed = TRUE
    BY <1>1, <1>2, <1>5 DEF Manager
  <1>6. ASSUME NEW m \in 1..Len(ms), m \notin gone
        PROVE  ds[m] = ms[m]
    BY <1>1, <1>2, <1>6
  <1>7. /\ ds \in Seq(Manager)
        /\ Len(ds) = Len(ms)
        /\ \A m \in 1..Len(ms) :
             /\ ds[m].seen = ms[m].seen
             /\ m \in gone \/ ms[m].disposed = TRUE => ds[m].disposed = TRUE
             /\ m \notin gone => ds[m] = ms[m]
    BY <1>4, <1>5, <1>6
  <1> QED BY <1>7 DEF ds

\* A manager is added.
LEMMA LoadedSeq ==
  ASSUME CacheTypes, NEW seen \in Nat, NEW gone \in BOOLEAN
  PROVE  /\ Cache!Loaded(seen, gone) \in Seq(Manager)
         /\ Len(Cache!Loaded(seen, gone)) = Len(managers) + 1
         /\ Cache!Loaded(seen, gone)[Len(managers) + 1].seen = seen
         /\ Cache!Loaded(seen, gone)[Len(managers) + 1].disposed = gone
         /\ \A m \in 1..Len(managers) : Cache!Loaded(seen, gone)[m] = managers[m]
  <1> DEFINE new == [seen |-> seen, disposed |-> gone]
  <1>1. new \in Manager /\ new.seen = seen /\ new.disposed = gone
    BY DEF Manager
  <1>2. Cache!Loaded(seen, gone) = Append(managers, new)
    BY DEF Cache!Loaded
  <1> HIDE DEF new
  <1> QED BY <1>1, <1>2, AppendProperties DEF CacheTypes

\* A load begins.
LEMMA BeginSeq ==
  ASSUME CacheTypes, NEW who \in {"fetch", "tool", "retry", "watch"}, NEW incumbent \in Nat,
         NEW version \in Nat \ {0}, Cache!Begin(who, incumbent, version)
  PROVE  /\ loads' \in Seq(Load)
         /\ Len(loads') = Len(loads) + 1
         /\ loads'[Len(loads) + 1].seen = version
         /\ loads'[Len(loads) + 1].for = who
         /\ loads'[Len(loads) + 1].incumbent = incumbent
         /\ \A l \in 1..Len(loads) : loads'[l] = loads[l]
  <1> DEFINE new == [seen |-> version, for |-> who, incumbent |-> incumbent]
  <1>1. new \in Load /\ new.seen = version /\ new.for = who /\ new.incumbent = incumbent
    BY DEF Load
  <1>2. loads' = Append(loads, new)
    BY DEF Cache!Begin
  <1> HIDE DEF new
  <1> QED BY <1>1, <1>2, AppendProperties DEF CacheTypes

\* A load settles.
LEMMA SettledSeq ==
  ASSUME CacheTypes, NEW l \in 1..Len(loads), Cache!Settled(l)
  PROVE  /\ loads' \in Seq(Load)
         /\ Len(loads') = Len(loads)
         /\ loads'[l].for = "done"
         /\ \A k \in 1..Len(loads) :
              /\ loads'[k].seen = loads[k].seen /\ loads'[k].incumbent = loads[k].incumbent
              /\ k # l => loads'[k] = loads[k]
  <1> DEFINE new == [loads[l] EXCEPT !.for = "done"]
  <1>1. loads[l] \in Load
    BY ElementOfSeq DEF CacheTypes
  <1>2. /\ new \in Load /\ new.for = "done" /\ new.seen = loads[l].seen
        /\ new.incumbent = loads[l].incumbent
    BY <1>1 DEF Load
  <1>3. loads' = [loads EXCEPT ![l] = new]
    BY DEF Cache!Settled
  <1> HIDE DEF new
  <1> QED BY <1>2, <1>3, ExceptSeq DEF CacheTypes

\* What a load that begins leaves of the invariant.
LEMMA LoadBegun ==
  ASSUME CacheTypes, Past, Filled, NEW who \in {"fetch", "tool", "retry", "watch"},
         NEW incumbent \in 0..Len(managers), NEW version \in Nat \ {0},
         who \in {"tool", "retry"} => Has(incumbent),
         file <= version, Cache!Begin(who, incumbent, version)
  PROVE  /\ loads' \in Seq(Load)
         /\ Len(loads') = Len(loads) + 1
         /\ loads'[Len(loads) + 1].seen = version
         /\ loads'[Len(loads) + 1].for = who
         /\ loads'[Len(loads) + 1].incumbent = incumbent
         /\ \A l \in 1..Len(loads) : loads'[l] = loads[l]
         /\ \A l \in 1..Len(loads') :
              /\ loads'[l].seen <= version /\ loads'[l].incumbent <= Len(managers)
              /\ loads'[l].for \in {"tool", "retry"} => Has(loads'[l].incumbent)
         /\ watch \in Watch(Len(loads'))
         /\ fetches \in [Fetches -> Fetch(Len(managers), Len(loads'))]
         /\ {shared, tool, Len(loads) + 1} \subseteq 0..Len(loads')
  <1>1. /\ loads' \in Seq(Load) /\ Len(loads') = Len(loads) + 1
        /\ loads'[Len(loads) + 1].seen = version
        /\ loads'[Len(loads) + 1].for = who
        /\ loads'[Len(loads) + 1].incumbent = incumbent
        /\ \A l \in 1..Len(loads) : loads'[l] = loads[l]
    BY BeginSeq, CacheCounted
  <1>2. Len(managers) \in Nat /\ Len(loads) \in Nat /\ file \in Nat
    BY CacheCounted
  <1>3. \A l \in 1..Len(loads) :
          /\ loads[l].seen \in Nat /\ loads[l].incumbent \in Nat
          /\ loads[l].seen <= version /\ loads[l].incumbent <= Len(managers)
    BY <1>2, CacheCounted DEF Past
  <1>4. \A l \in 1..Len(loads') :
          loads'[l].seen <= version /\ loads'[l].incumbent <= Len(managers)
    BY <1>1, <1>2, <1>3
  <1>5. \A l \in 1..Len(loads') : loads'[l].for \in {"tool", "retry"} => Has(loads'[l].incumbent)
    <2> SUFFICES ASSUME NEW l \in 1..Len(loads'), loads'[l].for \in {"tool", "retry"}
                 PROVE  Has(loads'[l].incumbent)
      OBVIOUS
    <2>1. l \in 1..Len(loads) \/ l = Len(loads) + 1
      BY <1>1, <1>2
    <2> QED BY <1>1, <2>1 DEF Filled
  <1>6. watch \in Watch(Len(loads'))
    BY <1>1, <1>2 DEF CacheTypes, Watch
  <1>7. fetches \in [Fetches -> Fetch(Len(managers), Len(loads'))]
    BY <1>1, <1>2 DEF CacheTypes, Fetch
  <1>8. {shared, tool, Len(loads) + 1} \subseteq 0..Len(loads')
    BY <1>1, <1>2 DEF CacheTypes
  <1> QED BY <1>1, <1>4, <1>5, <1>6, <1>7, <1>8

\* What a load that settles leaves of the invariant.
LEMMA LoadSettled ==
  ASSUME CacheTypes, Past, Filled, NEW l \in 1..Len(loads), Cache!Settled(l)
  PROVE  /\ loads' \in Seq(Load)
         /\ Len(loads') = Len(loads)
         /\ \A k \in 1..Len(loads) :
              /\ loads'[k].seen = loads[k].seen /\ loads'[k].incumbent = loads[k].incumbent
              /\ k # l => loads'[k] = loads[k]
              /\ loads'[k].for \in {"tool", "retry", "fetch"} => k # l /\ loads[k].for = loads'[k].for
              /\ loads'[k].for \in {"tool", "retry"} => Has(loads'[k].incumbent)
  <1>1. /\ loads' \in Seq(Load) /\ Len(loads') = Len(loads) /\ loads'[l].for = "done"
        /\ \A k \in 1..Len(loads) :
             /\ loads'[k].seen = loads[k].seen /\ loads'[k].incumbent = loads[k].incumbent
             /\ k # l => loads'[k] = loads[k]
    BY SettledSeq
  <1> QED BY <1>1 DEF Filled

\* What an added manager leaves of the invariant, those of gone being retired with it.
LEMMA ManagerAdded ==
  ASSUME CacheTypes, Past, Filled, NEW seen \in 0..file, NEW new \in BOOLEAN, NEW gone,
         Len(managers) + 1 \notin gone,
         \/ managers' = Cache!Loaded(seen, new) /\ gone = {}
         \/ managers' = Cache!Disposed(Cache!Loaded(seen, new), gone)
  PROVE  /\ managers' \in Seq(Manager)
         /\ Len(managers') = Len(managers) + 1
         /\ managers'[Len(managers) + 1].seen = seen
         /\ managers'[Len(managers) + 1].disposed = new
         /\ \A m \in 1..Len(managers) :
              /\ m \in gone \/ managers[m].disposed = TRUE => managers'[m].disposed = TRUE
              /\ m \notin gone => managers'[m] = managers[m]
         /\ \A m \in 1..Len(managers') : managers'[m].seen <= file
         /\ \A m \in 0..Len(managers) : Has(m) => Has(m)'
         /\ fetches \in [Fetches -> Fetch(Len(managers'), Len(loads))]
         /\ retry \in Retry(Len(managers'))
         /\ {cached, Len(managers) + 1} \subseteq 0..Len(managers')
  <1>0. Len(managers) \in Nat /\ file \in Nat /\ seen \in Nat /\ seen <= file
    BY CacheCounted
  <1> DEFINE ms == Cache!Loaded(seen, new)
  <1>1. /\ ms \in Seq(Manager) /\ Len(ms) = Len(managers) + 1
        /\ ms[Len(managers) + 1].seen = seen /\ ms[Len(managers) + 1].disposed = new
        /\ \A m \in 1..Len(managers) : ms[m] = managers[m]
    BY <1>0, LoadedSeq
  <1>2. (managers' = ms /\ gone = {}) \/ managers' = Cache!Disposed(ms, gone)
    OBVIOUS
  <1> HIDE DEF ms
  <1>3. /\ managers' \in Seq(Manager) /\ Len(managers') = Len(ms)
        /\ \A m \in 1..Len(ms) :
              /\ managers'[m].seen = ms[m].seen
              /\ m \in gone \/ ms[m].disposed = TRUE => managers'[m].disposed = TRUE
              /\ m \notin gone => managers'[m] = ms[m]
    <2>1. ms \in Seq(Manager)
      BY <1>1
    <2> DEFINE ds == Cache!Disposed(ms, gone)
    <2>2. /\ ds \in Seq(Manager) /\ Len(ds) = Len(ms)
          /\ \A m \in 1..Len(ms) :
                /\ ds[m].seen = ms[m].seen
                /\ m \in gone \/ ms[m].disposed = TRUE => ds[m].disposed = TRUE
                /\ m \notin gone => ds[m] = ms[m]
      BY <2>1, DisposedSeq
    <2> HIDE DEF ds
    <2>3. CASE managers' = ds BY <2>2, <2>3
    <2>4. CASE managers' = ms /\ gone = {} BY <1>1, <2>4
    <2> QED BY <1>2, <2>3, <2>4 DEF ds
  <1>4. 1..Len(managers) \subseteq 1..Len(ms) /\ Len(managers) + 1 \in 1..Len(ms)
    BY <1>0, <1>1
  <1>5. /\ managers'[Len(managers) + 1].seen = seen
        /\ managers'[Len(managers) + 1].disposed = new
    BY <1>1, <1>3, <1>4
  <1>6. \A m \in 1..Len(managers) :
          /\ managers'[m].seen = managers[m].seen
          /\ m \in gone \/ managers[m].disposed = TRUE => managers'[m].disposed = TRUE
          /\ m \notin gone => managers'[m] = managers[m]
    BY <1>1, <1>3, <1>4
  <1>7. \A m \in 1..Len(managers') : managers'[m].seen <= file
    <2> SUFFICES ASSUME NEW m \in 1..Len(managers')
                 PROVE  managers'[m].seen <= file
      OBVIOUS
    <2>1. m \in 1..Len(managers) \/ m = Len(managers) + 1
      BY <1>0, <1>1, <1>3
    <2>2. m \in 1..Len(managers) => managers[m].seen \in Nat /\ managers[m].seen <= file
      BY CacheCounted DEF Past
    <2> QED BY <1>0, <1>5, <1>6, <2>1, <2>2
  <1>8. \A m \in 0..Len(managers) : Has(m) => Has(m)'
    BY <1>0, <1>6 DEF Has
  <1>9. Len(managers') = Len(managers) + 1
    BY <1>1, <1>3
  <1>10. fetches \in [Fetches -> Fetch(Len(managers'), Len(loads))]
    BY <1>0, <1>9 DEF CacheTypes, Fetch
  <1>11. retry \in Retry(Len(managers'))
    BY <1>0, <1>9 DEF CacheTypes, Retry
  <1>12. {cached, Len(managers) + 1} \subseteq 0..Len(managers')
    BY <1>0, <1>9 DEF CacheTypes
  <1> QED BY <1>3, <1>5, <1>6, <1>7, <1>8, <1>9, <1>10, <1>11, <1>12

\* The initial state satisfies the invariant.
LEMMA CacheStarts ==
  ASSUME CacheConstants, Cache!Init
  PROVE  CacheInv
  <1>1. /\ managers \in Seq(Manager) /\ Len(managers) = 0
        /\ loads \in Seq(Load) /\ Len(loads) = 0
    BY EmptySeq DEF Cache!Init
  <1>2. CacheTypes
    BY <1>1 DEF CacheTypes, Cache!Init, CacheConstants, Fetch, Watch, Retry, Cache!Idle,
      Cache!NoRetry, Cache!MaxRetries
  <1>3. Past /\ Retired /\ OnLoads
    BY <1>1 DEF Past, Retired, OnLoads, Cache!Init, Cache!Idle
  <1>4. Filled /\ Tooled /\ Current
    BY <1>1 DEF Filled, Tooled, Current, Rest, Cache!Init, Cache!Idle, Cache!NoRetry
  <1> QED BY <1>2, <1>3, <1>4 DEF CacheInv

\* A change by another process is not observed yet.
LEMMA ExternalWriteKeeps ==
  ASSUME CacheConstants, CacheInv, Cache!ExternalWrite
  PROVE  CacheInv'
  <1> USE DEF CacheInv
  <1>1. /\ file' = file + 1 /\ foreign' = file + 1 /\ file < MaxWrites /\ MaxWrites \in Nat
        /\ UNCHANGED <<own, managers, cached, shared, loads, fetches, watch, retry, tool, failures>>
    BY DEF Cache!ExternalWrite, CacheConstants
  <1>2. CacheTypes'
    BY <1>1 DEF CacheTypes
  <1>3. Past'
    BY <1>1, CacheCounted DEF Past
  <1>4. Filled' /\ OnLoads' /\ Retired'
    BY <1>1 DEF Filled, Has, OnLoads, Retired
  <1>5. Tooled'
    BY <1>1 DEF Tooled, CacheTypes
  <1>6. Current'
    BY <1>1, CacheCounted DEF Current, Rest, Past
  <1> QED BY <1>2, <1>3, <1>4, <1>5, <1>6

\* A save of this process is the last change that it made.
LEMMA SaveKeeps ==
  ASSUME CacheConstants, CacheInv, Cache!Save
  PROVE  CacheInv'
  <1> USE DEF CacheInv
  <1>1. /\ file' = file + 1 /\ own' = file + 1 /\ file < MaxWrites /\ MaxWrites \in Nat
        /\ UNCHANGED <<foreign, managers, cached, shared, loads, fetches, watch, retry, tool, failures>>
    BY DEF Cache!Save, Cache!OwnWrite, CacheConstants
  <1>2. CacheTypes'
    BY <1>1 DEF CacheTypes
  <1>3. Past'
    BY <1>1, CacheCounted DEF Past
  <1>4. Filled' /\ OnLoads' /\ Retired'
    BY <1>1 DEF Filled, Has, OnLoads, Retired
  <1>5. Tooled'
    BY <1>1 DEF Tooled, CacheTypes
  <1>6. Current'
    BY <1>1, CacheCounted DEF Current, Rest, Past
  <1> QED BY <1>2, <1>3, <1>4, <1>5, <1>6

\* An invalidation retires the cached manager.
LEMMA InvalidateKeeps ==
  ASSUME CacheConstants, CacheInv, Cache!Invalidate
  PROVE  CacheInv'
  <1> USE DEF CacheInv
  <1>1. /\ file' = file + 1 /\ own' = file + 1 /\ file < MaxWrites /\ MaxWrites \in Nat
        /\ cached' = 0 /\ shared' = 0 /\ tool = 0
        /\ managers' = Cache!Disposed(managers, {cached})
        /\ UNCHANGED <<foreign, loads, fetches, watch, retry, tool, failures>>
    BY DEF Cache!Invalidate, Cache!OwnWrite, Cache!NoToolReload, CacheConstants
  <1>2. /\ managers' \in Seq(Manager) /\ Len(managers') = Len(managers)
        /\ \A m \in 1..Len(managers) :
             /\ managers'[m].seen = managers[m].seen
             /\ m = cached \/ managers[m].disposed = TRUE => managers'[m].disposed = TRUE
    BY <1>1, DisposedSeq DEF CacheTypes
  <1>n. Len(managers) \in Nat /\ file \in Nat
    BY CacheCounted
  <1>m. /\ file' = file + 1 /\ own' = file + 1 /\ file < MaxWrites /\ MaxWrites \in Nat
        /\ cached' = 0 /\ shared' = 0 /\ tool = 0
        /\ foreign' = foreign /\ loads' = loads /\ fetches' = fetches /\ watch' = watch
        /\ retry' = retry /\ tool' = tool /\ failures' = failures
    BY <1>1
  <1>3. CacheTypes'
    <2>1. watch' \in Watch(Len(loads'))
      BY <1>m DEF CacheTypes
    <2>2. retry' \in Retry(Len(managers'))
      BY <1>m, <1>2 DEF CacheTypes
    <2>3. fetches' \in [Fetches -> Fetch(Len(managers'), Len(loads'))]
      BY <1>m, <1>2 DEF CacheTypes
    <2>4. managers' \in Seq(Manager)
      BY <1>2
    <2>5. own' \in 0..file' /\ foreign' \in 1..file' /\ file' \in 1..MaxWrites
      BY <1>m DEF CacheTypes
    <2>6. cached' \in 0..Len(managers')
      BY <1>m, <1>2, <1>n
    <2>7. loads' \in Seq(Load) /\ shared' \in 0..Len(loads') /\ tool' \in 0..Len(loads')
      BY <1>m, CacheCounted DEF CacheTypes
    <2>8. failures' \in Nat
      BY <1>m DEF CacheTypes
    <2> QED BY <2>1, <2>2, <2>3, <2>4, <2>5, <2>6, <2>7, <2>8 DEF CacheTypes
  <1>4. Past'
    <2>1. file' = file + 1 /\ file \in Nat /\ watch.observed \in Nat
          /\ \A m \in 1..Len(managers) : managers[m].seen \in Nat
      BY <1>1, CacheCounted
    <2>2. \A l \in 1..Len(loads) : loads[l].seen \in Nat /\ loads[l].incumbent \in Nat
      BY CacheCounted
    <2>3. \A m \in 1..Len(managers) : managers'[m].seen <= file + 1
      BY <1>2, <2>1 DEF Past
    <2>4. \A l \in 1..Len(loads) : loads[l].seen <= file + 1 /\ loads[l].incumbent <= Len(managers)
      BY <2>1, <2>2 DEF Past
    <2> QED BY <1>m, <1>2, <1>n, <2>1, <2>3, <2>4 DEF Past
  <1>5. Filled'
    <2>1. \A m \in 0..Len(managers) : Has(m) => Has(m)'
      BY <1>2, <1>n DEF Has
    <2>2. \A f \in Fetches : fetches[f].held \in 0..Len(managers)
      BY CacheCounted
    <2>3. \A l \in 1..Len(loads) : loads[l].incumbent \in 0..Len(managers)
      BY CacheCounted DEF Past
    <2>4. retry.incumbent \in 0..Len(managers)
      BY CacheCounted
    <2> HIDE DEF Has
    <2> QED BY <1>1, <2>1, <2>2, <2>3, <2>4 DEF Filled
  <1>6. OnLoads' /\ Retired'
    BY <1>1, <1>2 DEF OnLoads, Retired
  <1>7. Tooled'
    BY <1>1 DEF Tooled, CacheTypes
  <1>8. Current'
    BY <1>1, CacheCounted DEF Current, Rest, Past
  <1> QED BY <1>3, <1>4, <1>5, <1>6, <1>7, <1>8

\* A tool's reload captures the manager that it will replace.
LEMMA ToolReloadKeeps ==
  ASSUME CacheConstants, CacheInv, Cache!ToolReload
  PROVE  CacheInv'
  <1> USE DEF CacheInv
  <1>1. /\ file' = file + 1 /\ own' = file + 1 /\ file < MaxWrites /\ MaxWrites \in Nat
        /\ cached # 0 /\ watch.load = 0 /\ tool' = Len(loads) + 1
        /\ Cache!Begin("tool", cached, file + 1)
        /\ UNCHANGED <<foreign, managers, cached, shared, fetches, watch, retry, failures>>
    BY DEF Cache!ToolReload, Cache!OwnWrite, Cache!NewLoad, CacheConstants
  <1>2. /\ file' = file + 1 /\ own' = file + 1 /\ file < MaxWrites /\ MaxWrites \in Nat
        /\ tool' = Len(loads) + 1 /\ cached # 0 /\ watch.load = 0
        /\ foreign' = foreign /\ managers' = managers /\ cached' = cached /\ shared' = shared
        /\ fetches' = fetches /\ watch' = watch /\ retry' = retry /\ failures' = failures
    BY <1>1
  <1>n. Len(managers) \in Nat /\ Len(loads) \in Nat /\ file \in Nat
    BY CacheCounted
  <1>l. /\ loads' \in Seq(Load) /\ Len(loads') = Len(loads) + 1
        /\ loads'[Len(loads) + 1].seen = file + 1
        /\ loads'[Len(loads) + 1].for = "tool"
        /\ loads'[Len(loads) + 1].incumbent = cached
        /\ \A l \in 1..Len(loads') :
             /\ loads'[l].seen <= file + 1 /\ loads'[l].incumbent <= Len(managers)
             /\ loads'[l].for \in {"tool", "retry"} => Has(loads'[l].incumbent)
        /\ watch \in Watch(Len(loads'))
        /\ fetches \in [Fetches -> Fetch(Len(managers), Len(loads'))]
        /\ {shared, tool, Len(loads) + 1} \subseteq 0..Len(loads')
    <2>1. cached \in 0..Len(managers) /\ file + 1 \in Nat \ {0} /\ file <= file + 1 /\ Has(cached)
      BY <1>2, <1>n DEF CacheTypes, Filled
    <2> QED BY <1>1, <2>1, LoadBegun
  <1>3. CacheTypes'
    <2>1. own' \in 0..file' /\ foreign' \in 1..file' /\ file' \in 1..MaxWrites
      BY <1>2 DEF CacheTypes
    <2> QED BY <1>2, <1>l, <2>1 DEF CacheTypes
  <1>4. Past'
    <2>1. \A m \in 1..Len(managers) : managers[m].seen \in Nat /\ managers[m].seen <= file
      BY CacheCounted DEF Past
    <2>2. watch.observed \in Nat /\ watch.observed <= file
      BY CacheCounted DEF Past
    <2>3. \A m \in 1..Len(managers) : managers[m].seen <= file + 1
      BY <1>n, <2>1
    <2>4. watch.observed <= file + 1
      BY <1>n, <2>2
    <2> QED BY <1>2, <1>l, <2>3, <2>4 DEF Past
  <1>5. Filled'
    BY <1>2, <1>l DEF Filled, Has
  <1>6. OnLoads' /\ Retired'
    BY <1>1 DEF OnLoads, Retired
  <1>7. Tooled'
    BY <1>2, <1>l DEF Tooled, CacheTypes
  <1>8. Current'
    BY <1>1, CacheCounted DEF Current, Rest, Past
  <1> QED BY <1>3, <1>4, <1>5, <1>6, <1>7, <1>8

\* The state of the retry after an empty reload.
LEMMA ScheduledRetry ==
  ASSUME CacheTypes, NEW incumbent \in 0..Len(managers)
  PROVE  /\ Cache!Scheduled(incumbent) \in Retry(Len(managers))
         /\ Cache!Scheduled(incumbent).incumbent \in {retry.incumbent, incumbent}
  <1>1. CASE retry.left = 0
    <2> DEFINE next == [retry EXCEPT !.left = 3]
    <2>1. next \in Retry(Len(managers)) /\ next.incumbent = retry.incumbent
      BY DEF CacheTypes, Retry
    <2>2. Cache!Scheduled(incumbent) = next
      BY <1>1 DEF Cache!Scheduled, Cache!MaxRetries
    <2> HIDE DEF next
    <2> QED BY <2>1, <2>2
  <1>2. CASE retry.left # 0
    <2> DEFINE next == [left |-> retry.left - 1, armed |-> TRUE, incumbent |-> incumbent]
    <2>1. retry.left - 1 \in 0..3
      BY <1>2, CacheCounted
    <2>2. next \in Retry(Len(managers)) /\ next.incumbent = incumbent
      BY <2>1 DEF Retry
    <2>3. Cache!Scheduled(incumbent) = next
      BY <1>2 DEF Cache!Scheduled
    <2> QED BY <2>2, <2>3
  <1> QED BY <1>1, <1>2

\* A load that comes back: its manager is retired at once, or takes the place of the cached one.
LEMMA LoadLands ==
  ASSUME CacheInv, NEW l \in 1..Len(loads), Cache!Settled(l), NEW seen \in 0..file,
         NEW new \in BOOLEAN,
         file' = file, own' = own, foreign' = foreign, Cache!Counted(seen),
         watch' \in Watch(Len(loads)), watch'.observed <= file,
         fetches' \in [Fetches -> Fetch(Len(managers) + 1, Len(loads))], OnLoads',
         \A f \in Fetches : fetches'[f].phase \in {"again", "serving"} =>
           \/ fetches'[f].held \in 0..Len(managers) /\ Has(fetches'[f].held)
           \/ fetches'[f].held = Len(managers) + 1 /\ seen # 0,
         retry' \in Retry(Len(managers) + 1),
         retry'.incumbent # 0 => retry'.incumbent \in 0..Len(managers) /\ Has(retry'.incumbent),
         shared' \in 0..Len(loads),
         tool' # 0 => tool' = tool /\ tool # l /\ watch'.load = 0,
         cached' = cached /\ Rest' => Rest,
         cached' # cached /\ Rest' => seen = file,
         \/ cached' = cached /\ new = TRUE /\ managers' = Cache!Loaded(seen, new)
         \/ /\ cached' = Len(managers) + 1 /\ seen # 0 /\ tool' = 0 /\ new = FALSE
            /\ \/ managers' = Cache!Loaded(seen, new) /\ cached = 0
               \/ managers' = Cache!Disposed(Cache!Loaded(seen, new), {cached})
  PROVE  CacheInv'
  <1> USE DEF CacheInv
  <1>0. PICK n : n = Len(managers) + 1
    OBVIOUS
  <1>1. /\ n = Len(managers) + 1 /\ Len(managers) \in Nat /\ Len(loads) \in Nat /\ file \in Nat /\ seen \in Nat
        /\ seen <= file /\ cached \in 0..Len(managers)
    BY <1>0, CacheCounted DEF CacheTypes
  <1>2. /\ loads' \in Seq(Load) /\ Len(loads') = Len(loads)
        /\ \A k \in 1..Len(loads) :
             /\ loads'[k].seen = loads[k].seen /\ loads'[k].incumbent = loads[k].incumbent
             /\ k # l => loads'[k] = loads[k]
             /\ loads'[k].for \in {"tool", "retry", "fetch"} => loads[k].for = loads'[k].for
             /\ loads'[k].for \in {"tool", "retry"} => Has(loads'[k].incumbent)
    BY LoadSettled
  <1> DEFINE kept == cached' = cached
             reset == cached' = n /\ seen # 0 /\ tool' = 0 /\ (Rest' => seen = file)
  <1>3. /\ managers' \in Seq(Manager) /\ Len(managers') = n
        /\ managers'[n].seen = seen
        /\ \A m \in 1..Len(managers') : managers'[m].seen <= file
        /\ \A m \in 0..Len(managers) : Has(m) => Has(m)'
        /\ {cached, n} \subseteq 0..Len(managers')
        /\ kept => /\ managers'[n].disposed = TRUE
                   /\ \A m \in 1..Len(managers) : managers'[m] = managers[m]
        /\ reset => /\ managers'[n].disposed = FALSE
                    /\ \A m \in 1..Len(managers) :
                         m = cached \/ managers[m].disposed = TRUE => managers'[m].disposed = TRUE
    <2>1. n \notin {cached} /\ n \notin {}
      BY <1>1
    <2>2. CASE cached' = cached /\ new = TRUE /\ managers' = Cache!Loaded(seen, new)
      <3>1. ~reset
        BY <1>1, <2>2
      <3> HIDE DEF kept, reset
      <3>2. /\ managers' \in Seq(Manager) /\ Len(managers') = n
            /\ managers'[n].seen = seen /\ managers'[n].disposed = new
            /\ \A m \in 1..Len(managers) : managers'[m] = managers[m]
            /\ \A m \in 1..Len(managers') : managers'[m].seen <= file
            /\ \A m \in 0..Len(managers) : Has(m) => Has(m)'
            /\ {cached, n} \subseteq 0..Len(managers')
        <4>0. PICK none : none = {}
          OBVIOUS
        <4>1. managers' = Cache!Loaded(seen, new) /\ Len(managers) + 1 \notin none
          BY <2>2, <4>0
        <4>2. /\ managers' \in Seq(Manager) /\ Len(managers') = Len(managers) + 1
              /\ managers'[Len(managers) + 1].seen = seen
              /\ managers'[Len(managers) + 1].disposed = new
              /\ \A m \in 1..Len(managers) : m \notin none => managers'[m] = managers[m]
              /\ \A m \in 1..Len(managers') : managers'[m].seen <= file
              /\ \A m \in 0..Len(managers) : Has(m) => Has(m)'
              /\ {cached, Len(managers) + 1} \subseteq 0..Len(managers')
          BY <4>0, <4>1, ManagerAdded
        <4> QED BY <1>0, <4>0, <4>2
      <3> QED BY <2>2, <3>1, <3>2
    <2>3. CASE /\ cached' = n /\ new = FALSE /\ managers' = Cache!Loaded(seen, new)
               /\ cached = 0
      <3>1. ~kept /\ \A m \in 1..Len(managers) : m # cached
        BY <1>1, <2>3
      <3> HIDE DEF kept, reset
      <3> QED BY <1>0, <2>1, <2>3, <3>1, ManagerAdded
    <2>4. CASE /\ cached' = n /\ new = FALSE
               /\ managers' = Cache!Disposed(Cache!Loaded(seen, new), {cached})
      <3>1. ~kept
        BY <1>1, <2>4
      <3> HIDE DEF kept, reset
      <3> QED BY <1>0, <2>1, <2>4, <3>1, ManagerAdded
    <2> QED BY <1>0, <2>2, <2>3, <2>4
  <1>4. kept \/ reset
    BY <1>1
  <1>5. kept => cached' = cached /\ (Rest' => Rest)
    OBVIOUS
  <1>6. reset => cached' = n /\ seen # 0 /\ tool' = 0 /\ (Rest' => seen = file)
    BY <1>1
  <1>7. seen # 0 => Has(n)'
    BY <1>1, <1>3 DEF Has
  <1> HIDE DEF kept, reset
  <1>8. CacheTypes'
    <2>1. failures' \in Nat
      BY DEF Cache!Counted, CacheTypes
    <2>2. watch' \in Watch(Len(loads')) /\ shared' \in 0..Len(loads') /\ tool' \in 0..Len(loads')
      BY <1>1, <1>2 DEF CacheTypes
    <2>3. /\ fetches' \in [Fetches -> Fetch(Len(managers'), Len(loads'))]
          /\ retry' \in Retry(Len(managers')) /\ cached' \in 0..Len(managers')
      <3>1. cached' \in {cached, n}
        BY <1>4, <1>5, <1>6
      <3> QED BY <1>0, <1>2, <1>3, <3>1
    <2>4. file' \in 1..MaxWrites /\ own' \in 0..file' /\ foreign' \in 1..file'
      BY DEF CacheTypes
    <2> QED BY <1>2, <1>3, <2>1, <2>2, <2>3, <2>4 DEF CacheTypes
  <1>9. Past'
    <2>1. \A k \in 1..Len(loads) :
            /\ loads[k].seen \in Nat /\ loads[k].incumbent \in Nat
            /\ loads[k].seen <= file /\ loads[k].incumbent <= Len(managers)
      BY CacheCounted DEF Past
    <2>2. \A k \in 1..Len(loads') : loads'[k].seen <= file /\ loads'[k].incumbent <= Len(managers')
      BY <1>1, <1>2, <1>3, <2>1
    <2> QED BY <1>3, <2>2 DEF Past
  <1>10. Filled'
    <2>1. cached' # 0 => Has(cached)'
      BY <1>1, <1>3, <1>4, <1>5, <1>6, <1>7 DEF Filled
    <2>2. \A f \in Fetches : fetches'[f].phase \in {"again", "serving"} => Has(fetches[f].held)'
      <3> SUFFICES ASSUME NEW f \in Fetches, fetches'[f].phase \in {"again", "serving"}
                   PROVE  Has(fetches[f].held)'
        OBVIOUS
      <3>1. CASE fetches'[f].held \in 0..Len(managers) /\ Has(fetches'[f].held)
        BY <1>3, <3>1 DEF Has
      <3>2. CASE fetches'[f].held = n /\ seen # 0 BY <1>7, <3>2 DEF Has
      <3> QED BY <1>0, <3>1, <3>2
    <2>3. retry'.incumbent # 0 => Has(retry.incumbent)'
      BY <1>3
    <2>4. \A k \in 1..Len(loads) : loads[k].incumbent \in 0..Len(managers)
      BY <1>1, CacheCounted DEF Past
    <2>5. \A k \in 1..Len(loads') : loads'[k].for \in {"tool", "retry"} => Has(loads[k].incumbent)'
      BY <1>2, <1>3, <2>4
    <2> QED BY <2>1, <2>2, <2>3, <2>5 DEF Filled
  <1>11. Tooled'
    <2>1. tool' # 0 => tool' = tool /\ tool # l /\ watch'.load = 0 /\ cached' = cached /\ tool \in 1..Len(loads)
      BY <1>1, <1>4, <1>5, <1>6 DEF CacheTypes
    <2> QED BY <1>2, <2>1 DEF Tooled
  <1>12. Retired'
    <2> SUFFICES ASSUME NEW m \in 1..Len(managers'), m # cached'
                 PROVE  managers'[m].disposed = TRUE
      BY DEF Retired
    <2>1. m \in 1..Len(managers) \/ m = n
      BY <1>1, <1>3
    <2> QED BY <1>3, <1>4, <1>5, <1>6, <2>1 DEF Retired
  <1>13. Current'
    <2>1. CASE kept
      <3>1. tool' # 0 => tool' = tool /\ tool # 0 /\ loads'[tool].seen = loads[tool].seen
        <4>1. tool # 0 => tool \in 1..Len(loads)
          BY <1>1 DEF CacheTypes
        <4> QED BY <1>2, <4>1
      <3>2. cached # 0 => managers'[cached] = managers[cached]
        BY <1>1, <1>3, <2>1
      <3> QED BY <1>2, <1>5, <2>1, <3>1, <3>2 DEF Current, Rest
    <2>2. CASE reset BY <1>1, <1>3, <1>6, <2>2 DEF Current, Rest
    <2> QED BY <1>4, <2>1, <2>2
  <1> QED BY <1>8, <1>9, <1>10, <1>11, <1>12, <1>13

\* A tool's load comes back.
LEMMA ToolReloadedKeeps ==
  ASSUME CacheConstants, CacheInv, Cache!ToolReloaded
  PROVE  CacheInv'
  <1> USE DEF CacheInv
  <1>1. /\ tool \in 1..Len(loads) /\ loads[tool].incumbent = cached
        /\ Has(cached) /\ loads[tool].seen \in Nat \ {0} /\ loads[tool].seen <= file
        /\ Len(managers) \in Nat /\ Len(loads) \in Nat /\ file \in Nat
    <2>1. tool \in 1..Len(loads) /\ loads[tool].for = "tool" /\ loads[tool].incumbent = cached
      BY DEF Cache!ToolReloaded, CacheTypes, Tooled
    <2>2. Has(cached)
      BY <2>1 DEF Filled
    <2> QED BY <2>1, <2>2, CacheCounted DEF Past
  <1>2. /\ Cache!Settled(tool) /\ tool' = 0 /\ file' = file /\ own' = own /\ foreign' = foreign
        /\ fetches' = fetches /\ watch' = watch
    BY DEF Cache!ToolReloaded
  <1>3. PICK seen \in {loads[tool].seen, 0} :
          /\ Cache!Counted(seen)
          /\ IF Cache!Untrustworthy(cached, seen)
               THEN /\ managers' = Cache!Loaded(seen, TRUE)
                    /\ retry' = Cache!Scheduled(0)
                    /\ cached' = cached /\ shared' = shared
               ELSE /\ managers' = Cache!Disposed(Cache!Loaded(seen, FALSE), {cached})
                    /\ retry' = Cache!NoRetry
                    /\ cached' = Len(managers) + 1 /\ shared' = tool
    BY <1>1 DEF Cache!ToolReloaded, Cache!Outcomes, Cache!Fresh
  <1>4. seen \in 0..file
    BY <1>1
  <1>5. /\ watch' \in Watch(Len(loads)) /\ watch'.observed <= file /\ OnLoads'
        /\ fetches' \in [Fetches -> Fetch(Len(managers) + 1, Len(loads))]
        /\ \A f \in Fetches : fetches'[f].phase \in {"again", "serving"} =>
             fetches'[f].held \in 0..Len(managers) /\ Has(fetches'[f].held)
    <2>1. fetches \in [Fetches -> Fetch(Len(managers) + 1, Len(loads))]
      BY <1>1 DEF CacheTypes, Fetch
    <2> QED BY <1>2, <2>1, CacheCounted DEF CacheTypes, Past, OnLoads, Filled
  <1>6. CASE Cache!Untrustworthy(cached, seen)
    <2>1. Cache!Scheduled(0) \in Retry(Len(managers)) /\ Cache!Scheduled(0).incumbent \in {retry.incumbent, 0}
      BY <1>1, ScheduledRetry
    <2>2. retry' \in Retry(Len(managers) + 1) /\ retry'.incumbent \in {retry.incumbent, 0}
      BY <1>1, <1>3, <1>6, <2>1 DEF Retry
    <2>3. retry'.incumbent # 0 => retry'.incumbent \in 0..Len(managers) /\ Has(retry'.incumbent)
      BY <2>2, CacheCounted DEF Filled
    <2>4. shared' \in 0..Len(loads) /\ cached' = cached /\ managers' = Cache!Loaded(seen, TRUE)
          /\ TRUE \in BOOLEAN
      BY <1>3, <1>6 DEF CacheTypes
    <2>5. Rest' => Rest
      BY <1>2 DEF Rest
    <2>6. cached' = cached
      BY <2>4
    <2> QED BY <1>1, <1>2, <1>3, <1>4, <1>5, <2>2, <2>3, <2>4, <2>5, <2>6, LoadLands
  <1>7. CASE ~Cache!Untrustworthy(cached, seen)
    <2>1. seen # 0 /\ seen = loads[tool].seen
      BY <1>1, <1>3, <1>7 DEF Cache!Untrustworthy, Cache!Empty, Has
    <2>2. retry' \in Retry(Len(managers) + 1) /\ retry'.incumbent = 0
      <3>1. retry' = [left |-> 3, armed |-> FALSE, incumbent |-> 0]
        BY <1>3, <1>7 DEF Cache!NoRetry, Cache!MaxRetries
      <3> QED BY <1>1, <3>1 DEF Retry
    <2>3. /\ shared' \in 0..Len(loads) /\ cached' = Len(managers) + 1
          /\ managers' = Cache!Disposed(Cache!Loaded(seen, FALSE), {cached})
      BY <1>1, <1>3, <1>7
    <2>4. Rest' => seen = file
      BY <1>1, <1>2, <2>1 DEF Rest, Current
    <2>5. cached' # cached /\ FALSE \in BOOLEAN
      BY <1>1, <2>3 DEF CacheTypes
    <2> QED BY <1>1, <1>2, <1>3, <1>4, <1>5, <2>1, <2>2, <2>3, <2>4, <2>5, LoadLands
  <1> QED BY <1>6, <1>7

\* A step that begins no load and makes no manager: loads may settle.
LEMMA NothingLoads ==
  ASSUME CacheInv,
         \/ loads' = loads
         \/ \E l \in 1..Len(loads) : Cache!Settled(l) /\ (tool = l => tool' = 0),
         file' = file, foreign' = foreign, managers' = managers, cached' = cached,
         own' \in {own, 0}, shared' \in {shared, 0}, tool' \in {tool, 0}, failures' \in Nat,
         watch' \in Watch(Len(loads)), watch'.observed <= file, watch'.load = watch.load,
         fetches' \in [Fetches -> Fetch(Len(managers), Len(loads))], OnLoads',
         \A f \in Fetches :
           fetches'[f].phase \in {"again", "serving"} => Has(fetches'[f].held),
         retry' \in Retry(Len(managers)), retry'.incumbent = retry.incumbent,
         Rest' => Rest
  PROVE  CacheInv'
  <1> USE DEF CacheInv
  <1>1. /\ Len(managers) \in Nat /\ Len(loads) \in Nat /\ file \in Nat
        /\ tool # 0 => tool \in 1..Len(loads)
    BY CacheCounted DEF CacheTypes
  <1>2. /\ loads' \in Seq(Load) /\ Len(loads') = Len(loads)
        /\ \A k \in 1..Len(loads) :
             /\ loads'[k].seen = loads[k].seen /\ loads'[k].incumbent = loads[k].incumbent
             /\ loads'[k].for \in {"tool", "retry", "fetch"} => loads[k].for = loads'[k].for
             /\ loads'[k].for \in {"tool", "retry"} => Has(loads'[k].incumbent)
        /\ tool' # 0 => tool' = tool /\ loads'[tool] = loads[tool]
    <2>1. CASE loads' = loads BY <1>1, <2>1 DEF CacheTypes, Filled
    <2>2. CASE loads' # loads
      <3>1. PICK l \in 1..Len(loads) : Cache!Settled(l) /\ (tool = l => tool' = 0)
        BY <2>2
      <3> QED BY <1>1, <3>1, LoadSettled
    <2> QED BY <2>1, <2>2
  <1>3. CacheTypes'
    <2>1. watch' \in Watch(Len(loads')) /\ shared' \in 0..Len(loads') /\ tool' \in 0..Len(loads')
      BY <1>1, <1>2 DEF CacheTypes
    <2>2. fetches' \in [Fetches -> Fetch(Len(managers'), Len(loads'))]
      BY <1>2
    <2>3. file' \in 1..MaxWrites /\ own' \in 0..file' /\ foreign' \in 1..file'
      BY <1>1 DEF CacheTypes
    <2> QED BY <1>2, <2>1, <2>2, <2>3 DEF CacheTypes
  <1>4. Past'
    BY <1>2 DEF Past
  <1>5. Filled'
    <2>1. cached' # 0 => Has(cached)'
      BY DEF Filled, Has
    <2>2. \A f \in Fetches : fetches'[f].phase \in {"again", "serving"} => Has(fetches[f].held)'
      BY DEF Has
    <2>3. retry'.incumbent # 0 => Has(retry.incumbent)'
      BY DEF Filled, Has
    <2>4. \A k \in 1..Len(loads') : loads'[k].for \in {"tool", "retry"} => Has(loads[k].incumbent)'
      BY <1>2 DEF Has
    <2> QED BY <2>1, <2>2, <2>3, <2>4 DEF Filled
  <1>6. Tooled'
    <2>1. own' # foreign'
      BY <1>1 DEF Tooled, CacheTypes
    <2> QED BY <1>2, <2>1 DEF Tooled
  <1>7. Retired'
    BY DEF Retired
  <1>8. Current'
    BY <1>1, <1>2 DEF Current, Rest
  <1> QED BY <1>3, <1>4, <1>5, <1>6, <1>7, <1>8

\* A load begins; the cached manager may be retired with it, when the watcher is not at rest.
LEMMA LoadBegins ==
  ASSUME CacheInv, NEW who \in {"fetch", "tool", "retry", "watch"}, NEW incumbent \in 0..Len(managers),
         Cache!Begin(who, incumbent, file), who \in {"tool", "retry"} => Has(incumbent),
         file' = file, foreign' = foreign, cached' = cached, failures' = failures,
         \/ managers' = managers
         \/ managers' = Cache!Disposed(managers, {cached}) /\ ~Rest',
         own' \in {own, 0}, shared' \in {shared, Len(loads) + 1},
         \/ tool' = tool /\ who # "tool"
         \/ tool' = Len(loads) + 1 /\ who = "tool" /\ incumbent = cached,
         tool' # 0 => watch'.load = 0,
         watch' \in Watch(Len(loads) + 1), watch'.observed <= file,
         fetches' \in [Fetches -> Fetch(Len(managers), Len(loads) + 1)], OnLoads',
         \A f \in Fetches :
           fetches'[f].phase \in {"again", "serving"} => Has(fetches'[f].held),
         retry' \in Retry(Len(managers)), retry'.incumbent = retry.incumbent,
         Rest' => Rest
  PROVE  CacheInv'
  <1> USE DEF CacheInv
  <1>0. PICK n : n = Len(loads) + 1
    OBVIOUS
  <1>1. /\ Len(managers) \in Nat /\ Len(loads) \in Nat /\ file \in Nat \ {0} /\ n = Len(loads) + 1
        /\ tool # 0 => tool \in 1..Len(loads)
    BY <1>0, CacheCounted DEF CacheTypes
  <1>2. /\ loads' \in Seq(Load) /\ Len(loads') = n
        /\ loads'[n].seen = file /\ loads'[n].for = who /\ loads'[n].incumbent = incumbent
        /\ \A l \in 1..Len(loads) : loads'[l] = loads[l]
        /\ \A l \in 1..Len(loads') :
              /\ loads'[l].seen <= file /\ loads'[l].incumbent <= Len(managers)
              /\ loads'[l].for \in {"tool", "retry"} => Has(loads'[l].incumbent)
        /\ {shared, tool, n} \subseteq 0..Len(loads')
    BY <1>1, LoadBegun
  <1>3. /\ managers' \in Seq(Manager) /\ Len(managers') = Len(managers)
        /\ \A m \in 1..Len(managers) :
             /\ managers'[m].seen = managers[m].seen
             /\ managers[m].disposed = TRUE => managers'[m].disposed = TRUE
    <2>1. CASE managers' = managers BY <2>1 DEF CacheTypes
    <2>2. CASE managers' = Cache!Disposed(managers, {cached})
      BY <2>2, DisposedSeq DEF CacheTypes
    <2> QED BY <2>1, <2>2
  <1>4. Rest' => managers' = managers
    OBVIOUS
  <1>5. \A m \in 0..Len(managers) : Has(m) => Has(m)'
    BY <1>1, <1>3 DEF Has
  <1>6. \A l \in 1..Len(loads') : loads'[l].incumbent \in 0..Len(managers)
    <2>1. \A l \in 1..Len(loads) : loads[l].incumbent \in Nat
      BY CacheCounted
    <2> QED BY <1>1, <1>2, <2>1
  <1>7. CacheTypes'
    <2>1. /\ watch' \in Watch(Len(loads')) /\ shared' \in 0..Len(loads') /\ tool' \in 0..Len(loads')
          /\ fetches' \in [Fetches -> Fetch(Len(managers'), Len(loads'))]
      BY <1>1, <1>2, <1>3
    <2>2. file' \in 1..MaxWrites /\ own' \in 0..file' /\ foreign' \in 1..file'
      BY <1>1 DEF CacheTypes
    <2>3. cached' \in 0..Len(managers') /\ retry' \in Retry(Len(managers')) /\ failures' \in Nat
      BY <1>3 DEF CacheTypes
    <2> QED BY <1>2, <1>3, <2>1, <2>2, <2>3 DEF CacheTypes
  <1>8. Past'
    BY <1>2, <1>3 DEF Past
  <1>9. Filled'
    <2>1. cached' # 0 => Has(cached)'
      BY <1>5 DEF Filled, CacheTypes
    <2>2. \A f \in Fetches : fetches'[f].phase \in {"again", "serving"} => Has(fetches[f].held)'
      BY <1>5 DEF Fetch
    <2>3. retry'.incumbent # 0 => Has(retry.incumbent)'
      BY <1>5, CacheCounted DEF Filled
    <2>4. \A l \in 1..Len(loads') : loads'[l].for \in {"tool", "retry"} => Has(loads[l].incumbent)'
      BY <1>2, <1>5, <1>6
    <2> QED BY <2>1, <2>2, <2>3, <2>4 DEF Filled
  <1>10. Tooled'
    <2>1. own' # foreign'
      BY <1>1 DEF Tooled, CacheTypes
    <2>2. tool # 0 => loads'[tool] = loads[tool]
      BY <1>1, <1>2
    <2> QED BY <1>1, <1>2, <2>1, <2>2 DEF Tooled
  <1>11. Retired'
    BY <1>3 DEF Retired
  <1>12. Current'
    <2>1. tool # 0 => loads'[tool] = loads[tool]
      BY <1>1, <1>2
    <2>2. \A l \in 1..Len(loads') : l \in 1..Len(loads) \/ l = n
      BY <1>1, <1>2
    <2> QED BY <1>1, <1>2, <1>4, <2>1, <2>2 DEF Current, Rest
  <1> QED BY <1>7, <1>8, <1>9, <1>10, <1>11, <1>12

\* The facts that most steps need of the state before them.
LEMMA CacheFacts ==
  ASSUME CacheInv
  PROVE  /\ Len(managers) \in Nat /\ Len(loads) \in Nat /\ file \in Nat \ {0}
         /\ cached \in 0..Len(managers) /\ shared \in 0..Len(loads) /\ tool \in 0..Len(loads)
         /\ cached # 0 => Has(cached)
         /\ fetches \in [Fetches -> Fetch(Len(managers), Len(loads))]
         /\ fetches \in [Fetches -> Fetch(Len(managers), Len(loads) + 1)]
         /\ fetches \in [Fetches -> Fetch(Len(managers) + 1, Len(loads))]
         /\ \A f \in Fetches :
              /\ fetches[f].held \in 0..Len(managers)
              /\ fetches[f].phase \in {"again", "serving"} => Has(fetches[f].held)
              /\ fetches[f].on # 0 => fetches[f].phase \in {"starting", "again"}
         /\ watch \in Watch(Len(loads)) /\ watch \in Watch(Len(loads) + 1)
         /\ watch.observed <= file
         /\ retry \in Retry(Len(managers)) /\ retry \in Retry(Len(managers) + 1)
         /\ retry.incumbent \in 0..Len(managers)
         /\ retry.incumbent # 0 => Has(retry.incumbent)
         /\ tool # 0 => /\ loads[tool].for = "tool"
                        /\ cached = loads[tool].incumbent /\ cached # 0 /\ watch.load = 0
         /\ own # foreign /\ failures \in Nat /\ 0 \in 0..Len(loads)
  <1> USE DEF CacheInv
  <1>1. Len(managers) \in Nat /\ Len(loads) \in Nat /\ file \in Nat \ {0}
    BY CacheCounted
  <1>2. /\ fetches \in [Fetches -> Fetch(Len(managers), Len(loads))]
        /\ fetches \in [Fetches -> Fetch(Len(managers), Len(loads) + 1)]
        /\ fetches \in [Fetches -> Fetch(Len(managers) + 1, Len(loads))]
    BY <1>1 DEF CacheTypes, Fetch
  <1>3. watch \in Watch(Len(loads)) /\ watch \in Watch(Len(loads) + 1)
    BY <1>1 DEF CacheTypes, Watch
  <1>4. retry \in Retry(Len(managers)) /\ retry \in Retry(Len(managers) + 1)
    BY <1>1 DEF CacheTypes, Retry
  <1>5. \A f \in Fetches :
          /\ fetches[f].held \in 0..Len(managers)
          /\ fetches[f].phase \in {"again", "serving"} => Has(fetches[f].held)
          /\ fetches[f].on # 0 => fetches[f].phase \in {"starting", "again"}
    BY CacheCounted DEF Filled, OnLoads
  <1>6. tool # 0 => /\ loads[tool].for = "tool" /\ cached = loads[tool].incumbent
                    /\ cached # 0 /\ watch.load = 0
    BY DEF Tooled, Filled, CacheTypes, Has
  <1> QED BY <1>1, <1>2, <1>3, <1>4, <1>5, <1>6, CacheCounted DEF CacheTypes, Past, Filled, Tooled

\* A request starts, and starts a load when none is shared.
LEMMA StartFetchKeeps ==
  ASSUME CacheInv, NEW f \in Fetches, Cache!StartFetch(f)
  PROVE  CacheInv'
  <1> DEFINE next == IF cached = 0 THEN [phase |-> "starting", held |-> 0, on |-> shared']
                     ELSE [phase |-> "serving", held |-> cached, on |-> 0]
  <1>1. /\ fetches' = [fetches EXCEPT ![f] = next]
        /\ file' = file /\ own' = own /\ foreign' = foreign /\ managers' = managers /\ cached' = cached
        /\ watch' = watch /\ retry' = retry /\ tool' = tool /\ failures' = failures
    BY DEF Cache!StartFetch
  <1>2. Rest' => Rest
    BY <1>1 DEF Rest
  <1>3. ASSUME NEW n \in Nat, shared' \in 0..n, n = Len(loads) \/ n = Len(loads) + 1
        PROVE  /\ fetches' \in [Fetches -> Fetch(Len(managers), n)] /\ OnLoads'
               /\ \A g \in Fetches : fetches'[g].phase \in {"again", "serving"} => Has(fetches'[g].held)
    <2>1. next \in Fetch(Len(managers), n)
      BY <1>3, CacheFacts DEF Fetch
    <2>2. /\ next.on # 0 => next.phase \in {"starting", "again"}
          /\ next.phase \in {"again", "serving"} => Has(next.held)
      BY CacheFacts
    <2>3. fetches \in [Fetches -> Fetch(Len(managers), n)]
      BY <1>3, CacheFacts
    <2> HIDE DEF next
    <2> QED BY <1>1, <2>1, <2>2, <2>3, CacheFacts DEF OnLoads
  <1>4. CASE shared # 0
    <2>1. loads' = loads /\ shared' = shared
      BY <1>4 DEF Cache!StartFetch, Cache!ShareLoad
    <2> QED BY <1>1, <1>2, <1>3, <2>1, CacheFacts, NothingLoads
  <1>5. CASE shared = 0
    <2>1. Cache!Begin("fetch", 0, file) /\ shared' = Len(loads) + 1
      BY <1>5 DEF Cache!StartFetch, Cache!ShareLoad, Cache!NewLoad
    <2>2. Len(loads) + 1 \in Nat /\ shared' \in 0..(Len(loads) + 1) /\ 0 \in 0..Len(managers)
      BY <2>1, CacheFacts
    <2> QED BY <1>1, <1>2, <1>3, <2>1, <2>2, CacheFacts, LoadBegins
  <1> QED BY <1>4, <1>5

\* A request takes the manager cached by now, or awaits a load that has one.
LEMMA TraverseKeeps ==
  ASSUME CacheInv, NEW f \in Fetches, Cache!Traverse(f)
  PROVE  CacheInv'
  <1>1. /\ file' = file /\ own' = own /\ foreign' = foreign /\ managers' = managers /\ cached' = cached
        /\ watch' = watch /\ retry' = retry /\ tool' = tool /\ failures' = failures
        /\ fetches[f].phase = "serving" /\ Has(fetches[f].held)
    BY CacheFacts DEF Cache!Traverse
  <1>2. Rest' => Rest
    BY <1>1 DEF Rest
  <1>3. CASE cached # 0
    <2>1. fetches' = [fetches EXCEPT ![f].held = cached] /\ loads' = loads /\ shared' = shared
      BY <1>3 DEF Cache!Traverse
    <2>2. /\ fetches' \in [Fetches -> Fetch(Len(managers), Len(loads))] /\ OnLoads'
          /\ \A g \in Fetches : fetches'[g].phase \in {"again", "serving"} => Has(fetches'[g].held)
      <3> DEFINE next == [fetches[f] EXCEPT !.held = cached]
      <3>1. /\ next \in Fetch(Len(managers), Len(loads))
            /\ next.phase = fetches[f].phase /\ next.held = cached /\ next.on = fetches[f].on
        BY CacheFacts DEF Fetch
      <3>2. fetches' = [fetches EXCEPT ![f] = next]
        BY <2>1
      <3> HIDE DEF next
      <3> QED BY <1>1, <1>3, <3>1, <3>2, CacheFacts DEF OnLoads
    <2> QED BY <1>1, <1>2, <2>1, <2>2, CacheFacts, NothingLoads
  <1>4. CASE cached = 0
    <2> DEFINE next == [fetches[f] EXCEPT !.phase = "again", !.on = shared']
    <2>1. fetches' = [fetches EXCEPT ![f] = next] /\ Cache!ShareLoad
      BY <1>4 DEF Cache!Traverse
    <2>2. ASSUME NEW n \in Nat, shared' \in 0..n, n = Len(loads) \/ n = Len(loads) + 1
          PROVE  /\ fetches' \in [Fetches -> Fetch(Len(managers), n)] /\ OnLoads'
                 /\ \A g \in Fetches : fetches'[g].phase \in {"again", "serving"} => Has(fetches'[g].held)
      <3>1. fetches \in [Fetches -> Fetch(Len(managers), n)]
        BY <2>2, CacheFacts
      <3>2. /\ next \in Fetch(Len(managers), n)
            /\ next.phase = "again" /\ next.held = fetches[f].held
        BY <2>2, <3>1 DEF Fetch
      <3> HIDE DEF next
      <3> QED BY <1>1, <2>1, <3>1, <3>2, CacheFacts DEF OnLoads
    <2>3. CASE shared # 0
      <3>1. loads' = loads /\ shared' = shared
        BY <2>1, <2>3 DEF Cache!ShareLoad
      <3> QED BY <1>1, <1>2, <2>2, <3>1, CacheFacts, NothingLoads
    <2>4. CASE shared = 0
      <3>1. Cache!Begin("fetch", 0, file) /\ shared' = Len(loads) + 1
        BY <2>1, <2>4 DEF Cache!ShareLoad, Cache!NewLoad
      <3>2. Len(loads) + 1 \in Nat /\ shared' \in 0..(Len(loads) + 1) /\ 0 \in 0..Len(managers)
        BY <3>1, CacheFacts
      <3> QED BY <1>1, <1>2, <2>2, <3>1, <3>2, CacheFacts, LoadBegins
    <2> QED BY <2>3, <2>4
  <1> QED BY <1>3, <1>4

\* A request ends.
LEMMA EndFetchKeeps ==
  ASSUME CacheInv, NEW f \in Fetches, Cache!EndFetch(f)
  PROVE  CacheInv'
  <1>1. /\ file' = file /\ own' = own /\ foreign' = foreign /\ managers' = managers /\ cached' = cached
        /\ shared' = shared /\ loads' = loads
        /\ watch' = watch /\ retry' = retry /\ tool' = tool /\ failures' = failures
        /\ fetches' = [fetches EXCEPT ![f] = Cache!Idle]
    BY DEF Cache!EndFetch
  <1>2. Rest' => Rest
    BY <1>1 DEF Rest
  <1>3. /\ Cache!Idle \in Fetch(Len(managers), Len(loads))
        /\ Cache!Idle.phase = "idle" /\ Cache!Idle.on = 0
    BY CacheFacts DEF Cache!Idle, Fetch
  <1>4. /\ fetches' \in [Fetches -> Fetch(Len(managers), Len(loads))] /\ OnLoads'
        /\ \A g \in Fetches : fetches'[g].phase \in {"again", "serving"} => Has(fetches'[g].held)
    BY <1>1, <1>3, CacheFacts DEF OnLoads
  <1> QED BY <1>1, <1>2, <1>4, CacheFacts, NothingLoads

\* A load that requests await rejects: they end.
LEMMA FetchLoadFailsKeeps ==
  ASSUME CacheInv, NEW l \in 1..Len(loads), Cache!FetchLoadFails(l)
  PROVE  CacheInv'
  <1>1. /\ file' = file /\ own' = own /\ foreign' = foreign /\ managers' = managers /\ cached' = cached
        /\ shared' \in {shared, 0} /\ failures' = failures + 1
        /\ watch' = watch /\ retry' = retry /\ tool' = tool
        /\ fetches' = [f \in Fetches |-> IF f \in Cache!Waiting(l) THEN Cache!Idle ELSE fetches[f]]
        /\ Cache!Settled(l) /\ loads[l].for = "fetch"
    BY DEF Cache!FetchLoadFails
  <1>2. Rest' => Rest
    BY <1>1 DEF Rest
  <1>3. /\ Cache!Idle \in Fetch(Len(managers), Len(loads))
        /\ Cache!Idle.phase = "idle" /\ Cache!Idle.on = 0
    BY CacheFacts DEF Cache!Idle, Fetch
  <1>4. /\ fetches' \in [Fetches -> Fetch(Len(managers), Len(loads))] /\ OnLoads'
        /\ \A g \in Fetches : fetches'[g].phase \in {"again", "serving"} => Has(fetches'[g].held)
    BY <1>1, <1>3, CacheFacts DEF OnLoads
  <1>5. tool # l /\ failures' \in Nat
    BY <1>1, CacheFacts
  <1>6. \E k \in 1..Len(loads) : Cache!Settled(k) /\ (tool = k => tool' = 0)
    BY <1>1, <1>5
  <1> QED BY <1>1, <1>2, <1>4, <1>5, <1>6, CacheFacts, NothingLoads

\* The load of a tool or of a retry rejects.
LEMMA ReloadFailsKeeps ==
  ASSUME CacheInv, NEW l \in 1..Len(loads), Cache!ReloadFails(l)
  PROVE  CacheInv'
  <1>1. /\ file' = file /\ own' = own /\ foreign' = foreign /\ managers' = managers /\ cached' = cached
        /\ shared' = shared /\ failures' = failures + 1 /\ fetches' = fetches
        /\ watch' = watch /\ retry' = retry /\ tool' = IF tool = l THEN 0 ELSE tool
        /\ Cache!Settled(l)
    BY DEF Cache!ReloadFails
  <1>2. Rest' => Rest
    BY <1>1 DEF Rest
  <1>3. OnLoads' /\ failures' \in Nat
    BY <1>1, CacheFacts DEF OnLoads
  <1>4. \E k \in 1..Len(loads) : Cache!Settled(k) /\ (tool = k => tool' = 0)
    BY <1>1
  <1> QED BY <1>1, <1>2, <1>3, <1>4, CacheFacts, NothingLoads

\* The retry of an empty reload loads for its own incumbent, or for the cached manager.
LEMMA RetryFiresKeeps ==
  ASSUME CacheConstants, CacheInv, Cache!RetryFires
  PROVE  CacheInv'
  <1>1. /\ file' = file /\ own' = own /\ foreign' = foreign /\ managers' = managers /\ cached' = cached
        /\ shared' = shared /\ failures' = failures /\ fetches' = fetches /\ watch' = watch
        /\ retry' = [retry EXCEPT !.armed = FALSE]
    BY DEF Cache!RetryFires
  <1>2. Rest' => Rest
    BY <1>1 DEF Rest
  <1>3. OnLoads'
    BY <1>1, CacheFacts DEF OnLoads
  <1>4. retry' \in Retry(Len(managers)) /\ retry'.incumbent = retry.incumbent
    BY <1>1, CacheFacts DEF Retry
  <1>5. CASE retry.incumbent # 0
    <2>1. Cache!Begin("retry", retry.incumbent, file) /\ tool' = tool
      BY <1>5 DEF Cache!RetryFires
    <2> QED BY <1>1, <1>2, <1>3, <1>4, <1>5, <2>1, CacheFacts, LoadBegins
  <1>6. CASE retry.incumbent = 0 /\ cached # 0 /\ tool = 0 /\ watch.load = 0
    <2>1. Cache!Begin("tool", cached, file) /\ tool' = Len(loads) + 1
      BY <1>6 DEF Cache!RetryFires, Cache!NewLoad
    <2> QED BY <1>1, <1>2, <1>3, <1>4, <1>6, <2>1, CacheFacts, LoadBegins
  <1>7. CASE ~(retry.incumbent # 0) /\ ~(cached # 0 /\ tool = 0 /\ watch.load = 0)
    <2>1. loads' = loads /\ tool' = tool
      BY <1>7 DEF Cache!RetryFires, CacheConstants
    <2> QED BY <1>1, <1>2, <1>3, <1>4, <2>1, CacheFacts, NothingLoads
  <1> QED BY <1>5, <1>6, <1>7

\* The watcher sees a change: of this process, and the last is then no other's, or it is not at rest.
LEMMA PollKeeps ==
  ASSUME CacheInv, Cache!Poll
  PROVE  CacheInv'
  <1>1. /\ file' = file /\ own' = 0 /\ foreign' = foreign /\ managers' = managers /\ cached' = cached
        /\ shared' = shared /\ loads' = loads /\ failures' = failures /\ fetches' = fetches
        /\ retry' = retry /\ tool' = tool
        /\ watch' = [watch EXCEPT !.observed = file, !.timer = own # file, !.attempt = 0]
    BY DEF Cache!Poll
  <1>2. PICK due \in BOOLEAN : due = (own # file)
    OBVIOUS
  <1>3. watch' = [watch EXCEPT !.observed = file, !.timer = due, !.attempt = 0]
    BY <1>1, <1>2
  <1>4. /\ watch' \in Watch(Len(loads)) /\ watch'.observed = file /\ watch'.load = watch.load
        /\ watch'.timer = due
    BY <1>3, CacheFacts DEF Watch
  <1>5. Rest' => Rest
    BY <1>1, <1>2, <1>4, CacheFacts DEF Rest
  <1>6. OnLoads'
    BY <1>1, CacheFacts DEF OnLoads
  <1> QED BY <1>1, <1>4, <1>5, <1>6, CacheFacts, NothingLoads

\* The watcher's reload retires the cached manager before it loads.
LEMMA ExternalReloadKeeps ==
  ASSUME CacheConstants, CacheInv, Cache!ExternalReload
  PROVE  CacheInv'
  <1>1. /\ file' = file /\ own' = 0 /\ foreign' = foreign /\ cached' = cached /\ shared' = shared
        /\ failures' = failures /\ fetches' = fetches /\ retry' = retry /\ tool' = tool
        /\ tool = 0 /\ watch.load = 0
    BY DEF Cache!ExternalReload, Cache!NoToolReload, CacheConstants
  <1>2. OnLoads'
    BY <1>1, CacheFacts DEF OnLoads
  <1>3. CASE own = file
    <2>1. managers' = managers /\ loads' = loads /\ watch' = [watch EXCEPT !.timer = FALSE]
      BY <1>3 DEF Cache!ExternalReload
    <2>2. /\ watch' \in Watch(Len(loads)) /\ watch'.observed = watch.observed
          /\ watch'.load = watch.load
      BY <2>1, CacheFacts DEF Watch
    <2>3. Rest' => Rest
      BY <1>1, <1>3, CacheFacts DEF Rest
    <2> QED BY <1>1, <1>2, <2>1, <2>2, <2>3, CacheFacts, NothingLoads
  <1>4. CASE own # file
    <2>1. /\ managers' = Cache!Disposed(managers, {cached}) /\ Cache!Begin("watch", 0, file)
          /\ watch' = [watch EXCEPT !.timer = FALSE, !.load = Len(loads) + 1]
      BY <1>4 DEF Cache!ExternalReload, Cache!NewLoad
    <2>2. /\ watch' \in Watch(Len(loads) + 1) /\ watch'.observed = watch.observed
          /\ watch'.load = Len(loads) + 1 /\ 0 \in 0..Len(managers)
      <3> DEFINE fired == [watch EXCEPT !.timer = FALSE]
      <3>1. fired \in Watch(Len(loads) + 1) /\ fired.observed = watch.observed
        BY CacheFacts DEF Watch
      <3>2. watch' = [fired EXCEPT !.load = Len(loads) + 1]
        BY <2>1
      <3>3. Len(loads) + 1 \in 0..(Len(loads) + 1)
        BY CacheFacts
      <3> HIDE DEF fired
      <3> QED BY <3>1, <3>2, <3>3, CacheFacts DEF Watch
    <2>3. ~Rest'
      BY <2>2, CacheFacts DEF Rest
    <2> QED BY <1>1, <1>2, <2>1, <2>2, <2>3, CacheFacts, LoadBegins
  <1> QED BY <1>3, <1>4

\* The retry's load comes back.
LEMMA RepopulatedKeeps ==
  ASSUME CacheInv, NEW l \in 1..Len(loads), Cache!Repopulated(l)
  PROVE  CacheInv'
  <1>1. /\ Cache!Settled(l) /\ loads[l].for = "retry" /\ tool' = tool
        /\ file' = file /\ own' = own /\ foreign' = foreign /\ fetches' = fetches /\ watch' = watch
    BY DEF Cache!Repopulated
  <1>2. /\ loads[l].seen \in Nat \ {0} /\ loads[l].seen <= file
        /\ loads[l].incumbent \in 0..Len(managers) /\ Has(loads[l].incumbent)
    BY <1>1, CacheCounted, CacheFacts DEF CacheInv, Past, Filled
  <1>3. PICK seen \in {loads[l].seen, 0} :
          /\ Cache!Counted(seen)
          /\ IF cached # 0
               THEN /\ managers' = Cache!Loaded(seen, TRUE)
                    /\ cached' = cached /\ shared' = shared /\ retry' = retry
             ELSE IF Cache!Untrustworthy(loads[l].incumbent, seen)
               THEN /\ managers' = Cache!Loaded(seen, TRUE)
                    /\ retry' = Cache!Scheduled(loads[l].incumbent)
                    /\ cached' = cached /\ shared' = shared
               ELSE /\ managers' = Cache!Loaded(seen, FALSE)
                    /\ retry' = Cache!NoRetry
                    /\ cached' = Len(managers) + 1 /\ shared' = l
    BY DEF Cache!Repopulated, Cache!Outcomes, Cache!Fresh
  <1>4. seen \in 0..file /\ TRUE \in BOOLEAN /\ FALSE \in BOOLEAN
    BY <1>2, CacheFacts
  <1>5. tool # l /\ OnLoads' /\ tool' = tool /\ (tool' # 0 => watch'.load = 0)
    BY <1>1, CacheFacts DEF OnLoads
  <1>6. cached' = cached /\ Rest' => Rest
    BY <1>1 DEF Rest
  <1>7. CASE cached # 0
    <2>1. /\ cached' = cached /\ managers' = Cache!Loaded(seen, TRUE)
          /\ shared' = shared /\ retry' = retry
      BY <1>3, <1>7
    <2> QED BY <1>1, <1>3, <1>4, <1>5, <1>6, <2>1, CacheFacts, LoadLands
  <1>8. CASE cached = 0 /\ Cache!Untrustworthy(loads[l].incumbent, seen)
    <2>1. /\ cached' = cached /\ managers' = Cache!Loaded(seen, TRUE) /\ shared' = shared
          /\ retry' = Cache!Scheduled(loads[l].incumbent)
      BY <1>3, <1>8
    <2>2. /\ retry' \in Retry(Len(managers))
          /\ retry'.incumbent \in {retry.incumbent, loads[l].incumbent}
      BY <1>2, <2>1, ScheduledRetry DEF CacheInv
    <2>3. retry' \in Retry(Len(managers) + 1)
      BY <2>2, CacheFacts DEF Retry
    <2>4. retry'.incumbent # 0 => retry'.incumbent \in 0..Len(managers) /\ Has(retry'.incumbent)
      BY <1>2, <2>2, CacheFacts
    <2> QED BY <1>1, <1>3, <1>4, <1>5, <1>6, <2>1, <2>3, <2>4, CacheFacts, LoadLands
  <1>9. CASE cached = 0 /\ ~Cache!Untrustworthy(loads[l].incumbent, seen)
    <2>1. /\ cached' = Len(managers) + 1 /\ managers' = Cache!Loaded(seen, FALSE) /\ shared' = l
          /\ retry' = Cache!NoRetry
      BY <1>3, <1>9
    <2>2. seen # 0 /\ seen = loads[l].seen
      BY <1>2, <1>3, <1>9 DEF Cache!Untrustworthy, Cache!Empty, Has
    <2>3. retry' \in Retry(Len(managers) + 1) /\ retry'.incumbent = 0
      <3>1. retry' = [left |-> 3, armed |-> FALSE, incumbent |-> 0]
        BY <2>1 DEF Cache!NoRetry, Cache!MaxRetries
      <3> QED BY <3>1, CacheFacts DEF Retry
    <2>4. cached' # cached /\ tool' = 0 /\ shared' \in 0..Len(loads)
      BY <1>9, <1>5, <2>1, CacheFacts
    <2>5. Rest' => seen = file
      BY <1>1, <1>9, <2>2 DEF Rest, CacheInv, Current
    <2> QED BY <1>1, <1>3, <1>4, <1>5, <1>9, <2>1, <2>2, <2>3, <2>4, <2>5, CacheFacts, LoadLands
  <1> QED BY <1>7, <1>8, <1>9

\* The watcher's load comes back: empty, and it is not at rest before it gives up, or it is adopted.
LEMMA ExternalReloadedKeeps ==
  ASSUME CacheInv, Cache!ExternalReloaded
  PROVE  CacheInv'
  <1> DEFINE l == watch.load
  <1>1. /\ Cache!Settled(l) /\ l # 0 /\ tool' = tool /\ retry' = retry
        /\ file' = file /\ own' = own /\ foreign' = foreign /\ fetches' = fetches
    BY DEF Cache!ExternalReloaded
  <1>2. l \in 1..Len(loads) /\ tool = 0
    BY <1>1, CacheFacts DEF Watch
  <1>3. loads[l].seen \in Nat \ {0} /\ loads[l].seen <= file
    BY <1>2, CacheCounted, CacheFacts DEF CacheInv, Past
  <1>4. PICK seen \in {loads[l].seen, 0} :
          /\ Cache!Counted(seen)
          /\ IF seen = 0
               THEN /\ managers' = Cache!Loaded(seen, TRUE)
                    /\ watch' = [watch EXCEPT !.load = 0, !.attempt = @ + 1,
                                              !.timer = @ \/ watch.attempt < 2]
                    /\ cached' = cached /\ shared' = shared
               ELSE /\ managers' = Cache!Disposed(Cache!Loaded(seen, FALSE), {cached})
                    /\ cached' = Len(managers) + 1 /\ shared' = l
                    /\ watch' = [watch EXCEPT !.load = 0, !.observed = loads[l].seen]
    BY DEF Cache!ExternalReloaded, Cache!Outcomes, Cache!Fresh, Cache!MaxAttempts
  <1>5. seen \in 0..file /\ TRUE \in BOOLEAN /\ FALSE \in BOOLEAN
    BY <1>3, CacheFacts
  <1>6. OnLoads' /\ tool' = 0
    BY <1>1, <1>2, CacheFacts DEF OnLoads
  <1>7. CASE seen = 0
    <2>1. /\ cached' = cached /\ managers' = Cache!Loaded(seen, TRUE) /\ shared' = shared
          /\ watch' = [watch EXCEPT !.load = 0, !.attempt = @ + 1,
                                    !.timer = @ \/ watch.attempt < 2]
      BY <1>4, <1>7
    <2>2. watch.observed \in Nat /\ watch.timer \in BOOLEAN /\ watch.attempt \in Nat
      BY CacheFacts DEF Watch
    <2>3. PICK again \in BOOLEAN : again = (watch.timer \/ watch.attempt < 2)
      OBVIOUS
    <2>4. /\ watch' \in Watch(Len(loads)) /\ watch'.observed = watch.observed
          /\ watch'.attempt = watch.attempt + 1 /\ watch'.timer = again
      <3> DEFINE settled == [watch EXCEPT !.load = 0]
                 counted == [settled EXCEPT !.attempt = watch.attempt + 1]
      <3>1. settled \in Watch(Len(loads)) /\ settled.observed = watch.observed
        BY CacheFacts DEF Watch
      <3> HIDE DEF settled
      <3>2. /\ counted \in Watch(Len(loads)) /\ counted.observed = watch.observed
            /\ counted.attempt = watch.attempt + 1
        BY <2>2, <3>1 DEF Watch
      <3>3. watch' = [counted EXCEPT !.timer = again]
        BY <2>1, <2>3, <3>1 DEF settled
      <3> HIDE DEF counted
      <3> QED BY <3>2, <3>3 DEF Watch
    <2>5. ~Rest'
      <3>1. watch.attempt < 2 => again = TRUE
        BY <2>3
      <3>2. watch'.attempt <= 2 => watch.attempt < 2
        BY <2>2, <2>4
      <3> QED BY <2>4, <3>1, <3>2 DEF Rest
    <2> QED BY <1>1, <1>2, <1>4, <1>5, <1>6, <2>1, <2>4, <2>5, CacheFacts, LoadLands
  <1>8. CASE seen # 0
    <2>1. /\ cached' = Len(managers) + 1 /\ shared' = l /\ seen = loads[l].seen
          /\ managers' = Cache!Disposed(Cache!Loaded(seen, FALSE), {cached})
          /\ watch' = [watch EXCEPT !.load = 0, !.observed = seen]
      BY <1>4, <1>8
    <2>2. watch' \in Watch(Len(loads)) /\ watch'.observed = seen /\ seen <= file
      <3> DEFINE settled == [watch EXCEPT !.load = 0]
      <3>1. settled \in Watch(Len(loads))
        BY CacheFacts DEF Watch
      <3>2. watch' = [settled EXCEPT !.observed = seen]
        BY <2>1
      <3> HIDE DEF settled
      <3> QED BY <1>3, <2>1, <3>1, <3>2 DEF Watch
    <2>3. cached' # cached /\ shared' \in 0..Len(loads)
      BY <1>2, <2>1, CacheFacts
    <2>4. Rest' => seen = file
      BY <1>1, <2>2 DEF Rest
    <2> QED BY <1>1, <1>2, <1>4, <1>5, <1>6, <1>8, <2>1, <2>2, <2>3, <2>4, CacheFacts, LoadLands
  <1> QED BY <1>7, <1>8

\* The requests of a load are served from what they get.
LEMMA Served ==
  ASSUME CacheInv, NEW l, NEW held \in [Fetches -> 0..(Len(managers) + 1)],
         fetches' = [f \in Fetches |->
           IF f \notin Cache!Waiting(l) THEN fetches[f]
           ELSE [fetches[f] EXCEPT !.phase = "serving", !.held = held[f], !.on = 0]]
  PROVE  /\ fetches' \in [Fetches -> Fetch(Len(managers) + 1, Len(loads))]
         /\ OnLoads'
         /\ \A f \in Fetches : fetches'[f].phase \in {"again", "serving"} =>
              IF f \in Cache!Waiting(l) THEN fetches'[f].held = held[f]
              ELSE fetches'[f].held \in 0..Len(managers) /\ Has(fetches'[f].held)
  <1>0. 0 \in 0..Len(loads)
    BY CacheFacts
  <1>1. ASSUME NEW f \in Fetches
        PROVE  /\ fetches'[f] \in Fetch(Len(managers) + 1, Len(loads))
               /\ fetches'[f].on # 0 => fetches'[f].phase \in {"starting", "again"}
               /\ fetches'[f].phase \in {"again", "serving"} =>
                    IF f \in Cache!Waiting(l) THEN fetches'[f].held = held[f]
                    ELSE fetches'[f].held \in 0..Len(managers) /\ Has(fetches'[f].held)
    <2>1. fetches[f] \in Fetch(Len(managers) + 1, Len(loads))
      BY CacheFacts
    <2>2. CASE f \notin Cache!Waiting(l) BY <2>1, <2>2, CacheFacts
    <2>3. CASE f \in Cache!Waiting(l)
      <3> DEFINE serving == [fetches[f] EXCEPT !.phase = "serving"]
                 holding == [serving EXCEPT !.held = held[f]]
      <3>1. serving \in Fetch(Len(managers) + 1, Len(loads)) /\ serving.phase = "serving"
        BY <2>1 DEF Fetch
      <3> HIDE DEF serving
      <3>2. /\ holding \in Fetch(Len(managers) + 1, Len(loads)) /\ holding.phase = "serving"
            /\ holding.held = held[f]
        BY <3>1 DEF Fetch
      <3>3. fetches'[f] = [holding EXCEPT !.on = 0]
        BY <2>3 DEF serving
      <3> HIDE DEF holding
      <3> QED BY <1>0, <2>3, <3>2, <3>3 DEF Fetch
    <2> QED BY <2>2, <2>3
  <1> QED BY <1>1 DEF OnLoads

\* A load comes back to the requests that await it: one that is starting takes what it gets,
\* and what it gets has accounts; one that holds a manager refuses none for it.
LEMMA FetchLoadedKeeps ==
  ASSUME CacheConstants, CacheInv, NEW l \in 1..Len(loads), Cache!FetchLoaded(l)
  PROVE  CacheInv'
  <1> DEFINE starting == {f \in Cache!Waiting(l) : fetches[f].phase = "starting"}
             again == Cache!Waiting(l) \ starting
             Serve(g, m) == [g EXCEPT !.phase = "serving", !.held = m, !.on = 0]
  <1>1. /\ Cache!Settled(l) /\ loads[l].for = "fetch" /\ tool' = tool /\ watch' = watch
        /\ file' = file /\ own' = own /\ foreign' = foreign /\ Cache!Waiting(l) # {}
    BY DEF Cache!FetchLoaded
  <1>2. loads[l].seen \in Nat \ {0} /\ loads[l].seen <= file /\ tool # l /\ l # 0
    <2>1. loads[l].seen \in Nat \ {0} /\ loads[l].seen <= file /\ l # 0
      BY CacheCounted DEF CacheInv, Past
    <2>2. tool # l
      BY <1>1, CacheFacts
    <2> QED BY <2>1, <2>2
  <1>3. PICK seen \in Cache!Outcomes(l, starting = {} \/ StartFails), refusedFirst \in BOOLEAN :
          LET refusing == {f \in again : cached = 0 /\ Cache!Untrustworthy(fetches[f].held, seen)}
              adopts == cached = 0 /\ (starting # {} \/ again # refusing)
              refuses == refusing # {} /\ (~adopts \/ refusedFirst)
              using == IF adopts THEN Len(managers) + 1 ELSE cached
          IN /\ Cache!Counted(seen)
             /\ managers' = Cache!Loaded(seen, cached # 0 \/ refuses)
             /\ cached' = using
             /\ shared' = IF refuses /\ shared = l THEN 0 ELSE shared
             /\ retry' = IF refuses
                           THEN Cache!Scheduled(fetches[CHOOSE f \in refusing : TRUE].held) ELSE retry
             /\ fetches' = [f \in Fetches |->
                  IF f \notin Cache!Waiting(l) THEN fetches[f]
                  ELSE IF f \in refusing /\ refuses THEN Serve(fetches[f], fetches[f].held)
                  ELSE Serve(fetches[f], using)]
    BY DEF Cache!FetchLoaded, Cache!Fresh
  <1>4. seen \in {loads[l].seen, 0} /\ (seen = 0 => starting = {}) /\ seen \in 0..file
    <2>1. /\ seen \in Cache!Outcomes(l, starting = {} \/ StartFails)
          /\ StartFails = FALSE
      BY <1>3 DEF CacheConstants
    <2> HIDE DEF starting
    <2>2. seen \in {loads[l].seen} \/ (seen \in {0} /\ starting = {})
      BY <2>1 DEF Cache!Outcomes
    <2> QED BY <1>2, <2>2, CacheFacts
  <1> DEFINE refusing == {f \in again : cached = 0 /\ Cache!Untrustworthy(fetches[f].held, seen)}
  <1>5. \A f \in again : fetches[f].phase = "again" /\ Has(fetches[f].held) /\ f \in Fetches
    BY <1>2, CacheFacts DEF Cache!Waiting
  <1>6. refusing = IF cached = 0 /\ seen = 0 THEN again ELSE {}
    BY <1>5 DEF Cache!Untrustworthy, Cache!Empty, Has
  <1>7. Cache!Waiting(l) = starting \cup again /\ Cache!Waiting(l) \subseteq Fetches
    BY DEF Cache!Waiting
  <1>8. Cache!Counted(seen) /\ TRUE \in BOOLEAN /\ FALSE \in BOOLEAN
    BY <1>3
  <1>9. tool' = tool /\ (tool' # 0 => watch'.load = 0)
    BY <1>1, CacheFacts
  <1>10. cached' = cached /\ Rest' => Rest
    BY <1>1 DEF Rest
  <1>11. CASE cached # 0
    <2>1. /\ cached' = cached /\ managers' = Cache!Loaded(seen, TRUE)
          /\ shared' = shared /\ retry' = retry
          /\ fetches' = [f \in Fetches |-> IF f \notin Cache!Waiting(l) THEN fetches[f]
                                           ELSE Serve(fetches[f], cached)]
      BY <1>3, <1>6, <1>11
    <2> DEFINE held == [f \in Fetches |-> cached]
    <2>2. held \in [Fetches -> 0..(Len(managers) + 1)] /\ Has(cached) /\ cached \in 0..Len(managers)
      BY <1>11, CacheFacts
    <2>3. fetches' = [f \in Fetches |->
            IF f \notin Cache!Waiting(l) THEN fetches[f]
            ELSE [fetches[f] EXCEPT !.phase = "serving", !.held = held[f], !.on = 0]]
      BY <2>1
    <2>4. \A f \in Fetches : held[f] = cached
      OBVIOUS
    <2> HIDE DEF held
    <2>5. /\ fetches' \in [Fetches -> Fetch(Len(managers) + 1, Len(loads))] /\ OnLoads'
          /\ \A f \in Fetches : fetches'[f].phase \in {"again", "serving"} =>
               fetches'[f].held \in 0..Len(managers) /\ Has(fetches'[f].held)
      BY <2>2, <2>3, <2>4, Served
    <2> HIDE DEF Serve, starting, again, refusing
    <2> QED BY <1>1, <1>2, <1>4, <1>8, <1>9, <1>10, <2>1, <2>5, CacheFacts, LoadLands
  <1>12. CASE cached = 0 /\ seen = 0
    <2>1. refusing = again /\ starting = {} /\ again # {}
      BY <1>1, <1>4, <1>6, <1>7, <1>12
    <2>a. /\ cached' = cached /\ managers' = Cache!Loaded(seen, TRUE)
          /\ shared' \in {shared, 0}
          /\ retry' = Cache!Scheduled(fetches[CHOOSE f \in refusing : TRUE].held)
      BY <1>3, <1>7, <1>12, <2>1
    <2>2. fetches' = [f \in Fetches |-> IF f \notin Cache!Waiting(l) THEN fetches[f]
                       ELSE Serve(fetches[f], fetches[f].held)]
      BY <1>3, <1>7, <1>12, <2>1
    <2> DEFINE held == [f \in Fetches |-> fetches[f].held]
    <2>3. held \in [Fetches -> 0..(Len(managers) + 1)]
      BY CacheFacts
    <2>4. fetches' = [f \in Fetches |->
            IF f \notin Cache!Waiting(l) THEN fetches[f]
            ELSE [fetches[f] EXCEPT !.phase = "serving", !.held = held[f], !.on = 0]]
      BY <2>2
    <2>5. \A f \in Cache!Waiting(l) : f \in Fetches /\ held[f] = fetches[f].held /\ Has(fetches[f].held)
      BY <1>5, <1>7, <2>1
    <2> HIDE DEF held
    <2>6. /\ fetches' \in [Fetches -> Fetch(Len(managers) + 1, Len(loads))] /\ OnLoads'
          /\ \A f \in Fetches : fetches'[f].phase \in {"again", "serving"} =>
               fetches'[f].held \in 0..Len(managers) /\ Has(fetches'[f].held)
      <3>1. \A f \in Fetches : fetches[f].held \in 0..Len(managers)
        BY CacheFacts
      <3>2. /\ fetches' \in [Fetches -> Fetch(Len(managers) + 1, Len(loads))] /\ OnLoads'
            /\ \A f \in Fetches : fetches'[f].phase \in {"again", "serving"} =>
                 IF f \in Cache!Waiting(l) THEN fetches'[f].held = held[f]
                 ELSE fetches'[f].held \in 0..Len(managers) /\ Has(fetches'[f].held)
        BY <2>3, <2>4, Served
      <3> QED BY <2>5, <3>1, <3>2
    <2>7. PICK f \in again : retry' = Cache!Scheduled(fetches[f].held)
      BY <2>1, <2>a
    <2>8. fetches[f].held \in 0..Len(managers) /\ Has(fetches[f].held)
      BY <1>5, CacheFacts
    <2>9. /\ retry' \in Retry(Len(managers))
          /\ retry'.incumbent \in {retry.incumbent, fetches[f].held}
      BY <2>7, <2>8, ScheduledRetry DEF CacheInv
    <2>10. /\ retry' \in Retry(Len(managers) + 1)
           /\ retry'.incumbent # 0 => retry'.incumbent \in 0..Len(managers) /\ Has(retry'.incumbent)
      BY <2>8, <2>9, CacheFacts DEF Retry
    <2>11. shared' \in 0..Len(loads)
      <3>1. shared \in 0..Len(loads) /\ Len(loads) \in Nat
        BY CacheFacts
      <3> QED BY <2>a, <3>1
    <2> HIDE DEF Serve, starting, again, refusing
    <2> QED BY <1>1, <1>2, <1>4, <1>8, <1>9, <1>10, <2>a, <2>6, <2>10, <2>11, CacheFacts, LoadLands
  <1>13. CASE cached = 0 /\ seen # 0
    <2>1. refusing = {} /\ (starting # {} \/ again # refusing)
      BY <1>1, <1>6, <1>7, <1>13
    <2>a. /\ cached' = Len(managers) + 1 /\ managers' = Cache!Loaded(seen, FALSE)
          /\ shared' = shared /\ retry' = retry
      BY <1>3, <1>13, <2>1
    <2>2. fetches' = [f \in Fetches |-> IF f \notin Cache!Waiting(l) THEN fetches[f]
                       ELSE Serve(fetches[f], Len(managers) + 1)]
      BY <1>3, <1>13, <2>1
    <2> DEFINE held == [f \in Fetches |-> Len(managers) + 1]
    <2>3. held \in [Fetches -> 0..(Len(managers) + 1)]
      BY CacheFacts
    <2>4. fetches' = [f \in Fetches |->
            IF f \notin Cache!Waiting(l) THEN fetches[f]
            ELSE [fetches[f] EXCEPT !.phase = "serving", !.held = held[f], !.on = 0]]
      BY <2>2
    <2>5. \A f \in Fetches : held[f] = Len(managers) + 1
      OBVIOUS
    <2> HIDE DEF held
    <2>6. /\ fetches' \in [Fetches -> Fetch(Len(managers) + 1, Len(loads))] /\ OnLoads'
          /\ \A f \in Fetches : fetches'[f].phase \in {"again", "serving"} =>
               \/ fetches'[f].held \in 0..Len(managers) /\ Has(fetches'[f].held)
               \/ fetches'[f].held = Len(managers) + 1 /\ seen # 0
      BY <1>13, <2>3, <2>4, <2>5, Served
    <2>7. cached' # cached /\ tool' = 0 /\ tool = 0
      <3>1. Len(managers) \in Nat /\ tool = 0
        BY <1>13, CacheFacts
      <3> QED BY <1>1, <1>13, <2>a, <3>1
    <2>8. Rest' => seen = file
      BY <1>1, <1>4, <1>13 DEF Rest, CacheInv, Current
    <2> HIDE DEF Serve, starting, again, refusing
    <2> QED BY <1>1, <1>2, <1>4, <1>8, <1>13, <2>a, <2>6, <2>7, <2>8, CacheFacts, LoadLands
  <1> QED BY <1>11, <1>12, <1>13

\* Every step keeps the invariant.
LEMMA CacheSteps ==
  ASSUME CacheConstants, CacheInv, [Cache!Next]_Cache!vars
  PROVE  CacheInv'
  <1>1. ASSUME UNCHANGED Cache!vars
        PROVE  CacheInv'
    BY <1>1 DEF CacheInv, CacheTypes, Past, Filled, Has, OnLoads, Tooled, Retired, Current, Rest,
      Cache!vars
  <1>2. ASSUME NEW f \in Fetches, Cache!StartFetch(f) \/ Cache!Traverse(f) \/ Cache!EndFetch(f)
        PROVE  CacheInv'
    BY <1>2, StartFetchKeeps, TraverseKeeps, EndFetchKeeps
  <1>3. ASSUME NEW l \in DOMAIN loads,
               \/ Cache!FetchLoaded(l) \/ Cache!FetchLoadFails(l)
               \/ Cache!Repopulated(l) \/ Cache!ReloadFails(l)
        PROVE  CacheInv'
    <2>1. l \in 1..Len(loads)
      BY CacheCounted DEF CacheInv
    <2> QED
      BY <1>3, <2>1, FetchLoadedKeeps, FetchLoadFailsKeeps, RepopulatedKeeps, ReloadFailsKeeps
  <1> QED BY <1>1, <1>2, <1>3, ExternalWriteKeeps, SaveKeeps, InvalidateKeeps, ToolReloadKeeps,
      ToolReloadedKeeps, RetryFiresKeeps, PollKeeps, ExternalReloadKeeps, ExternalReloadedKeeps
      DEF Cache!Next

\* What the invariant says of the cache.
LEMMA CachePromises ==
  ASSUME CacheInv
  PROVE  Cache!TypeOK /\ Cache!CacheSafe
  <1>1. /\ DOMAIN managers = 1..Len(managers)
        /\ \A m \in 1..Len(managers) : managers[m].seen \in 0..file /\ managers[m].disposed \in BOOLEAN
    BY CacheCounted DEF CacheInv, Past
  <1>2. \A f \in Fetches : fetches[f].phase \in {"idle", "starting", "again", "serving"}
    BY CacheFacts DEF Fetch
  <1>3. watch.load \in 0..Len(loads) /\ watch.timer \in BOOLEAN /\ watch.attempt \in Nat
    BY CacheFacts DEF Watch
  <1>4. Cache!TypeOK
    BY <1>1, <1>2, <1>3, CacheFacts DEF Cache!TypeOK, CacheInv, CacheTypes
  <1>5. Cache!OrphansRetired
    BY <1>1 DEF Cache!OrphansRetired, CacheInv, Retired
  <1>6. Cache!RestMeansCurrent
    <2> SUFFICES ASSUME Cache!AtRest, foreign = file, cached # 0
                 PROVE  managers[cached].seen = file /\ ~managers[cached].disposed
      BY DEF Cache!RestMeansCurrent
    <2>1. Rest
      BY <1>3 DEF Cache!AtRest, Cache!MaxAttempts, Rest
    <2> QED BY <2>1 DEF CacheInv, Current
  <1>7. Cache!ServedPoolKept
    BY CacheFacts DEF Cache!ServedPoolKept, Cache!Empty, Has
  <1> QED BY <1>4, <1>5, <1>6, <1>7 DEF Cache!CacheSafe

\* Manager cache: a manager that is no longer the cached one is retired; at rest after
\* another process's change the cached one is of that version; and a request never trades
\* the accounts it serves from for none.
THEOREM CacheStaysSafe ==
  ASSUME CacheConstants
  PROVE  Cache!Spec => [](Cache!TypeOK /\ Cache!CacheSafe)
  <1>1. Cache!Init => CacheInv
    BY CacheStarts
  <1>2. CacheInv /\ [Cache!Next]_Cache!vars => CacheInv'
    BY CacheSteps
  <1>3. CacheInv => Cache!TypeOK /\ Cache!CacheSafe
    BY CachePromises
  <1> QED BY <1>1, <1>2, <1>3, PTL DEF Cache!Spec

-----------------------------------------------------------------------------
(***************************************************************************)
(* The worktree lock.                                                      *)
(***************************************************************************)
Lock == INSTANCE WorktreeLock WITH MaxClock <- MaxTime, clock <- now

\* Every session has a host.
LockConstants ==
  /\ Procs \cup Old \subseteq DOMAIN Host
  /\ StaleAfter \in Nat /\ Throttle \in Nat /\ MaxTime \in Nat /\ MaxChecks \in Nat

-----------------------------------------------------------------------------
Checks == Procs \X Ops

LockTypes ==
  /\ Lock!TypeOK
  /\ warnings \in [Procs -> [Lock!Hosts -> SUBSET (Nat \X Nat)]]

\* What an unraced check has read is the file still, unless its own session wrote it.
Unspoilt(c) == check[c].seen = lock \/ ~Lock!Held(lock) \/ lock.owner = c[1]

\* A check that writes found the lock its own to take, and writes its session's name.
Checked ==
  \A c \in Checks : check[c].phase # "idle" =>
    /\ check[c].raced = FALSE => Unspoilt(c)
    /\ check[c].phase # "read" =>
         /\ Lock!Ours(c[1], check[c].seen)
         /\ check[c].info.owner = c[1] /\ check[c].info.left = FALSE

\* An unraced release removes the session's own lock.
Leaving ==
  \A p \in Procs :
    leave[p].phase = "unlinking" /\ leave[p].raced = FALSE =>
      ~Lock!Held(lock) \/ lock.owner = p

\* A warning is out of the window, or the session remembers one as late.
Remembered(p, h, a) ==
  a[1] + Throttle <= now \/ (warned[p][h] # MaxTime + 1 /\ a[1] <= warned[p][h])

\* The warnings are numbered.
Warned ==
  \A p \in Procs, h \in Lock!Hosts :
    /\ IsFiniteSet(warnings[p][h])
    /\ \A a \in warnings[p][h] :
         a[2] < Cardinality(warnings[p][h]) /\ a[1] <= now /\ Remembered(p, h, a)

Silent == taken.live = TRUE => taken.raced = TRUE

LockInv ==
  LockTypes /\ Checked /\ Leaving /\ Warned /\ Silent /\ Lock!WarnedOnce /\ Lock!NoLockForgotten

-----------------------------------------------------------------------------
LEMMA LockFacts ==
  ASSUME LockConstants, LockTypes
  PROVE  /\ now \in Nat /\ now <= MaxTime /\ Throttle \in Nat /\ StaleAfter \in Nat
         /\ lock \in Lock!Locks
         /\ \A c \in Checks : /\ c[1] \in Procs /\ c[2] \in Ops /\ c = <<c[1], c[2]>>
                              /\ check[c].phase \in {"idle", "read", "writing", "truncated", "written"}
                              /\ check[c].seen \in Lock!Locks /\ check[c].info \in Lock!Locks
                              /\ check[c].raced \in BOOLEAN
         /\ \A p \in Procs : /\ leave[p].phase \in {"idle", "reading", "unlinking"}
                             /\ leave[p].raced \in BOOLEAN
                             /\ state[p] \in {"up", "leaving", "down", "dead"}
         /\ \A l \in Lock!Locks : l.active \in Nat
  <1>1. now \in Nat /\ now <= MaxTime /\ Throttle \in Nat /\ StaleAfter \in Nat /\ lock \in Lock!Locks
    BY DEF LockConstants, LockTypes, Lock!TypeOK
  <1>2. \A c \in Checks : c[1] \in Procs /\ c[2] \in Ops /\ c = <<c[1], c[2]>>
    BY DEF Checks
  <1>3. \A c \in Checks : /\ check[c].phase \in {"idle", "read", "writing", "truncated", "written"}
                          /\ check[c].seen \in Lock!Locks /\ check[c].info \in Lock!Locks
                          /\ check[c].raced \in BOOLEAN
    BY DEF LockTypes, Lock!TypeOK, Checks, Lock!Checks
  <1>4. \A p \in Procs : /\ leave[p].phase \in {"idle", "reading", "unlinking"}
                         /\ leave[p].raced \in BOOLEAN
                         /\ state[p] \in {"up", "leaving", "down", "dead"}
    BY DEF LockTypes, Lock!TypeOK
  <1>5. \A l \in Lock!Locks : l.active \in Nat
    <2> SUFFICES ASSUME NEW l \in Lock!Locks  PROVE l.active \in Nat
      OBVIOUS
    <2>1. CASE l = Lock!None \/ l = Lock!Torn
      BY <2>1 DEF Lock!None, Lock!Torn, Lock!Free
    <2>2. CASE l \in [owner : Procs \cup Old, active : {0}, left : {TRUE}]
      BY <2>2
    <2>3. CASE l \in [owner : Procs, active : 0 .. MaxTime, left : {FALSE}]
      <3>1. l.active \in 0 .. MaxTime
        BY <2>3
      <3> QED BY <3>1 DEF LockConstants
    <2> QED BY <2>1, <2>2, <2>3 DEF Lock!Locks, Lock!Leftovers
  <1> QED BY <1>1, <1>2, <1>3, <1>4, <1>5

\* What was ours to take stays so: time goes on and a session that ended does not return.
LEMMA StillOurs ==
  ASSUME LockConstants, LockTypes, now' \in Nat, now <= now',
         \A q \in Procs : Lock!Running(q)' => Lock!Running(q),
         NEW p \in Procs, NEW l \in Lock!Locks, Lock!Ours(p, l)
  PROVE  Lock!Ours(p, l)'
  <1>1. l.active \in Nat /\ now \in Nat /\ StaleAfter \in Nat
    BY LockFacts
  <1>2. Lock!Stale(l) => Lock!Stale(l)'
    BY <1>1 DEF Lock!Stale
  <1>3. Lock!Held(l)' <=> Lock!Held(l)
    BY DEF Lock!Held, Lock!None, Lock!Torn, Lock!Free
  <1>4. ~Lock!Alive(l.owner, p) => ~Lock!Alive(l.owner, p)'
    BY DEF Lock!Alive
  <1> QED BY <1>2, <1>3, <1>4 DEF Lock!Ours

\* A session looks, and nobody writes.
LEMMA LookStays ==
  ASSUME LockConstants, LockInv, UNCHANGED lock, now' \in Nat, now <= now',
         \A q \in Procs : Lock!Running(q)' => Lock!Running(q),
         \A c \in Checks :
           \/ check'[c] = check[c] \/ check'[c].phase = "idle"
           \/ check'[c].phase = "read" /\ check'[c].seen = lock
           \/ /\ check[c].phase = "read" /\ check'[c].seen = check[c].seen
              /\ check'[c].raced = check[c].raced /\ Lock!Ours(c[1], check[c].seen)
              /\ check'[c].info.owner = c[1] /\ check'[c].info.left = FALSE
  PROVE  Checked'
  <1> SUFFICES ASSUME NEW c \in Checks, check'[c].phase # "idle"
               PROVE  /\ check'[c].raced = FALSE => Unspoilt(c)'
                      /\ check'[c].phase # "read" =>
                           /\ Lock!Ours(c[1], check[c].seen)'
                           /\ check'[c].info.owner = c[1] /\ check'[c].info.left = FALSE
    BY DEF Checked
  <1>1. c[1] \in Procs /\ check[c].seen \in Lock!Locks
    BY LockFacts DEF LockInv
  <1>2. check'[c].raced = FALSE => Unspoilt(c)'
    <2>1. Lock!Held(lock)' <=> Lock!Held(lock)
      BY DEF Lock!Held, Lock!None, Lock!Torn, Lock!Free
    <2>2. check[c].phase # "idle" /\ check[c].raced = FALSE =>
            check[c].seen = lock \/ ~Lock!Held(lock) \/ lock.owner = c[1]
      BY DEF LockInv, Checked, Unspoilt
    <2> QED BY <2>1, <2>2 DEF Unspoilt
  <1>3. check[c].phase # "idle" /\ check[c].phase # "read" =>
          /\ Lock!Ours(c[1], check[c].seen)
          /\ check[c].info.owner = c[1] /\ check[c].info.left = FALSE
    BY DEF LockInv, Checked
  <1>4. PICK l \in Lock!Locks : l = check[c].seen
    BY <1>1
  <1>5. Lock!Ours(c[1], l) => Lock!Ours(c[1], l)'
    BY <1>1, StillOurs DEF LockInv
  <1>6. ASSUME check'[c].phase # "read"
        PROVE  /\ Lock!Ours(c[1], l) /\ check'[c].seen = l
               /\ check'[c].info.owner = c[1] /\ check'[c].info.left = FALSE
    BY <1>3, <1>4, <1>6
  <1>7. check'[c].phase # "read" => Lock!Ours(c[1], check[c].seen)'
    BY <1>5, <1>6
  <1> QED BY <1>2, <1>6, <1>7

\* A session writes or removes the file: what the others have read of it is spoilt.
LEMMA WriteSpoils ==
  ASSUME LockConstants, LockInv, NEW p \in Procs, UNCHANGED <<now, state>>,
         ~Lock!Held(lock)' \/ lock'.owner = p,
         \A c \in Checks :
           /\ c[1] # p /\ check'[c].phase # "idle" => check'[c].raced = TRUE
           /\ check'[c].phase # "idle" => check[c].phase # "idle"
           /\ check'[c].phase \notin {"idle", "read"} => check[c].phase # "read"
           /\ check'[c].seen = check[c].seen /\ check'[c].info = check[c].info,
         \A q \in Procs : q # p /\ leave'[q].phase = "unlinking" => leave'[q].raced = TRUE
  PROVE  Checked' /\ Leaving'
  <1>1. Leaving'
    BY DEF Leaving, Lock!Held, Lock!None, Lock!Torn, Lock!Free
  <1>2. ASSUME NEW c \in Checks, check'[c].phase # "idle"
        PROVE  /\ check'[c].raced = FALSE => Unspoilt(c)'
               /\ check'[c].phase # "read" =>
                    /\ Lock!Ours(c[1], check[c].seen)'
                    /\ check'[c].info.owner = c[1] /\ check'[c].info.left = FALSE
    <2>1. check'[c].raced = FALSE => Unspoilt(c)'
      BY <1>2 DEF Unspoilt
    <2>2. check'[c].phase # "read" =>
            /\ Lock!Ours(c[1], check[c].seen)
            /\ check[c].info.owner = c[1] /\ check[c].info.left = FALSE
      BY <1>2, LockFacts DEF LockInv, Checked
    <2>3. PICK l \in Lock!Locks : l = check[c].seen /\ l = check'[c].seen
      BY LockFacts DEF LockInv
    <2>4. Lock!Ours(c[1], l) => Lock!Ours(c[1], l)'
      BY DEF Lock!Ours, Lock!Held, Lock!None, Lock!Torn, Lock!Free, Lock!Stale, Lock!Alive, Lock!Running
    <2>5. Lock!Ours(c[1], check[c].seen) => Lock!Ours(c[1], check[c].seen)'
      BY <2>3, <2>4
    <2> QED BY <1>2, <2>1, <2>2, <2>5
  <1> QED BY <1>1, <1>2 DEF Checked

\* Nothing is warned of.
LEMMA NoWarning ==
  ASSUME LockConstants, LockInv, UNCHANGED <<warned, warnings>>, now' \in Nat, now <= now'
  PROVE  Warned' /\ Lock!WarnedOnce'
  <1>1. now \in Nat /\ Throttle \in Nat
    BY LockFacts DEF LockInv
  <1>2. Lock!WarnedOnce'
    BY DEF LockInv, Lock!WarnedOnce
  <1>3. ASSUME NEW p \in Procs, NEW h \in Lock!Hosts
        PROVE  /\ IsFiniteSet(warnings'[p][h])
               /\ \A a \in warnings'[p][h] :
                    a[2] < Cardinality(warnings'[p][h]) /\ a[1] <= now' /\ Remembered(p, h, a)'
    <2>1. /\ IsFiniteSet(warnings[p][h]) /\ warnings[p][h] \in SUBSET (Nat \X Nat)
          /\ \A a \in warnings[p][h] :
               a[2] < Cardinality(warnings[p][h]) /\ a[1] <= now /\ Remembered(p, h, a)
      BY <1>3 DEF LockInv, Warned, LockTypes
    <2>2. \A a \in warnings[p][h] : a[1] <= now' /\ Remembered(p, h, a)'
      <3> SUFFICES ASSUME NEW a \in warnings[p][h]  PROVE a[1] <= now' /\ Remembered(p, h, a)'
        OBVIOUS
      <3>1. a[1] \in Nat /\ a[1] <= now /\ Remembered(p, h, a)
        BY <2>1
      <3> QED BY <1>1, <3>1 DEF Remembered
    <2> QED BY <2>1, <2>2
  <1> QED BY <1>2, <1>3 DEF Warned

\* What holds while nobody writes the lock.
LEMMA QuietStep ==
  ASSUME LockConstants, LockInv, UNCHANGED <<lock, taken>>, now' \in Nat, now <= now',
         \A q \in Procs : Lock!Running(q)' => Lock!Running(q),
         \A c \in Checks :
           \/ check'[c] = check[c] \/ check'[c].phase = "idle"
           \/ check'[c].phase = "read" /\ check'[c].seen = lock
           \/ /\ check[c].phase = "read" /\ check'[c].seen = check[c].seen
              /\ check'[c].raced = check[c].raced /\ Lock!Ours(c[1], check[c].seen)
              /\ check'[c].info.owner = c[1] /\ check'[c].info.left = FALSE,
         \A p \in Procs :
           leave'[p] = leave[p] \/ leave'[p].phase # "unlinking" \/ lock.owner = p
  PROVE  Checked' /\ Leaving' /\ Silent'
  <1>1. Checked'
    BY LookStays
  <1>2. Leaving'
    BY DEF LockInv, Leaving, Lock!Held, Lock!None, Lock!Torn, Lock!Free
  <1>3. Silent'
    BY DEF LockInv, Silent
  <1> QED BY <1>1, <1>2, <1>3

LEMMA LockTickKeeps ==
  ASSUME LockConstants, LockInv, Lock!Tick
  PROVE  LockInv'
  <1>1. now' \in Nat /\ now <= now' /\ now' \in 0 .. MaxTime
    BY LockFacts DEF LockInv, Lock!Tick, LockConstants
  <1>2. LockTypes'
    BY <1>1 DEF LockInv, LockTypes, Lock!TypeOK, Lock!Tick
  <1>3. Lock!NoLockForgotten'
    BY DEF LockInv, Lock!NoLockForgotten, Lock!Tick
  <1>4. Checked' /\ Leaving' /\ Warned' /\ Lock!WarnedOnce' /\ Silent'
    <2>1. /\ UNCHANGED lock /\ UNCHANGED taken /\ UNCHANGED warned /\ UNCHANGED warnings
          /\ UNCHANGED check /\ UNCHANGED leave /\ UNCHANGED state
      BY DEF Lock!Tick
    <2>2. \A q \in Procs : Lock!Running(q)' => Lock!Running(q)
      BY <2>1 DEF Lock!Running
    <2> QED BY <1>1, <2>1, <2>2, QuietStep, NoWarning
  <1> QED BY <1>2, <1>3, <1>4 DEF LockInv

\* A session reads the lock.
LEMMA ReadKeeps ==
  ASSUME LockConstants, LockInv, NEW c \in Checks, Lock!ReadLock(c)
  PROVE  LockInv'
  <1> DEFINE r == [Lock!Idle EXCEPT !.phase = "read", !.seen = lock]
  <1>0. /\ r.phase = "read" /\ r.seen = lock
        /\ r \in [phase : {"idle", "read", "writing", "truncated", "written"},
                  seen : Lock!Locks, info : Lock!Locks, raced : BOOLEAN]
    <2>1. lock \in Lock!Locks /\ Lock!None \in Lock!Locks
      BY LockFacts DEF LockInv, Lock!Locks, Lock!Leftovers
    <2>2. Lock!Idle \in [phase : {"idle", "read", "writing", "truncated", "written"},
                         seen : Lock!Locks, info : Lock!Locks, raced : BOOLEAN]
      BY <2>1 DEF Lock!Idle
    <2> QED BY <2>1, <2>2
  <1>1. /\ UNCHANGED now /\ UNCHANGED lock /\ UNCHANGED taken /\ UNCHANGED warned /\ UNCHANGED warnings
        /\ UNCHANGED leave /\ UNCHANGED state /\ UNCHANGED owned
        /\ check' = [check EXCEPT ![c] = r] /\ check[c].phase = "idle"
        /\ done' = [done EXCEPT ![c[1]] = @ + 1] /\ done[c[1]] < MaxChecks
    BY DEF Lock!ReadLock, Lock!CheckIs
  <1> HIDE DEF r
  <1>2. LockTypes'
    <2>1. check' \in [Checks -> [phase : {"idle", "read", "writing", "truncated", "written"},
                                 seen : Lock!Locks, info : Lock!Locks, raced : BOOLEAN]]
      BY <1>0, <1>1 DEF LockInv, LockTypes, Lock!TypeOK, Checks, Lock!Checks
    <2>2. done' \in [Procs -> 0 .. MaxChecks]
      BY <1>1, LockFacts DEF LockInv, LockTypes, Lock!TypeOK, LockConstants
    <2> QED BY <1>1, <2>1, <2>2 DEF LockInv, LockTypes, Lock!TypeOK, Checks, Lock!Checks
  <1>3. /\ check'[c].phase = "read" /\ check'[c].seen = lock
        /\ \A d \in Checks : d # c => check'[d] = check[d]
    BY <1>0, <1>1 DEF LockInv, LockTypes, Lock!TypeOK, Checks, Lock!Checks
  <1>4. Lock!NoLockForgotten'
    BY <1>1, <1>3 DEF LockInv, Lock!NoLockForgotten, Checks
  <1>5. Checked' /\ Leaving' /\ Warned' /\ Lock!WarnedOnce' /\ Silent'
    <2>1. now' \in Nat /\ now <= now'
      BY <1>1, LockFacts DEF LockInv
    <2>2. \A q \in Procs : Lock!Running(q)' => Lock!Running(q)
      BY <1>1 DEF Lock!Running
    <2> QED BY <1>1, <1>3, <2>1, <2>2, QuietStep, NoWarning
  <1> QED BY <1>2, <1>4, <1>5 DEF LockInv

\* The module's Cardinality is that of FiniteSets.
LEMMA SameCount == \A S : Lock!Cardinality(S) = Cardinality(S)
BY DEF Lock!Cardinality, Cardinality

\* A session warns of a host it has not warned of in this window.
LEMMA WarnKeeps ==
  ASSUME LockConstants, LockInv, NEW p \in Procs, NEW h \in Lock!Hosts, ~Lock!HasWarned(p, h),
         Lock!Warn(p, h), UNCHANGED now
  PROVE  /\ Warned' /\ Lock!WarnedOnce'
         /\ warned' \in [Procs -> [Lock!Hosts -> 0 .. Lock!Never]]
         /\ warnings' \in [Procs -> [Lock!Hosts -> SUBSET (Nat \X Nat)]]
  <1> DEFINE w == warnings[p][h]
             n == Cardinality(w)
             W == w \cup {<<now, n>>}
             f == [g \in Lock!Hosts |->
                     IF g = h THEN now ELSE IF Lock!HasWarned(p, g) THEN warned[p][g] ELSE Lock!Never]
  <1>1. now \in Nat /\ now <= MaxTime /\ Throttle \in Nat /\ MaxTime \in Nat /\ Lock!Never = MaxTime + 1
    BY LockFacts DEF LockInv, LockConstants, Lock!Never
  <1>2. /\ warned \in [Procs -> [Lock!Hosts -> 0 .. Lock!Never]]
        /\ warnings \in [Procs -> [Lock!Hosts -> SUBSET (Nat \X Nat)]]
    BY DEF LockInv, LockTypes, Lock!TypeOK
  <1>3. /\ IsFiniteSet(w) /\ n \in Nat /\ w \subseteq Nat \X Nat
        /\ \A a \in w : a[1] \in Nat /\ a[2] \in Nat /\ a[2] < n /\ a[1] <= now /\ Remembered(p, h, a)
    <2>1. IsFiniteSet(w) /\ w \subseteq Nat \X Nat
      BY <1>2 DEF LockInv, Warned
    <2>2. n \in Nat
      BY <2>1, FS_CardinalityType
    <2>3. \A a \in w : a[2] < n /\ a[1] <= now /\ Remembered(p, h, a)
      BY DEF LockInv, Warned
    <2> QED BY <2>1, <2>2, <2>3
  <1>4. warned' = [warned EXCEPT ![p] = f] /\ warnings' = [warnings EXCEPT ![p][h] = W]
    <2>1. warned' = [warned EXCEPT ![p] = f]
      BY DEF Lock!Warn
    <2>2. warnings' = [warnings EXCEPT ![p][h] = W]
      BY SameCount DEF Lock!Warn
    <2> QED BY <2>1, <2>2
  <1>5. \A a \in w : a[1] + Throttle <= now
    <2> SUFFICES ASSUME NEW a \in w  PROVE a[1] + Throttle <= now
      OBVIOUS
    <2>1. a[1] \in Nat /\ Remembered(p, h, a) /\ warned[p][h] \in Nat
      BY <1>1, <1>2, <1>3
    <2>2. warned[p][h] # MaxTime + 1 => now - warned[p][h] >= Throttle
      BY <1>1, <2>1 DEF Lock!HasWarned
    <2> QED BY <1>1, <2>1, <2>2 DEF Remembered
  <1>6. /\ IsFiniteSet(W) /\ Cardinality(W) = n + 1 /\ W \in SUBSET (Nat \X Nat)
        /\ <<now, n>>[1] = now /\ <<now, n>>[2] = n
    <2>1. <<now, n>>[1] = now /\ <<now, n>>[2] = n /\ <<now, n>> \in Nat \X Nat
      BY <1>1, <1>3
    <2>2. ASSUME <<now, n>> \in w  PROVE FALSE
      <3>1. <<now, n>>[2] < n
        BY <1>3, <2>2
      <3> QED BY <1>3, <2>1, <3>1
    <2>3. IsFiniteSet(W) /\ Cardinality(W) = n + 1
      BY <1>3, <2>2, FS_AddElement
    <2> QED BY <1>3, <2>1, <2>3
  <1>7. /\ warnings' \in [Procs -> [Lock!Hosts -> SUBSET (Nat \X Nat)]]
        /\ warnings'[p][h] = W
        /\ \A q \in Procs, g \in Lock!Hosts : q # p \/ g # h => warnings'[q][g] = warnings[q][g]
    <2> HIDE DEF W
    <2> QED BY <1>2, <1>4, <1>6
  <1>8. f \in [Lock!Hosts -> 0 .. Lock!Never]
    <2>1. \A g \in Lock!Hosts : warned[p][g] \in 0 .. Lock!Never
      BY <1>2
    <2>2. now \in 0 .. Lock!Never /\ Lock!Never \in 0 .. Lock!Never
      BY <1>1
    <2> QED BY <2>1, <2>2
  <1>9. /\ warned' \in [Procs -> [Lock!Hosts -> 0 .. Lock!Never]]
        /\ warned'[p] = f /\ \A q \in Procs : q # p => warned'[q] = warned[q]
    <2> HIDE DEF f
    <2> QED BY <1>2, <1>4, <1>8
  <1>10. Lock!WarnedOnce'
    <2> SUFFICES ASSUME NEW q \in Procs, NEW g \in Lock!Hosts, NEW a \in warnings'[q][g],
                        NEW b \in warnings'[q][g], a[2] < b[2]
                 PROVE  a[1] + Throttle <= b[1]
      BY DEF Lock!WarnedOnce
    <2>1. CASE q # p \/ g # h BY <1>7, <2>1 DEF LockInv, Lock!WarnedOnce
    <2>2. CASE q = p /\ g = h
      <3>1. a \in w \/ a = <<now, n>>
        BY <1>7, <2>2
      <3>2. b \in w \/ b = <<now, n>>
        BY <1>7, <2>2
      <3>3. CASE b \in w /\ a \in w BY <3>3 DEF LockInv, Lock!WarnedOnce
      <3>4. CASE b \in w /\ a = <<now, n>>
        <4>1. a[2] = n /\ b[2] \in Nat /\ b[2] < n
          BY <1>3, <1>6, <3>4
        <4> QED BY <1>3, <4>1
      <3>5. CASE b = <<now, n>> /\ a \in w BY <1>5, <1>6, <3>5
      <3>6. CASE b = <<now, n>> /\ a = <<now, n>> BY <1>3, <1>6, <3>6
      <3> QED BY <3>1, <3>2, <3>3, <3>4, <3>5, <3>6
    <2> QED BY <2>1, <2>2
  <1>11. Warned'
    <2> SUFFICES ASSUME NEW q \in Procs, NEW g \in Lock!Hosts
                 PROVE  /\ IsFiniteSet(warnings'[q][g])
                        /\ \A a \in warnings'[q][g] :
                             /\ a[2] < Cardinality(warnings'[q][g])
                             /\ a[1] <= now' /\ Remembered(q, g, a)'
      BY DEF Warned
    <2>1. CASE q = p /\ g = h
      <3>1. warned'[q][g] = now /\ now # MaxTime + 1
        BY <1>1, <1>9, <2>1
      <3>2. \A a \in W : a[1] \in Nat /\ a[2] \in Nat /\ a[2] < n + 1 /\ a[1] <= now
        <4>1. \A a \in w : a[1] \in Nat /\ a[2] \in Nat /\ a[2] < n + 1 /\ a[1] <= now
          BY <1>3
        <4> QED BY <1>1, <1>3, <1>6, <4>1
      <3>3. \A a \in W : Remembered(q, g, a)'
        BY <3>1, <3>2 DEF Remembered
      <3> QED BY <1>6, <1>7, <2>1, <3>2, <3>3
    <2>2. CASE q # p \/ g # h
      <3>1. /\ warnings'[q][g] = warnings[q][g] /\ IsFiniteSet(warnings[q][g])
            /\ warnings[q][g] \subseteq Nat \X Nat
            /\ \A a \in warnings[q][g] :
                 a[2] < Cardinality(warnings[q][g]) /\ a[1] <= now /\ Remembered(q, g, a)
        BY <1>2, <1>7, <2>2 DEF LockInv, Warned
      <3>2. \A a \in warnings[q][g] : Remembered(q, g, a)'
        <4> SUFFICES ASSUME NEW a \in warnings[q][g]  PROVE Remembered(q, g, a)'
          OBVIOUS
        <4>1. a[1] \in Nat /\ Remembered(q, g, a) /\ warned[q][g] \in Nat
          BY <1>1, <1>2, <3>1
        <4>2. \/ warned'[q][g] = warned[q][g]
              \/ warned'[q][g] = MaxTime + 1 /\ ~Lock!HasWarned(q, g)
          <5>1. CASE q # p BY <1>9, <5>1
          <5>2. CASE q = p BY <1>1, <1>9, <2>2, <5>2
          <5> QED BY <5>1, <5>2
        <4>3. ~Lock!HasWarned(q, g) /\ warned[q][g] # MaxTime + 1 => warned[q][g] + Throttle <= now
          BY <1>1, <4>1 DEF Lock!HasWarned
        <4> QED BY <1>1, <4>1, <4>2, <4>3 DEF Remembered
      <3> QED BY <3>1, <3>2
    <2> QED BY <2>1, <2>2
  <1> QED BY <1>7, <1>9, <1>10, <1>11

\* One check moves on.
CheckTypes ==
  [phase : {"idle", "read", "writing", "truncated", "written"},
   seen : Lock!Locks, info : Lock!Locks, raced : BOOLEAN]

LEMMA CheckPut ==
  ASSUME LockTypes, NEW c \in Checks, NEW r \in CheckTypes, check' = [check EXCEPT ![c] = r]
  PROVE  /\ check' \in [Checks -> CheckTypes] /\ check'[c] = r
         /\ \A d \in Checks : d # c => check'[d] = check[d]
BY DEF LockTypes, Lock!TypeOK, Checks, Lock!Checks, CheckTypes

LEMMA IdleTyped ==
  Lock!Idle \in CheckTypes /\ Lock!Idle.phase = "idle" /\ Lock!Idle.raced = FALSE
  <1>1. Lock!None \in Lock!Locks
    BY DEF Lock!Locks, Lock!Leftovers
  <1> QED BY <1>1 DEF Lock!Idle, CheckTypes

LEMMA OwnInfoTyped ==
  ASSUME LockConstants, LockTypes, NEW p \in Procs
  PROVE  /\ Lock!OwnInfo(p) \in Lock!Locks
         /\ Lock!OwnInfo(p).owner = p /\ Lock!OwnInfo(p).left = FALSE
  <1>1. now \in 0 .. MaxTime
    BY DEF LockTypes, Lock!TypeOK
  <1>2. Lock!OwnInfo(p) \in [owner : Procs, active : 0 .. MaxTime, left : {FALSE}]
    BY <1>1 DEF Lock!OwnInfo
  <1> QED BY <1>2 DEF Lock!Locks, Lock!OwnInfo

\* Another session's lock is one of a session with a host.
LEMMA HeldHost ==
  ASSUME LockConstants, NEW l \in Lock!Locks, Lock!Held(l)
  PROVE  Host[l.owner] \in Lock!Hosts
  <1>1. l.owner \in Procs \cup Old
    <2>1. CASE l \in [owner : Procs \cup Old, active : {0}, left : {TRUE}]
      BY <2>1
    <2>2. CASE l \in [owner : Procs, active : 0 .. MaxTime, left : {FALSE}]
      BY <2>2
    <2> QED BY <2>1, <2>2 DEF Lock!Held, Lock!Locks, Lock!Leftovers
  <1> QED BY <1>1 DEF Lock!Hosts, LockConstants

\* A check that has written nothing yet ends.
LEMMA CheckEnds ==
  ASSUME LockConstants, LockInv, NEW c \in Checks, check[c].phase # "written",
         check' = [check EXCEPT ![c] = Lock!Idle],
         UNCHANGED <<now, lock, state, owned, leave, done, taken>>
  PROVE  /\ check' \in [Checks -> CheckTypes]
         /\ Checked' /\ Leaving' /\ Silent' /\ Lock!NoLockForgotten'
  <1>1. /\ check' \in [Checks -> CheckTypes] /\ check'[c].phase = "idle"
        /\ \A d \in Checks : d # c => check'[d] = check[d]
    BY CheckPut, IdleTyped DEF LockInv
  <1>2. now' \in Nat /\ now <= now'
    BY LockFacts DEF LockInv
  <1>3. \A q \in Procs : Lock!Running(q)' => Lock!Running(q)
    BY DEF Lock!Running
  <1>4. Checked' /\ Leaving' /\ Silent'
    BY <1>1, <1>2, <1>3, QuietStep
  <1>5. Lock!NoLockForgotten'
    BY <1>1 DEF LockInv, Lock!NoLockForgotten, Checks
  <1> QED BY <1>1, <1>4, <1>5

\* A session decides on what it has read.
LEMMA DecideKeeps ==
  ASSUME LockConstants, LockInv, NEW c \in Checks, Lock!Decide(c)
  PROVE  LockInv'
  <1> DEFINE p == c[1]
             r == [check[c] EXCEPT !.phase = "writing", !.info = Lock!OwnInfo(p)]
             h == Host[check[c].seen.owner]
  <1>1. /\ p \in Procs /\ check[c].phase = "read" /\ check[c].seen \in Lock!Locks
        /\ check[c] \in CheckTypes /\ now \in Nat
    BY LockFacts DEF LockInv, LockTypes, Lock!TypeOK, Checks, Lock!Checks, CheckTypes, Lock!Decide
  <1>2. /\ UNCHANGED now /\ UNCHANGED lock /\ UNCHANGED taken /\ UNCHANGED leave
        /\ UNCHANGED state /\ UNCHANGED owned /\ UNCHANGED done
    BY DEF Lock!Decide
  <1>3. CASE Lock!Ours(p, check[c].seen)
    <2>1. check' = [check EXCEPT ![c] = r] /\ UNCHANGED <<warned, warnings>>
      BY <1>3 DEF Lock!Decide, Lock!CheckIs
    <2>2. /\ r \in CheckTypes /\ r.phase = "writing" /\ r.seen = check[c].seen /\ r.raced = check[c].raced
          /\ r.info = Lock!OwnInfo(p)
      <3>1. Lock!OwnInfo(p) \in Lock!Locks
        BY <1>1, OwnInfoTyped DEF LockInv
      <3> QED BY <1>1, <3>1 DEF CheckTypes
    <2>3. r.info.owner = p /\ r.info.left = FALSE
      BY <1>1, <2>2, OwnInfoTyped DEF LockInv
    <2> HIDE DEF r
    <2>4. /\ check' \in [Checks -> CheckTypes] /\ check'[c] = r
          /\ \A d \in Checks : d # c => check'[d] = check[d]
      BY <2>1, <2>2, CheckPut DEF LockInv
    <2>5. LockTypes'
      BY <1>2, <2>1, <2>4 DEF LockInv, LockTypes, Lock!TypeOK, Checks, Lock!Checks, CheckTypes
    <2>6. Lock!NoLockForgotten'
      BY <1>1, <1>2, <2>2, <2>4 DEF LockInv, Lock!NoLockForgotten, Checks
    <2>7. now' \in Nat /\ now <= now'
      BY <1>1, <1>2
    <2>8. \A q \in Procs : Lock!Running(q)' => Lock!Running(q)
      BY <1>2 DEF Lock!Running
    <2>9. \A d \in Checks :
           \/ check'[d] = check[d]
           \/ /\ check[d].phase = "read" /\ check'[d].seen = check[d].seen
              /\ check'[d].raced = check[d].raced /\ Lock!Ours(d[1], check[d].seen)
              /\ check'[d].info.owner = d[1] /\ check'[d].info.left = FALSE
      BY <1>1, <1>3, <2>2, <2>3, <2>4
    <2>10. Checked' /\ Leaving' /\ Silent'
      BY <1>2, <2>7, <2>8, <2>9, QuietStep
    <2>11. Warned' /\ Lock!WarnedOnce'
      BY <2>1, <2>7, NoWarning
    <2> QED BY <2>5, <2>6, <2>10, <2>11 DEF LockInv
  <1>4. CASE ~Lock!Ours(p, check[c].seen)
    <2>1. check' = [check EXCEPT ![c] = Lock!Idle]
      BY <1>4 DEF Lock!Decide, Lock!CheckIs
    <2>2. \/ UNCHANGED <<warned, warnings>>
          \/ ~Lock!HasWarned(p, h) /\ Lock!Warn(p, h)
      BY <1>4 DEF Lock!Decide
    <2>3. /\ check' \in [Checks -> CheckTypes]
          /\ Checked' /\ Leaving' /\ Silent' /\ Lock!NoLockForgotten'
      BY <1>1, <1>2, <2>1, CheckEnds
    <2>4. h \in Lock!Hosts
      BY <1>1, <1>4, HeldHost DEF Lock!Ours
    <2>5. /\ Warned' /\ Lock!WarnedOnce'
          /\ warned' \in [Procs -> [Lock!Hosts -> 0 .. Lock!Never]]
          /\ warnings' \in [Procs -> [Lock!Hosts -> SUBSET (Nat \X Nat)]]
      <3>1. CASE UNCHANGED <<warned, warnings>>
        <4>1. Warned' /\ Lock!WarnedOnce'
          BY <1>1, <1>2, <3>1, NoWarning
        <4> QED BY <3>1, <4>1 DEF LockInv, LockTypes, Lock!TypeOK
      <3>2. CASE ~Lock!HasWarned(p, h) /\ Lock!Warn(p, h)
        <4> HIDE DEF h, p
        <4> QED BY <1>1, <1>2, <2>4, <3>2, WarnKeeps
      <3> QED BY <2>2, <3>1, <3>2
    <2>6. LockTypes'
      BY <1>2, <2>3, <2>5 DEF LockInv, LockTypes, Lock!TypeOK, Checks, Lock!Checks, CheckTypes
    <2> QED BY <2>3, <2>5, <2>6 DEF LockInv
  <1> QED BY <1>3, <1>4

LEMMA FailKeeps ==
  ASSUME LockConstants, LockInv, NEW c \in Checks, Lock!Fail(c)
  PROVE  LockInv'
  <1>1. /\ UNCHANGED now /\ UNCHANGED lock /\ UNCHANGED taken /\ UNCHANGED leave /\ UNCHANGED state
        /\ UNCHANGED owned /\ UNCHANGED done /\ UNCHANGED warned /\ UNCHANGED warnings
        /\ check' = [check EXCEPT ![c] = Lock!Idle] /\ check[c].phase # "written"
    BY DEF Lock!Fail, Lock!CheckIs
  <1>2. /\ check' \in [Checks -> CheckTypes]
        /\ Checked' /\ Leaving' /\ Silent' /\ Lock!NoLockForgotten'
    BY <1>1, CheckEnds
  <1>3. LockTypes'
    BY <1>1, <1>2 DEF LockInv, LockTypes, Lock!TypeOK, Checks, Lock!Checks, CheckTypes
  <1>4. Warned' /\ Lock!WarnedOnce'
    <2>1. now' \in Nat /\ now <= now'
      BY <1>1, LockFacts DEF LockInv
    <2> QED BY <1>1, <2>1, NoWarning
  <1> QED BY <1>2, <1>3, <1>4 DEF LockInv

\* A lock that was written is owned.
LEMMA OwnKeeps ==
  ASSUME LockConstants, LockInv, NEW c \in Checks, Lock!Own(c)
  PROVE  LockInv'
  <1>1. /\ UNCHANGED now /\ UNCHANGED lock /\ UNCHANGED taken /\ UNCHANGED leave /\ UNCHANGED state
        /\ owned' = owned \cup {c[1]} /\ UNCHANGED done /\ UNCHANGED warned /\ UNCHANGED warnings
        /\ check' = [check EXCEPT ![c] = Lock!Idle] /\ c[1] \in Procs
    BY LockFacts DEF LockInv, Lock!Own, Lock!CheckIs
  <1>2. /\ check' \in [Checks -> CheckTypes] /\ check'[c].phase = "idle"
        /\ \A d \in Checks : d # c => check'[d] = check[d]
    BY <1>1, CheckPut, IdleTyped DEF LockInv
  <1>3. LockTypes'
    BY <1>1, <1>2 DEF LockInv, LockTypes, Lock!TypeOK, Checks, Lock!Checks, CheckTypes
  <1>4. now' \in Nat /\ now <= now'
    BY <1>1, LockFacts DEF LockInv
  <1>5. \A q \in Procs : Lock!Running(q)' => Lock!Running(q)
    BY <1>1 DEF Lock!Running
  <1>6. Checked' /\ Leaving' /\ Silent' /\ Warned' /\ Lock!WarnedOnce'
    BY <1>1, <1>2, <1>4, <1>5, QuietStep, NoWarning
  <1>7. Lock!NoLockForgotten'
    <2> SUFFICES ASSUME NEW q \in Procs, state[q] = "up", lock.owner = q, ~lock.left
                 PROVE  q \in owned' \/ \E op \in Ops : check'[<<q, op>>].phase = "written"
      BY <1>1 DEF Lock!NoLockForgotten
    <2>1. q \in owned \/ \E op \in Ops : check[<<q, op>>].phase = "written"
      BY DEF LockInv, Lock!NoLockForgotten
    <2>2. CASE q = c[1] BY <1>1, <2>2
    <2>3. CASE q # c[1]
      <3>1. \A op \in Ops : <<q, op>> \in Checks /\ <<q, op>> # c
        BY <2>3 DEF Checks
      <3> QED BY <1>1, <1>2, <2>1, <3>1
    <2> QED BY <2>2, <2>3
  <1> QED BY <1>3, <1>6, <1>7 DEF LockInv

\* A session's lock is written over: the checks of other sessions are in a race.
LEMMA Spoils ==
  ASSUME NEW p \in Procs, NEW f \in [Checks -> CheckTypes], check' = Lock!SpoilChecks(p, f)
  PROVE  /\ check' \in [Checks -> CheckTypes]
         /\ \A c \in Checks :
              /\ check'[c].phase = f[c].phase /\ check'[c].seen = f[c].seen /\ check'[c].info = f[c].info
              /\ c[1] # p /\ check'[c].phase # "idle" => check'[c].raced = TRUE
              /\ c[1] = p => check'[c] = f[c]
  <1>1. \A c \in Checks : f[c].phase # "idle" =>
          /\ [f[c] EXCEPT !.raced = TRUE] \in CheckTypes
          /\ [f[c] EXCEPT !.raced = TRUE].phase = f[c].phase
          /\ [f[c] EXCEPT !.raced = TRUE].seen = f[c].seen
          /\ [f[c] EXCEPT !.raced = TRUE].info = f[c].info
          /\ [f[c] EXCEPT !.raced = TRUE].raced = TRUE
    <2> SUFFICES ASSUME NEW c \in Checks, NEW x \in CheckTypes, x = f[c]
                 PROVE  /\ [x EXCEPT !.raced = TRUE] \in CheckTypes
                        /\ [x EXCEPT !.raced = TRUE].phase = x.phase
                        /\ [x EXCEPT !.raced = TRUE].seen = x.seen
                        /\ [x EXCEPT !.raced = TRUE].info = x.info
                        /\ [x EXCEPT !.raced = TRUE].raced = TRUE
      OBVIOUS
    <2> QED BY DEF CheckTypes
  <1>2. check' = [c \in Checks |-> IF c[1] = p THEN f[c] ELSE Lock!Raced(f[c])]
    BY DEF Lock!SpoilChecks, Checks, Lock!Checks
  <1>3. \A c \in Checks :
          /\ Lock!Raced(f[c]) \in CheckTypes
          /\ Lock!Raced(f[c]).phase = f[c].phase /\ Lock!Raced(f[c]).seen = f[c].seen
          /\ Lock!Raced(f[c]).info = f[c].info
          /\ f[c].phase # "idle" => Lock!Raced(f[c]).raced = TRUE
    BY <1>1 DEF Lock!Raced
  <1> QED BY <1>2, <1>3

LeaveTypes == [phase : {"idle", "reading", "unlinking"}, seen : Lock!Locks, info : {Lock!None}, raced : BOOLEAN]

LEMMA LeaveSpoils ==
  ASSUME LockTypes, NEW p \in Procs
  PROVE  /\ Lock!SpoilLeaves(p) \in [Procs -> LeaveTypes]
         /\ Lock!SpoilLeaves(p)[p] = leave[p]
         /\ \A q \in Procs : q # p /\ Lock!SpoilLeaves(p)[q].phase = "unlinking" =>
              Lock!SpoilLeaves(p)[q].raced = TRUE
  <1>1. leave \in [Procs -> LeaveTypes]
    BY DEF LockTypes, Lock!TypeOK, LeaveTypes
  <1>2. \A q \in Procs :
          /\ [leave[q] EXCEPT !.raced = TRUE] \in LeaveTypes
          /\ [leave[q] EXCEPT !.raced = TRUE].raced = TRUE
    <2> SUFFICES ASSUME NEW q \in Procs, NEW x \in LeaveTypes, x = leave[q]
                 PROVE  /\ [x EXCEPT !.raced = TRUE] \in LeaveTypes
                        /\ [x EXCEPT !.raced = TRUE].raced = TRUE
      BY <1>1
    <2> QED BY DEF LeaveTypes
  <1>3. \A q \in Procs :
          /\ Lock!Raced(leave[q]) \in LeaveTypes
          /\ Lock!Raced(leave[q]).phase = "unlinking" => Lock!Raced(leave[q]).raced = TRUE
    BY <1>1, <1>2 DEF Lock!Raced
  <1> QED BY <1>1, <1>3 DEF Lock!SpoilLeaves

\* Taking a lock: unraced, it is not a live session's.
LEMMA TakesSilently ==
  ASSUME LockConstants, LockInv, NEW p \in Procs, NEW raced \in BOOLEAN, taken' = Lock!Took(p, raced),
         raced = FALSE => Lock!Ours(p, lock)
  PROVE  Silent'
  <1>1. CASE raced = TRUE BY <1>1 DEF Silent, Lock!Took
  <1>2. CASE raced = FALSE
    <2>1. ~(Lock!Held(lock) /\ lock.owner # p /\ ~Lock!Stale(lock) /\ Lock!Alive(lock.owner, p))
      BY <1>2 DEF Lock!Ours
    <2>2. taken' = [by |-> p, lock |-> lock, live |-> FALSE, raced |-> raced]
      BY <2>1 DEF Lock!Took
    <2> QED BY <2>2 DEF Silent
  <1> QED BY <1>1, <1>2

\* A check takes the lock, or completes it.
LEMMA TakeStep ==
  ASSUME LockConstants, LockInv, NEW c \in Checks, NEW phase \in {"truncated", "written"},
         check[c].phase \in {"writing", "truncated"}, lock' \in Lock!Locks,
         ~Lock!Held(lock)' \/ lock'.owner = c[1],
         taken' = Lock!Took(c[1], check[c].raced),
         check' = Lock!SpoilChecks(c[1], [check EXCEPT ![c].phase = phase]),
         leave' = Lock!SpoilLeaves(c[1]),
         UNCHANGED now, UNCHANGED state, UNCHANGED owned, UNCHANGED warned, UNCHANGED warnings, UNCHANGED done
  PROVE  /\ LockTypes' /\ Checked' /\ Leaving' /\ Silent' /\ Warned' /\ Lock!WarnedOnce'
         /\ check'[c].phase = phase
  <1> DEFINE f == [check EXCEPT ![c].phase = phase]
  <1>1. c[1] \in Procs /\ check \in [Checks -> CheckTypes] /\ check[c].raced \in BOOLEAN
    BY LockFacts DEF LockInv, LockTypes, Lock!TypeOK, Checks, Lock!Checks, CheckTypes
  <1>2. /\ f \in [Checks -> CheckTypes] /\ f[c].phase = phase
        /\ f[c].seen = check[c].seen /\ f[c].info = check[c].info
        /\ \A d \in Checks : d # c => f[d] = check[d]
    BY <1>1 DEF CheckTypes
  <1> HIDE DEF f
  <1>3. PICK p \in Procs : p = c[1]
    BY <1>1
  <1>4. check' = Lock!SpoilChecks(p, f) /\ leave' = Lock!SpoilLeaves(p)
    BY <1>3 DEF f
  <1>5. /\ check' \in [Checks -> CheckTypes]
        /\ \A d \in Checks :
             /\ check'[d].phase = f[d].phase /\ check'[d].seen = f[d].seen /\ check'[d].info = f[d].info
             /\ d[1] # p /\ check'[d].phase # "idle" => check'[d].raced = TRUE
             /\ d[1] = p => check'[d] = f[d]
    BY <1>2, <1>4, Spoils
  <1>6. /\ leave' \in [Procs -> LeaveTypes]
        /\ \A q \in Procs : q # p /\ leave'[q].phase = "unlinking" => leave'[q].raced = TRUE
    BY <1>4, LeaveSpoils DEF LockInv
  <1>7. LockTypes'
    BY <1>5, <1>6 DEF LockInv, LockTypes, Lock!TypeOK, Checks, Lock!Checks, CheckTypes, LeaveTypes
  <1>8. Checked' /\ Leaving'
    <2>1. \A d \in Checks :
            /\ d[1] # p /\ check'[d].phase # "idle" => check'[d].raced = TRUE
            /\ check'[d].phase # "idle" => check[d].phase # "idle"
            /\ check'[d].phase \notin {"idle", "read"} => check[d].phase # "read"
            /\ check'[d].seen = check[d].seen /\ check'[d].info = check[d].info
      <3> SUFFICES ASSUME NEW d \in Checks
                   PROVE  /\ d[1] # p /\ check'[d].phase # "idle" => check'[d].raced = TRUE
                          /\ check'[d].phase # "idle" => check[d].phase # "idle"
                          /\ check'[d].phase \notin {"idle", "read"} => check[d].phase # "read"
                          /\ check'[d].seen = check[d].seen /\ check'[d].info = check[d].info
        OBVIOUS
      <3>1. check'[d].phase = f[d].phase /\ check'[d].seen = f[d].seen /\ check'[d].info = f[d].info
        BY <1>5
      <3>2. d # c => f[d] = check[d]
        BY <1>2
      <3>3. d[1] # p /\ check'[d].phase # "idle" => check'[d].raced = TRUE
        BY <1>5
      <3>4. check[c].phase \notin {"idle", "read"}
        OBVIOUS
      <3> QED BY <1>2, <3>1, <3>2, <3>3, <3>4
    <2>2. ~Lock!Held(lock)' \/ lock'.owner = p
      BY <1>3
    <2>3. \A q \in Procs : q # p /\ leave'[q].phase = "unlinking" => leave'[q].raced = TRUE
      BY <1>6
    <2>4. UNCHANGED <<now, state>>
      OBVIOUS
    <2> QED BY <2>1, <2>2, <2>3, <2>4, WriteSpoils
  <1>9. Silent'
    <2>1. check[c].raced = FALSE => Lock!Ours(c[1], lock)
      <3>1. check[c].phase # "idle" /\ check[c].phase # "read"
        OBVIOUS
      <3>2. /\ check[c].raced = FALSE => Unspoilt(c)
            /\ Lock!Ours(c[1], check[c].seen)
        BY <3>1 DEF LockInv, Checked
      <3> QED BY <3>2 DEF Unspoilt, Lock!Ours
    <2>2. PICK raced \in BOOLEAN : raced = check[c].raced
      BY <1>1
    <2>3. taken' = Lock!Took(p, raced) /\ (raced = FALSE => Lock!Ours(p, lock))
      BY <1>3, <2>1, <2>2
    <2> QED BY <2>3, TakesSilently
  <1>10. Warned' /\ Lock!WarnedOnce'
    <2>1. now' \in Nat /\ now <= now'
      BY LockFacts DEF LockInv
    <2> QED BY <2>1, NoWarning
  <1>11. check'[c].phase = phase
    BY <1>2, <1>5
  <1> QED BY <1>7, <1>8, <1>9, <1>10, <1>11

LEMMA TruncateKeeps ==
  ASSUME LockConstants, LockInv, NEW c \in Checks, Lock!Truncate(c)
  PROVE  LockInv'
  <1>1. /\ lock' = Lock!Torn /\ taken' = Lock!Took(c[1], check[c].raced)
        /\ check' = Lock!SpoilChecks(c[1], [check EXCEPT ![c].phase = "truncated"])
        /\ leave' = Lock!SpoilLeaves(c[1]) /\ check[c].phase = "writing"
    BY DEF Lock!Truncate
  <1>2. /\ UNCHANGED now /\ UNCHANGED state /\ UNCHANGED owned /\ UNCHANGED warned
        /\ UNCHANGED warnings /\ UNCHANGED done
    BY DEF Lock!Truncate
  <1>3. lock' \in Lock!Locks /\ ~Lock!Held(lock)' /\ lock'.left = TRUE
    BY <1>1 DEF Lock!Locks, Lock!Leftovers, Lock!Held, Lock!Torn, Lock!None, Lock!Free
  <1>4. LockTypes' /\ Checked' /\ Leaving' /\ Silent' /\ Warned' /\ Lock!WarnedOnce'
    BY <1>1, <1>2, <1>3, TakeStep
  <1>5. Lock!NoLockForgotten'
    BY <1>3 DEF Lock!NoLockForgotten
  <1> QED BY <1>4, <1>5 DEF LockInv

LEMMA WriteKeeps ==
  ASSUME LockConstants, LockInv, NEW c \in Checks, Lock!Write(c)
  PROVE  LockInv'
  <1>1. /\ lock' = check[c].info /\ taken' = Lock!Took(c[1], check[c].raced)
        /\ check' = Lock!SpoilChecks(c[1], [check EXCEPT ![c].phase = "written"])
        /\ leave' = Lock!SpoilLeaves(c[1]) /\ check[c].phase = "truncated"
    BY DEF Lock!Write
  <1>2. /\ UNCHANGED now /\ UNCHANGED state /\ UNCHANGED owned /\ UNCHANGED warned
        /\ UNCHANGED warnings /\ UNCHANGED done
    BY DEF Lock!Write
  <1>3. lock' \in Lock!Locks /\ lock'.owner = c[1]
    BY <1>1, LockFacts DEF LockInv, Checked
  <1>4. /\ LockTypes' /\ Checked' /\ Leaving' /\ Silent' /\ Warned' /\ Lock!WarnedOnce'
        /\ check'[c].phase = "written"
    BY <1>1, <1>2, <1>3, TakeStep
  <1>5. Lock!NoLockForgotten'
    <2> SUFFICES ASSUME NEW q \in Procs, q = c[1]
                 PROVE  \E op \in Ops : check'[<<q, op>>].phase = "written"
      BY <1>3 DEF Lock!NoLockForgotten
    <2>1. c[2] \in Ops /\ c = <<q, c[2]>>
      BY LockFacts DEF LockInv
    <2> QED BY <1>4, <2>1
  <1> QED BY <1>4, <1>5 DEF LockInv

\* A session that leaves gives up what it owns.
LEMMA ShutdownKeeps ==
  ASSUME LockConstants, LockInv, NEW p \in Procs, Lock!Shutdown(p)
  PROVE  LockInv'
  <1> DEFINE r == IF p \in owned THEN [Lock!Idle EXCEPT !.phase = "reading"] ELSE Lock!Idle
  <1>1. /\ UNCHANGED now /\ UNCHANGED lock /\ UNCHANGED check /\ UNCHANGED warned
        /\ UNCHANGED warnings /\ UNCHANGED done /\ UNCHANGED taken
        /\ state' = [state EXCEPT ![p] = "leaving"] /\ state[p] = "up" /\ owned' = owned \ {p}
        /\ leave' = [leave EXCEPT ![p] = r]
    BY DEF Lock!Shutdown
  <1>2. r \in LeaveTypes /\ r.phase # "unlinking"
    <2>1. Lock!None \in Lock!Locks
      BY DEF Lock!Locks, Lock!Leftovers
    <2>2. Lock!Idle \in LeaveTypes /\ Lock!Idle.phase = "idle"
      BY <2>1 DEF Lock!Idle, LeaveTypes
    <2>3. PICK i \in LeaveTypes : i = Lock!Idle /\ i.phase = "idle"
      BY <2>2
    <2>4. [i EXCEPT !.phase = "reading"] \in LeaveTypes /\ [i EXCEPT !.phase = "reading"].phase = "reading"
      BY DEF LeaveTypes
    <2> QED BY <2>3, <2>4
  <1> HIDE DEF r
  <1>3. /\ leave' \in [Procs -> LeaveTypes] /\ leave'[p] = r
        /\ \A q \in Procs : q # p => leave'[q] = leave[q]
    BY <1>1, <1>2 DEF LockInv, LockTypes, Lock!TypeOK, LeaveTypes
  <1>4. /\ state' \in [Procs -> {"up", "leaving", "down", "dead"}] /\ state'[p] = "leaving"
        /\ \A q \in Procs : q # p => state'[q] = state[q]
    BY <1>1 DEF LockInv, LockTypes, Lock!TypeOK
  <1>5. LockTypes'
    BY <1>1, <1>3, <1>4 DEF LockInv, LockTypes, Lock!TypeOK, LeaveTypes
  <1>6. Lock!NoLockForgotten'
    BY <1>1, <1>4 DEF LockInv, Lock!NoLockForgotten
  <1>7. now' \in Nat /\ now <= now'
    BY <1>1, LockFacts DEF LockInv
  <1>8. \A q \in Procs : Lock!Running(q)' => Lock!Running(q)
    BY <1>1, <1>4 DEF Lock!Running
  <1>9. Checked' /\ Leaving' /\ Silent' /\ Warned' /\ Lock!WarnedOnce'
    BY <1>1, <1>2, <1>3, <1>7, <1>8, QuietStep, NoWarning
  <1> QED BY <1>5, <1>6, <1>9 DEF LockInv

\* The cleanup reads the lock, and removes it if it is the session's.
LEMMA ReleaseReadKeeps ==
  ASSUME LockConstants, LockInv, NEW p \in Procs, Lock!ReleaseRead(p)
  PROVE  LockInv'
  <1> DEFINE r == IF Lock!Held(lock) /\ lock.owner = p
                    THEN [Lock!Idle EXCEPT !.phase = "unlinking", !.seen = lock] ELSE Lock!Idle
  <1>1. /\ UNCHANGED now /\ UNCHANGED lock /\ UNCHANGED check /\ UNCHANGED warned
        /\ UNCHANGED warnings /\ UNCHANGED done /\ UNCHANGED taken
        /\ UNCHANGED state /\ UNCHANGED owned
        /\ leave' = [leave EXCEPT ![p] = r]
    BY DEF Lock!ReleaseRead
  <1>2. r \in LeaveTypes /\ (r.phase = "unlinking" => lock.owner = p)
    <2>1. Lock!None \in Lock!Locks /\ lock \in Lock!Locks
      BY LockFacts DEF LockInv, Lock!Locks, Lock!Leftovers
    <2>2. Lock!Idle \in LeaveTypes /\ Lock!Idle.phase = "idle"
      BY <2>1 DEF Lock!Idle, LeaveTypes
    <2>3. PICK i \in LeaveTypes : i = Lock!Idle /\ i.phase = "idle"
      BY <2>2
    <2>4. [i EXCEPT !.phase = "unlinking", !.seen = lock] \in LeaveTypes
      BY <2>1 DEF LeaveTypes
    <2> QED BY <2>3, <2>4
  <1> HIDE DEF r
  <1>3. /\ leave' \in [Procs -> LeaveTypes] /\ leave'[p] = r
        /\ \A q \in Procs : q # p => leave'[q] = leave[q]
    BY <1>1, <1>2 DEF LockInv, LockTypes, Lock!TypeOK, LeaveTypes
  <1>4. LockTypes'
    BY <1>1, <1>3 DEF LockInv, LockTypes, Lock!TypeOK, LeaveTypes
  <1>5. Lock!NoLockForgotten'
    BY <1>1 DEF LockInv, Lock!NoLockForgotten
  <1>6. now' \in Nat /\ now <= now'
    BY <1>1, LockFacts DEF LockInv
  <1>7. \A q \in Procs : Lock!Running(q)' => Lock!Running(q)
    BY <1>1 DEF Lock!Running
  <1>8. Checked' /\ Leaving' /\ Silent' /\ Warned' /\ Lock!WarnedOnce'
    BY <1>1, <1>2, <1>3, <1>6, <1>7, QuietStep, NoWarning
  <1> QED BY <1>4, <1>5, <1>8 DEF LockInv

LEMMA UnlinkKeeps ==
  ASSUME LockConstants, LockInv, NEW p \in Procs, Lock!Unlink(p)
  PROVE  LockInv'
  <1>1. /\ UNCHANGED now /\ UNCHANGED state /\ UNCHANGED owned /\ UNCHANGED warned
        /\ UNCHANGED warnings /\ UNCHANGED done
        /\ leave[p].phase = "unlinking" /\ leave[p].raced \in BOOLEAN
    BY LockFacts DEF LockInv, Lock!Unlink
  <1>2. Lock!Idle \in LeaveTypes /\ Lock!Idle.phase = "idle"
    <2>1. Lock!None \in Lock!Locks
      BY DEF Lock!Locks, Lock!Leftovers
    <2> QED BY <2>1 DEF Lock!Idle, LeaveTypes
  <1>3. now' \in Nat /\ now <= now'
    BY <1>1, LockFacts DEF LockInv
  <1>4. Warned' /\ Lock!WarnedOnce'
    BY <1>1, <1>3, NoWarning
  <1>5. CASE /\ lock' = Lock!None /\ taken' = Lock!Took(p, leave[p].raced)
             /\ check' = Lock!SpoilChecks(p, check)
             /\ leave' = [Lock!SpoilLeaves(p) EXCEPT ![p] = Lock!Idle]
    <2>1. check \in [Checks -> CheckTypes]
      BY DEF LockInv, LockTypes, Lock!TypeOK, Checks, Lock!Checks, CheckTypes
    <2>2. /\ check' \in [Checks -> CheckTypes]
          /\ \A d \in Checks :
               /\ check'[d].phase = check[d].phase /\ check'[d].seen = check[d].seen
               /\ check'[d].info = check[d].info
               /\ d[1] # p /\ check'[d].phase # "idle" => check'[d].raced = TRUE
      BY <1>5, <2>1, Spoils
    <2>3. /\ leave' \in [Procs -> LeaveTypes]
          /\ \A q \in Procs : q # p /\ leave'[q].phase = "unlinking" => leave'[q].raced = TRUE
      <3>1. PICK f \in [Procs -> LeaveTypes] :
              /\ f = Lock!SpoilLeaves(p)
              /\ \A q \in Procs : q # p /\ f[q].phase = "unlinking" => f[q].raced = TRUE
        BY LeaveSpoils DEF LockInv
      <3>2. leave' = [f EXCEPT ![p] = Lock!Idle]
        BY <1>5, <3>1
      <3> QED BY <1>2, <3>1, <3>2
    <2>4. lock' \in Lock!Locks /\ ~Lock!Held(lock)' /\ lock'.left = TRUE
      BY <1>5 DEF Lock!Locks, Lock!Leftovers, Lock!Held, Lock!None, Lock!Free
    <2>5. LockTypes'
      BY <1>1, <2>2, <2>3, <2>4 DEF LockInv, LockTypes, Lock!TypeOK, Checks, Lock!Checks, CheckTypes, LeaveTypes
    <2>6. Checked' /\ Leaving'
      <3>1. ASSUME NEW d \in Checks
            PROVE  /\ d[1] # p /\ check'[d].phase # "idle" => check'[d].raced = TRUE
                   /\ check'[d].phase # "idle" => check[d].phase # "idle"
                   /\ check'[d].phase \notin {"idle", "read"} => check[d].phase # "read"
                   /\ check'[d].seen = check[d].seen /\ check'[d].info = check[d].info
        BY <2>2
      <3>2. \A q \in Procs : q # p /\ leave'[q].phase = "unlinking" => leave'[q].raced = TRUE
        BY <2>3
      <3>3. UNCHANGED <<now, state>>
        BY <1>1
      <3>4. ~Lock!Held(lock)' \/ lock'.owner = p
        BY <2>4
      <3> QED BY <3>1, <3>2, <3>3, <3>4, WriteSpoils
    <2>7. Silent'
      <3>1. leave[p].raced = FALSE => Lock!Ours(p, lock)
        BY <1>1 DEF LockInv, Leaving, Lock!Ours
      <3>2. PICK raced \in BOOLEAN : raced = leave[p].raced
        BY <1>1
      <3> QED BY <1>5, <3>1, <3>2, TakesSilently
    <2>8. Lock!NoLockForgotten'
      BY <2>4 DEF Lock!NoLockForgotten
    <2> QED BY <1>4, <2>5, <2>6, <2>7, <2>8 DEF LockInv
  <1>6. CASE leave' = [leave EXCEPT ![p] = Lock!Idle] /\ UNCHANGED <<lock, taken, check>>
    <2>1. /\ leave' \in [Procs -> LeaveTypes] /\ leave'[p].phase = "idle"
          /\ \A q \in Procs : q # p => leave'[q] = leave[q]
      BY <1>2, <1>6 DEF LockInv, LockTypes, Lock!TypeOK, LeaveTypes
    <2>2. LockTypes'
      BY <1>1, <1>6, <2>1 DEF LockInv, LockTypes, Lock!TypeOK, LeaveTypes
    <2>3. Lock!NoLockForgotten'
      BY <1>1, <1>6 DEF LockInv, Lock!NoLockForgotten
    <2>4. \A q \in Procs : Lock!Running(q)' => Lock!Running(q)
      BY <1>1 DEF Lock!Running
    <2>5. Checked' /\ Leaving' /\ Silent'
      BY <1>3, <1>6, <2>1, <2>4, QuietStep
    <2> QED BY <1>4, <2>2, <2>3, <2>5 DEF LockInv
  <1> QED BY <1>5, <1>6 DEF Lock!Unlink

\* A session's checks end with it.
LEMMA ChecksEnd ==
  ASSUME LockConstants, LockInv, NEW p \in Procs, NEW after \in {"down", "dead"},
         state' = [state EXCEPT ![p] = after], check' = Lock!NoChecks(p),
         leave' \in [Procs -> LeaveTypes],
         \A q \in Procs : leave'[q] = leave[q] \/ leave'[q].phase = "idle",
         owned' \subseteq owned, \A q \in owned : q # p => q \in owned',
         UNCHANGED now, UNCHANGED lock, UNCHANGED warned, UNCHANGED warnings, UNCHANGED done, UNCHANGED taken
  PROVE  LockInv'
  <1>1. /\ check' \in [Checks -> CheckTypes]
        /\ \A d \in Checks : /\ d[1] # p => check'[d] = check[d]
                             /\ d[1] = p => check'[d].phase = "idle"
    BY IdleTyped DEF LockInv, LockTypes, Lock!TypeOK, Lock!NoChecks, Checks, Lock!Checks, CheckTypes
  <1>2. /\ state' \in [Procs -> {"up", "leaving", "down", "dead"}] /\ state'[p] = after
        /\ \A q \in Procs : q # p => state'[q] = state[q]
    BY DEF LockInv, LockTypes, Lock!TypeOK
  <1>3. LockTypes'
    BY <1>1, <1>2 DEF LockInv, LockTypes, Lock!TypeOK, Checks, Lock!Checks, CheckTypes, LeaveTypes
  <1>4. Lock!NoLockForgotten'
    <2> SUFFICES ASSUME NEW q \in Procs, q # p, state[q] = "up", lock.owner = q, ~lock.left
                 PROVE  q \in owned' \/ \E op \in Ops : check'[<<q, op>>].phase = "written"
      BY <1>2 DEF Lock!NoLockForgotten
    <2>1. q \in owned \/ \E op \in Ops : check[<<q, op>>].phase = "written"
      BY DEF LockInv, Lock!NoLockForgotten
    <2>2. ASSUME NEW op \in Ops  PROVE check'[<<q, op>>] = check[<<q, op>>]
      <3>1. <<q, op>> \in Checks /\ <<q, op>>[1] # p
        BY DEF Checks
      <3>2. PICK d \in Checks : d = <<q, op>> /\ d[1] # p
        BY <3>1
      <3>3. d[1] # p => check'[d] = check[d]
        BY <1>1
      <3> QED BY <3>2, <3>3
    <2>3. q \in owned => q \in owned'
      OBVIOUS
    <2> QED BY <2>1, <2>2, <2>3
  <1>5. now' \in Nat /\ now <= now'
    BY LockFacts DEF LockInv
  <1>6. \A q \in Procs : Lock!Running(q)' => Lock!Running(q)
    BY <1>2 DEF Lock!Running
  <1>7. ASSUME NEW d \in Checks  PROVE check'[d] = check[d] \/ check'[d].phase = "idle"
    <2>1. CASE d[1] = p BY <1>1, <2>1
    <2>2. d[1] # p => check'[d] = check[d]
      BY <1>1
    <2> QED BY <2>1, <2>2
  <1>8. \A q \in Procs : leave'[q] = leave[q] \/ leave'[q].phase # "unlinking"
    OBVIOUS
  <1>9. Checked' /\ Leaving' /\ Silent'
    BY <1>5, <1>6, <1>7, <1>8, QuietStep
  <1>10. Warned' /\ Lock!WarnedOnce'
    BY <1>5, NoWarning
  <1> QED BY <1>3, <1>4, <1>9, <1>10 DEF LockInv

LEMMA ExitKeeps ==
  ASSUME LockConstants, LockInv, NEW p \in Procs, Lock!Exit(p)
  PROVE  LockInv'
  <1>1. /\ UNCHANGED now /\ UNCHANGED lock /\ UNCHANGED leave /\ UNCHANGED owned /\ UNCHANGED warned
        /\ UNCHANGED warnings /\ UNCHANGED done /\ UNCHANGED taken
        /\ state' = [state EXCEPT ![p] = "down"] /\ check' = Lock!NoChecks(p)
    BY DEF Lock!Exit
  <1>2. leave' \in [Procs -> LeaveTypes]
    BY <1>1 DEF LockInv, LockTypes, Lock!TypeOK, LeaveTypes
  <1> QED BY <1>1, <1>2, ChecksEnd

LEMMA CrashKeeps ==
  ASSUME LockConstants, LockInv, NEW p \in Procs, Lock!Crash(p)
  PROVE  LockInv'
  <1>1. /\ UNCHANGED now /\ UNCHANGED lock /\ owned' = owned \ {p} /\ UNCHANGED warned
        /\ UNCHANGED warnings /\ UNCHANGED done /\ UNCHANGED taken
        /\ state' = [state EXCEPT ![p] = "dead"] /\ check' = Lock!NoChecks(p)
        /\ leave' = [leave EXCEPT ![p] = Lock!Idle]
    BY DEF Lock!Crash
  <1>2. Lock!Idle \in LeaveTypes /\ Lock!Idle.phase = "idle"
    <2>1. Lock!None \in Lock!Locks
      BY DEF Lock!Locks, Lock!Leftovers
    <2> QED BY <2>1 DEF Lock!Idle, LeaveTypes
  <1>3. /\ leave' \in [Procs -> LeaveTypes]
        /\ \A q \in Procs : leave'[q] = leave[q] \/ leave'[q].phase = "idle"
    BY <1>1, <1>2 DEF LockInv, LockTypes, Lock!TypeOK, LeaveTypes
  <1> QED BY <1>1, <1>3, ChecksEnd

LEMMA LockStarts ==
  ASSUME LockConstants, Lock!Init
  PROVE  LockInv
  <1>1. /\ now = 0 /\ lock \in Lock!Leftovers /\ state = [p \in Procs |-> "up"] /\ owned = {}
        /\ leave = [p \in Procs |-> Lock!Idle] /\ check = [c \in Checks |-> Lock!Idle]
        /\ warned = [p \in Procs |-> [h \in Lock!Hosts |-> Lock!Never]]
        /\ warnings = [p \in Procs |-> [h \in Lock!Hosts |-> {}]]
        /\ done = [p \in Procs |-> 0] /\ taken = Lock!Nothing
    BY DEF Lock!Init, Checks, Lock!Checks
  <1>2. /\ Lock!Idle \in LeaveTypes /\ Lock!Idle.phase = "idle" /\ Lock!Idle \in CheckTypes
    <2>1. Lock!None \in Lock!Locks
      BY DEF Lock!Locks, Lock!Leftovers
    <2> QED BY <2>1, IdleTyped DEF Lock!Idle, LeaveTypes
  <1>3. /\ \A p \in Procs : leave[p].phase = "idle" /\ leave[p] \in LeaveTypes
        /\ \A c \in Checks : check[c].phase = "idle" /\ check[c] \in CheckTypes
    BY <1>1, <1>2
  <1>4. LockTypes
    <2>1. leave \in [Procs -> LeaveTypes] /\ check \in [Checks -> CheckTypes]
      BY <1>1, <1>2
    <2>2. Lock!Never = MaxTime + 1 /\ MaxTime \in Nat /\ MaxChecks \in Nat
      BY DEF Lock!Never, LockConstants
    <2>3. warned \in [Procs -> [Lock!Hosts -> 0 .. Lock!Never]] /\ done \in [Procs -> 0 .. MaxChecks]
      BY <1>1, <2>2
    <2>4. warnings \in [Procs -> [Lock!Hosts -> SUBSET (Nat \X Nat)]]
      BY <1>1
    <2>5. now \in 0 .. MaxTime
      BY <1>1, <2>2
    <2>6. lock \in Lock!Locks /\ owned \subseteq Procs
      BY <1>1 DEF Lock!Locks
    <2>7. state \in [Procs -> {"up", "leaving", "down", "dead"}]
      BY <1>1
    <2> QED
      BY <2>1, <2>3, <2>4, <2>5, <2>6, <2>7 DEF LockTypes, Lock!TypeOK, LeaveTypes, CheckTypes, Checks, Lock!Checks
  <1>5. Checked /\ Leaving
    BY <1>3 DEF Checked, Leaving
  <1>6. \A p \in Procs, h \in Lock!Hosts : warnings[p][h] = {}
    BY <1>1
  <1>7. Warned /\ Lock!WarnedOnce
    BY <1>6, FS_EmptySet DEF Warned, Lock!WarnedOnce
  <1>8. Silent
    BY <1>1 DEF Silent, Lock!Nothing
  <1>9. Lock!NoLockForgotten
    <2>1. lock.left = TRUE
      <3>1. CASE lock = Lock!None BY <3>1 DEF Lock!None, Lock!Free
      <3>2. CASE lock = Lock!Torn BY <3>2 DEF Lock!Torn, Lock!Free
      <3>3. CASE lock \in [owner : Procs \cup Old, active : {0}, left : {TRUE}]
        BY <3>3
      <3> QED BY <1>1, <3>1, <3>2, <3>3 DEF Lock!Leftovers
    <2>2. ASSUME NEW p \in Procs, ~lock.left  PROVE FALSE
      BY <2>1, <2>2, Zenon
    <2> QED BY <2>2 DEF Lock!NoLockForgotten
  <1> QED BY <1>4, <1>5, <1>7, <1>8, <1>9 DEF LockInv

LEMMA LockSteps ==
  ASSUME LockConstants, LockInv, [Lock!Next]_Lock!vars
  PROVE  LockInv'
  <1>1. CASE Lock!Tick BY <1>1, LockTickKeeps
  <1>2. ASSUME NEW c \in Checks, Lock!ReadLock(c) PROVE LockInv'
    BY <1>2, ReadKeeps
  <1>3. ASSUME NEW c \in Checks, Lock!Decide(c) PROVE LockInv'
    BY <1>3, DecideKeeps
  <1>4. ASSUME NEW c \in Checks, Lock!Truncate(c) PROVE LockInv'
    BY <1>4, TruncateKeeps
  <1>5. ASSUME NEW c \in Checks, Lock!Write(c) PROVE LockInv'
    BY <1>5, WriteKeeps
  <1>6. ASSUME NEW c \in Checks, Lock!Own(c) PROVE LockInv'
    BY <1>6, OwnKeeps
  <1>7. ASSUME NEW c \in Checks, Lock!Fail(c) PROVE LockInv'
    BY <1>7, FailKeeps
  <1>8. ASSUME NEW p \in Procs, Lock!Shutdown(p) PROVE LockInv'
    BY <1>8, ShutdownKeeps
  <1>9. ASSUME NEW p \in Procs, Lock!ReleaseRead(p) PROVE LockInv'
    BY <1>9, ReleaseReadKeeps
  <1>10. ASSUME NEW p \in Procs, Lock!Unlink(p) PROVE LockInv'
    BY <1>10, UnlinkKeeps
  <1>11. ASSUME NEW p \in Procs, Lock!Exit(p) PROVE LockInv'
    BY <1>11, ExitKeeps
  <1>12. ASSUME NEW p \in Procs, Lock!Crash(p) PROVE LockInv'
    BY <1>12, CrashKeeps
  <1>13. CASE UNCHANGED Lock!vars
    <2>1. /\ UNCHANGED now /\ UNCHANGED lock /\ UNCHANGED state /\ UNCHANGED owned /\ UNCHANGED leave
          /\ UNCHANGED check /\ UNCHANGED warned /\ UNCHANGED warnings /\ UNCHANGED done /\ UNCHANGED taken
      BY <1>13 DEF Lock!vars
    <2>2. LockTypes'
      BY <2>1 DEF LockInv, LockTypes, Lock!TypeOK
    <2>3. now' \in Nat /\ now <= now'
      BY <2>1, LockFacts DEF LockInv
    <2>4. \A q \in Procs : Lock!Running(q)' => Lock!Running(q)
      BY <2>1 DEF Lock!Running
    <2>5. Checked' /\ Leaving' /\ Silent' /\ Warned' /\ Lock!WarnedOnce'
      BY <2>1, <2>3, <2>4, QuietStep, NoWarning
    <2>6. Lock!NoLockForgotten'
      BY <2>1 DEF LockInv, Lock!NoLockForgotten
    <2> QED BY <2>2, <2>5, <2>6 DEF LockInv
  <1> QED BY <1>1, <1>2, <1>3, <1>4, <1>5, <1>6, <1>7, <1>8, <1>9, <1>10, <1>11, <1>12, <1>13
    DEF Lock!Next, Checks, Lock!Checks

(***************************************************************************)
(* For every set of sessions, hosts and operations: a live session's lock  *)
(* gives way without a warning only to a session that was looking at the   *)
(* file while another wrote it, a session warns of a host once in a        *)
(* window, and it owns the locks it writes (lib/storage/worktree-lock.ts). *)
(***************************************************************************)
THEOREM LocksStaySafe ==
  ASSUME LockConstants
  PROVE  Lock!Spec => [](Lock!TypeOK /\ Lock!LockSafe)
  <1>1. Lock!Init => LockInv
    BY LockStarts
  <1>2. LockInv /\ [Lock!Next]_Lock!vars => LockInv'
    BY LockSteps
  <1>3. LockInv => Lock!TypeOK /\ Lock!LockSafe
    <2>1. LockInv => Lock!SilentOnlyInARace
      BY DEF LockInv, Silent, Lock!SilentOnlyInARace
    <2> QED BY <2>1 DEF LockInv, LockTypes, Lock!LockSafe
  <1> QED BY <1>1, <1>2, <1>3, PTL DEF Lock!Spec

-----------------------------------------------------------------------------
(***************************************************************************)
(* The policies of the custom rotation.                                    *)
(***************************************************************************)
Policy == INSTANCE CustomSelection WITH cached <- generation

\* Finitely many requests are in flight, and accounts are numbered from 1.
PolicyConstants ==
  /\ IsFiniteSet(Requests) /\ Accounts \subseteq Nat \ {0}
  /\ MaxChildren \in Nat /\ MaxFaults \in Nat

LEMMA LeastAccount ==
  ASSUME NEW S, S \subseteq Nat, S # {}
  PROVE  Policy!Min(S) \in S
  <1> DEFINE R == OpToRel(<, Nat)
  <1>1. PICK x \in S : \A y \in S : ~(<<y, x>> \in R)
    <2>1. IsWellFoundedOn(R, Nat)
      BY NatLessThanWellFounded
    <2> HIDE DEF R
    <2> QED BY <2>1, WFMin
  <1>2. \A y \in S : x <= y
    <2> SUFFICES ASSUME NEW y \in S, y < x  PROVE FALSE
      OBVIOUS
    <2>1. <<y, x>> \in Nat \X Nat /\ <<y, x>>[1] < <<y, x>>[2]
      OBVIOUS
    <2> QED BY <1>1, <2>1 DEF OpToRel
  <1> QED BY <1>2 DEF Policy!Min

-----------------------------------------------------------------------------
Lines ==
  [kind : {"none", "threw", "junk", "none of them", "a stranger", "choice"}, account : {0} \cup Accounts]

Selection ==
  [phase : {"selecting", "asking", "answered", "serving", "none", "done"}, manager : Nat,
   attempted : SUBSET Accounts, given : SUBSET Accounts, scope : Nat, selection : Nat,
   result : {0} \cup Accounts, error : Policy!Errors, inTime : Lines]

Child ==
  [phase : {"none", "running", "settled"}, error : Policy!Errors, frame : Lines, inTime : BOOLEAN,
   code : {"none", "zero", "one", "null"}, tree : {"alive", "dying", "dead"},
   deadline : BOOLEAN, grace : BOOLEAN]

PolicyTypes ==
  /\ faults \in 0..MaxFaults
  /\ generation \in 1..faults + 1 /\ path \in 1..faults + 1
  /\ eligible \subseteq Accounts /\ aborted \subseteq Requests /\ active \in 0..MaxChildren
  /\ request \in [Requests -> Selection] /\ child \in [Requests -> Child]

\* What takes an answer back.
Excuses == {"cancelled", "output-limit", "protocol"}

\* A running child is timed, or its tree is being killed, or it has exited.  The
\* deadline ends with its line, so that no timeout follows an answer in time.
Ends(c) ==
  /\ c.phase = "running" => c.deadline = TRUE \/ c.grace = TRUE \/ c.code # "none"
  /\ c.phase = "running" /\ c.tree # "alive" => c.grace = TRUE \/ c.code # "none"
  /\ c.frame.kind # "choice" => c.frame.account = 0
  /\ c.frame.kind # "none" => c.deadline = FALSE
  /\ c.inTime = TRUE => c.frame.kind # "none" /\ c.error \in {"none"} \cup Excuses

Kept(q) ==
  q.phase = "answered" /\ q.inTime # Policy!NoFrame =>
    q.error \in Excuses \/ (q.result = q.inTime.account /\ q.error # "timeout")

Children == {r \in Requests : child[r].phase # "none"}

Slots ==
  /\ active = Cardinality(Children)
  /\ \A r \in Requests : child[r].phase # "none" <=> request[r].phase = "asking"

Answers == \A r \in Requests : Ends(child[r]) /\ Kept(request[r])

PolicyInv == PolicyTypes /\ Slots /\ Answers /\ Policy!ChoiceHolds

-----------------------------------------------------------------------------
LEMMA PolicyFacts ==
  ASSUME PolicyConstants, PolicyInv
  PROVE  /\ faults \in Nat /\ generation \in Nat /\ path \in Nat /\ active \in Nat
         /\ \A r \in Requests : request[r] \in Selection /\ child[r] \in Child
         /\ IsFiniteSet(Children)
  <1>1. IsFiniteSet(Children)
    BY FS_Subset DEF Children, PolicyConstants
  <1> QED BY <1>1 DEF PolicyConstants, PolicyInv, PolicyTypes

LEMMA FaultsOnlyGrow ==
  ASSUME PolicyConstants, PolicyTypes, NEW n, n \in 1..faults + 1, faults' \in 0..MaxFaults, faults <= faults'
  PROVE  n \in 1..faults' + 1
  <1>1. \A a, b \in Nat : a <= b => 1..a + 1 \subseteq 1..b + 1
    OBVIOUS
  <1>2. faults \in Nat /\ faults' \in Nat
    BY DEF PolicyConstants, PolicyTypes
  <1> QED BY <1>1, <1>2

LEMMA FirstErrorIs ==
  ASSUME NEW c \in Child, NEW reason \in Policy!Errors
  PROVE  /\ Policy!FirstError(c, reason) \in Policy!Errors
         /\ c.error # "none" => Policy!FirstError(c, reason) = c.error
         /\ c.error = "none" => Policy!FirstError(c, reason) = reason
  BY DEF Policy!FirstError, Child

\* The tree is being killed from now on.
LEMMA Terminated ==
  ASSUME NEW c \in Child
  PROVE  /\ Policy!Terminate(c) \in Child
         /\ Policy!Terminate(c).phase = c.phase /\ Policy!Terminate(c).error = c.error
         /\ Policy!Terminate(c).frame = c.frame /\ Policy!Terminate(c).inTime = c.inTime
         /\ Policy!Terminate(c).code = c.code /\ Policy!Terminate(c).deadline = c.deadline
         /\ c.tree = "alive" => Policy!Terminate(c).grace = TRUE
         /\ c.tree # "alive" => Policy!Terminate(c) = c
  <1>1. CASE c.tree # "alive" BY <1>1 DEF Policy!Terminate
  <1>2. CASE c.tree = "alive"
    <2>1. PICK t \in {"dying", "dead"} : t = IF Windows THEN "dying" ELSE "dead"
      OBVIOUS
    <2>2. Policy!Terminate(c) = [c EXCEPT !.tree = t, !.grace = TRUE]
      BY <1>2, <2>1 DEF Policy!Terminate
    <2> QED BY <1>2, <2>2 DEF Child
  <1> QED BY <1>1, <1>2

\* What kills the tree keeps the child's end in sight.
LEMMA TerminateEnds ==
  ASSUME NEW c \in Child,
         c.phase = "running" /\ c.tree # "alive" => c.grace = TRUE \/ c.code # "none",
         c.frame.kind # "choice" => c.frame.account = 0,
         c.frame.kind # "none" => c.deadline = FALSE,
         c.inTime = TRUE => c.frame.kind # "none" /\ c.error \in {"none"} \cup Excuses
  PROVE  Policy!Terminate(c) \in Child /\ Ends(Policy!Terminate(c))
  <1>1. PICK d \in Child : d = Policy!Terminate(c)
    BY Terminated
  <1>2. /\ d.phase = c.phase /\ d.error = c.error /\ d.frame = c.frame /\ d.inTime = c.inTime
        /\ d.code = c.code /\ d.deadline = c.deadline
        /\ c.tree = "alive" => d.grace = TRUE
        /\ c.tree # "alive" => d = c
    BY <1>1, Terminated
  <1>3. d.phase = "running" => d.grace = TRUE \/ d.code # "none"
    BY <1>2
  <1>4. Ends(d)
    BY <1>2, <1>3 DEF Ends
  <1> QED BY <1>1, <1>4

\* Something happens to a child.
LEMMA ChildStep ==
  ASSUME PolicyConstants, PolicyInv, NEW r \in Requests, NEW c \in Child, Ends(c),
         c.phase # "none", child[r].phase # "none", child' = [child EXCEPT ![r] = c],
         UNCHANGED generation, UNCHANGED eligible, UNCHANGED path, UNCHANGED active,
         UNCHANGED request, UNCHANGED chosen, aborted' \subseteq Requests,
         faults' \in 0..MaxFaults, faults <= faults'
  PROVE  PolicyInv'
  <1>1. /\ child' \in [Requests -> Child] /\ child'[r] = c
        /\ \A q \in Requests : q # r => child'[q] = child[q]
    BY DEF PolicyInv, PolicyTypes
  <1>2. PolicyTypes'
    <2>1. generation' \in 1..faults' + 1 /\ path' \in 1..faults' + 1
      BY FaultsOnlyGrow DEF PolicyInv, PolicyTypes
    <2> QED BY <1>1, <2>1 DEF PolicyInv, PolicyTypes
  <1>3. \A q \in Requests : child'[q].phase # "none" <=> child[q].phase # "none"
    BY <1>1
  <1>4. Children' = Children
    BY <1>3 DEF Children
  <1>5. Slots'
    BY <1>3, <1>4 DEF PolicyInv, Slots
  <1>6. Answers'
    BY <1>1 DEF PolicyInv, Answers
  <1>7. Policy!ChoiceHolds'
    BY DEF PolicyInv, Policy!ChoiceHolds
  <1> QED BY <1>2, <1>5, <1>6, <1>7 DEF PolicyInv

LEMMA Faulty ==
  ASSUME PolicyConstants, PolicyInv, NEW kind, Policy!Fault(kind)
  PROVE  faults' \in 0..MaxFaults /\ faults <= faults' /\ faults' = faults + 1
  BY DEF PolicyConstants, PolicyInv, PolicyTypes, Policy!Fault

\* Something fails in a child.
LEMMA FailStep ==
  ASSUME PolicyConstants, PolicyInv, NEW r \in Requests, NEW reason \in Policy!Errors,
         reason \in Excuses \/ child[r].inTime = FALSE, NEW c \in Child,
         child[r].phase # "none", c.phase = child[r].phase, c.error = child[r].error,
         c.frame = child[r].frame, c.inTime = child[r].inTime, c.code = child[r].code,
         c.tree = child[r].tree, c.grace = child[r].grace,
         c.deadline = child[r].deadline \/ c.deadline = FALSE,
         child' = [child EXCEPT ![r] = Policy!Fails(c, reason)],
         UNCHANGED generation, UNCHANGED eligible, UNCHANGED path, UNCHANGED active,
         UNCHANGED request, UNCHANGED chosen, aborted' \subseteq Requests,
         faults' \in 0..MaxFaults, faults <= faults'
  PROVE  PolicyInv'
  <1>1. PICK e \in Policy!Errors : e = Policy!FirstError(c, reason) /\ (e = c.error \/ e = reason)
    BY FirstErrorIs
  <1> DEFINE d == [c EXCEPT !.error = e]
  <1>2. /\ d \in Child /\ d.phase = c.phase /\ d.error = e /\ d.frame = c.frame
        /\ d.inTime = c.inTime /\ d.code = c.code /\ d.tree = c.tree /\ d.grace = c.grace
        /\ d.deadline = c.deadline
    BY DEF Child
  <1>3. Policy!Fails(c, reason) = Policy!Terminate(d)
    BY <1>1 DEF Policy!Fails
  <1> HIDE DEF d
  <1>4. Ends(child[r])
    BY DEF PolicyInv, Answers
  <1>5. c.error # "none" => e = c.error
    BY <1>1, FirstErrorIs
  <1>6. /\ d.phase = "running" /\ d.tree # "alive" => d.grace = TRUE \/ d.code # "none"
        /\ d.frame.kind # "choice" => d.frame.account = 0
        /\ d.frame.kind # "none" => d.deadline = FALSE
    BY <1>2, <1>4 DEF Ends
  <1>7. d.inTime = TRUE => d.frame.kind # "none" /\ d.error \in {"none"} \cup Excuses
    BY <1>1, <1>2, <1>4 DEF Ends
  <1>8. PICK t \in Child : t = Policy!Terminate(d) /\ Ends(t) /\ t.phase = d.phase
    BY <1>2, <1>6, <1>7, TerminateEnds, Terminated
  <1> QED BY <1>2, <1>3, <1>8, ChildStep

LEMMA AbortKeeps ==
  ASSUME PolicyConstants, PolicyInv, NEW r \in Requests, Policy!Abort(r)
  PROVE  PolicyInv'
  <1>1. /\ UNCHANGED generation /\ UNCHANGED eligible /\ UNCHANGED path /\ UNCHANGED active
        /\ UNCHANGED request /\ UNCHANGED chosen
        /\ aborted' \subseteq Requests
    BY DEF Policy!Abort, PolicyInv, PolicyTypes
  <1>2. faults' \in 0..MaxFaults /\ faults <= faults'
    BY Faulty DEF Policy!Abort
  <1>3. CASE Policy!Listening(child[r])
    <2>1. PICK c \in Child : c = child[r] /\ c.phase # "none"
      BY <1>3, PolicyFacts DEF Policy!Listening
    <2>2. child' = [child EXCEPT ![r] = Policy!Fails(c, "cancelled")]
      BY <1>3, <2>1 DEF Policy!Abort
    <2>3. "cancelled" \in Policy!Errors /\ "cancelled" \in Excuses
      BY DEF Policy!Errors, Excuses
    <2> QED BY <1>1, <1>2, <2>1, <2>2, <2>3, FailStep
  <1>4. CASE ~Policy!Listening(child[r])
    <2>1. UNCHANGED child
      BY <1>4 DEF Policy!Abort
    <2>2. PolicyTypes'
      <3>1. generation' \in 1..faults' + 1 /\ path' \in 1..faults' + 1
        BY <1>1, <1>2, FaultsOnlyGrow DEF PolicyInv, PolicyTypes
      <3> QED BY <1>1, <1>2, <2>1, <3>1 DEF PolicyInv, PolicyTypes
    <2>3. Slots' /\ Answers' /\ Policy!ChoiceHolds'
      BY <1>1, <2>1 DEF PolicyInv, Slots, Answers, Children, Policy!ChoiceHolds
    <2> QED BY <2>2, <2>3 DEF PolicyInv
  <1> QED BY <1>3, <1>4

LEMMA DeadlineKeeps ==
  ASSUME PolicyConstants, PolicyInv, NEW r \in Requests, Policy!Deadline(r)
  PROVE  PolicyInv'
  <1>1. /\ UNCHANGED generation /\ UNCHANGED eligible /\ UNCHANGED path /\ UNCHANGED active
        /\ UNCHANGED request /\ UNCHANGED chosen
        /\ aborted' \subseteq Requests
    BY DEF Policy!Deadline, Policy!Event, PolicyInv, PolicyTypes
  <1>2. faults' \in 0..MaxFaults /\ faults <= faults'
    BY Faulty DEF Policy!Deadline
  <1>3. PICK k \in Child : k = child[r] /\ k.phase # "none" /\ k.deadline
    BY PolicyFacts DEF Policy!Deadline, Policy!Event, Policy!Listening
  <1> DEFINE c == [k EXCEPT !.deadline = FALSE]
  <1>4. /\ c \in Child /\ c.phase = k.phase /\ c.error = k.error /\ c.frame = k.frame
        /\ c.inTime = k.inTime /\ c.code = k.code /\ c.tree = k.tree /\ c.grace = k.grace
        /\ c.deadline = FALSE
    BY DEF Child
  <1>5. child' = [child EXCEPT ![r] = Policy!Fails(c, "timeout")]
    BY <1>3 DEF Policy!Deadline, Policy!ChildIs
  <1> HIDE DEF c
  <1>6. k.inTime = FALSE
    <2>1. Ends(k)
      BY <1>3 DEF PolicyInv, Answers
    <2>2. k.inTime = TRUE => k.deadline = FALSE
      BY <2>1 DEF Ends
    <2>3. k.inTime \in BOOLEAN
      BY DEF Child
    <2> QED BY <1>3, <2>2, <2>3, Zenon
  <1>7. "timeout" \in Policy!Errors
    BY DEF Policy!Errors
  <1> QED BY <1>1, <1>2, <1>3, <1>4, <1>5, <1>6, <1>7, FailStep

LEMMA FloodKeeps ==
  ASSUME PolicyConstants, PolicyInv, NEW r \in Requests, Policy!Flood(r)
  PROVE  PolicyInv'
  <1>1. /\ UNCHANGED generation /\ UNCHANGED eligible /\ UNCHANGED path /\ UNCHANGED active
        /\ UNCHANGED request /\ UNCHANGED chosen
        /\ aborted' \subseteq Requests
    BY DEF Policy!Flood, Policy!Event, PolicyInv, PolicyTypes
  <1>2. faults' \in 0..MaxFaults /\ faults <= faults'
    BY Faulty DEF Policy!Flood
  <1>3. PICK c \in Child : c = child[r] /\ c.phase # "none"
    BY PolicyFacts DEF Policy!Flood, Policy!Event, Policy!Listening
  <1>4. child' = [child EXCEPT ![r] = Policy!Fails(c, "output-limit")]
    BY <1>3 DEF Policy!Flood, Policy!ChildIs
  <1>5. "output-limit" \in Policy!Errors /\ "output-limit" \in Excuses
    BY DEF Policy!Errors, Excuses
  <1> QED BY <1>1, <1>2, <1>3, <1>4, <1>5, FailStep

\* The process did not start: its tree is dead, and it never said anything.
LEMMA SpawnFailsKeeps ==
  ASSUME PolicyConstants, PolicyInv, NEW r \in Requests, Policy!SpawnFails(r)
  PROVE  PolicyInv'
  <1>1. /\ UNCHANGED generation /\ UNCHANGED eligible /\ UNCHANGED path /\ UNCHANGED active
        /\ UNCHANGED request /\ UNCHANGED chosen
        /\ aborted' \subseteq Requests
    BY DEF Policy!SpawnFails, Policy!Event, PolicyInv, PolicyTypes
  <1>2. faults' \in 0..MaxFaults /\ faults <= faults'
    BY Faulty DEF Policy!SpawnFails
  <1>3. PICK k \in Child : k = child[r] /\ k.phase # "none" /\ k.frame = Policy!NoFrame
    BY PolicyFacts DEF Policy!SpawnFails, Policy!Event, Policy!Listening
  <1>4. PICK e \in Policy!Errors : e = Policy!FirstError(k, "spawn")
    <2>1. "spawn" \in Policy!Errors
      BY DEF Policy!Errors
    <2> QED BY <2>1, FirstErrorIs
  <1> DEFINE c == [k EXCEPT !.code = "null", !.error = e, !.tree = "dead", !.grace = TRUE]
  <1>5. /\ c \in Child /\ c.phase = k.phase /\ c.error = e /\ c.frame = k.frame
        /\ c.inTime = k.inTime /\ c.code = "null" /\ c.grace = TRUE /\ c.deadline = k.deadline
    BY DEF Child
  <1>6. child' = [child EXCEPT ![r] = c]
    BY <1>3, <1>4 DEF Policy!SpawnFails, Policy!ChildIs
  <1> HIDE DEF c
  <1>7. k.frame.kind = "none" /\ Ends(k)
    BY <1>3 DEF PolicyInv, Answers, Policy!NoFrame, Policy!Line
  <1>8. Ends(c)
    BY <1>5, <1>7 DEF Ends
  <1> QED BY <1>1, <1>2, <1>3, <1>5, <1>6, <1>8, ChildStep

LEMMA StdinFailsKeeps ==
  ASSUME PolicyConstants, PolicyInv, NEW r \in Requests, Policy!StdinFails(r)
  PROVE  PolicyInv'
  <1>1. /\ UNCHANGED generation /\ UNCHANGED eligible /\ UNCHANGED path /\ UNCHANGED active
        /\ UNCHANGED request /\ UNCHANGED chosen
        /\ aborted' \subseteq Requests
    BY DEF Policy!StdinFails, Policy!Event, PolicyInv, PolicyTypes
  <1>2. faults' \in 0..MaxFaults /\ faults <= faults'
    BY Faulty DEF Policy!StdinFails
  <1>3. PICK k \in Child : k = child[r] /\ k.phase # "none"
    BY PolicyFacts DEF Policy!StdinFails, Policy!Event, Policy!Listening
  <1>4. PICK e \in Policy!Errors :
          e = Policy!FirstError(k, "protocol") /\ (e = k.error \/ e = "protocol")
    <2>1. "protocol" \in Policy!Errors
      BY DEF Policy!Errors
    <2> QED BY <2>1, FirstErrorIs
  <1> DEFINE c == [k EXCEPT !.error = e]
  <1>5. /\ c \in Child /\ c.phase = k.phase /\ c.error = e /\ c.frame = k.frame
        /\ c.inTime = k.inTime /\ c.code = k.code /\ c.grace = k.grace
        /\ c.deadline = k.deadline /\ c.tree = k.tree
    BY DEF Child
  <1>6. child' = [child EXCEPT ![r] = c]
    BY <1>3, <1>4 DEF Policy!StdinFails, Policy!ChildIs
  <1> HIDE DEF c
  <1>7. Ends(k)
    BY <1>3 DEF PolicyInv, Answers
  <1>8. Ends(c)
    BY <1>4, <1>5, <1>7 DEF Ends, Excuses
  <1> QED BY <1>1, <1>2, <1>3, <1>5, <1>6, <1>8, ChildStep

\* A line comes: the deadline ends with it.
LEMMA FrameKeeps ==
  ASSUME PolicyConstants, PolicyInv, NEW r \in Requests, NEW f \in Policy!Frames, Policy!Frame(r, f)
  PROVE  PolicyInv'
  <1>1. /\ UNCHANGED generation /\ UNCHANGED eligible /\ UNCHANGED path /\ UNCHANGED active
        /\ UNCHANGED request /\ UNCHANGED chosen
        /\ aborted' \subseteq Requests
    BY DEF Policy!Frame, Policy!Event, PolicyInv, PolicyTypes
  <1>2. faults' \in 0..MaxFaults /\ faults <= faults'
    BY DEF Policy!Frame, PolicyInv, PolicyTypes, PolicyConstants
  <1>3. PICK k \in Child : k = child[r] /\ k.phase # "none"
    BY PolicyFacts DEF Policy!Frame, Policy!Event, Policy!Listening
  <1>4. f \in Lines /\ f.kind # "none" /\ (f.kind # "choice" => f.account = 0)
    <2>1. CASE \E x \in {"threw", "junk", "none of them", "a stranger"} : f = [kind |-> x, account |-> 0]
      <3>1. PICK x \in {"threw", "junk", "none of them", "a stranger"} : f = [kind |-> x, account |-> 0]
        BY <2>1
      <3>2. [kind |-> x, account |-> 0] \in Lines
        BY DEF Lines
      <3> QED BY <3>1, <3>2
    <2>2. CASE \E a \in Accounts : f = [kind |-> "choice", account |-> a]
      BY <2>2 DEF Lines
    <2> QED BY <2>1, <2>2 DEF Policy!Frames, Policy!Line, Policy!Null
  <1>5. PICK t \in BOOLEAN : t = (k.error = "none")
    OBVIOUS
  <1> DEFINE c == [k EXCEPT !.frame = f, !.inTime = t, !.deadline = FALSE]
  <1>6. /\ c \in Child /\ c.phase = k.phase /\ c.error = k.error /\ c.frame = f
        /\ c.inTime = t /\ c.code = k.code /\ c.grace = k.grace
        /\ c.deadline = FALSE /\ c.tree = k.tree
    BY <1>4 DEF Child
  <1>7. child' = [child EXCEPT ![r] = Policy!Terminate(c)]
    BY <1>3, <1>5 DEF Policy!Frame, Policy!ChildIs
  <1> HIDE DEF c
  <1>8. Ends(k)
    BY <1>3 DEF PolicyInv, Answers
  <1>9. /\ c.phase = "running" /\ c.tree # "alive" => c.grace = TRUE \/ c.code # "none"
        /\ c.frame.kind # "choice" => c.frame.account = 0
        /\ c.frame.kind # "none" => c.deadline = FALSE
    BY <1>4, <1>6, <1>8 DEF Ends
  <1>10. c.inTime = TRUE => c.frame.kind # "none" /\ c.error \in {"none"} \cup Excuses
    BY <1>4, <1>5, <1>6
  <1>11. PICK d \in Child : d = Policy!Terminate(c) /\ Ends(d) /\ d.phase = c.phase
    BY <1>6, <1>9, <1>10, TerminateEnds, Terminated
  <1> QED BY <1>1, <1>2, <1>3, <1>6, <1>7, <1>11, ChildStep

LEMMA ChildExitsKeeps ==
  ASSUME PolicyConstants, PolicyInv, NEW r \in Requests, Policy!ChildExits(r)
  PROVE  PolicyInv'
  <1>1. /\ UNCHANGED generation /\ UNCHANGED eligible /\ UNCHANGED path /\ UNCHANGED active
        /\ UNCHANGED request /\ UNCHANGED chosen
        /\ aborted' \subseteq Requests
    BY DEF Policy!ChildExits, Policy!Event, PolicyInv, PolicyTypes
  <1>2. faults' \in 0..MaxFaults /\ faults <= faults'
    BY DEF Policy!ChildExits, PolicyInv, PolicyTypes, PolicyConstants
  <1>3. PICK k \in Child : k = child[r] /\ k.phase # "none"
    BY PolicyFacts DEF Policy!ChildExits, Policy!Event, Policy!Listening
  <1>4. PICK code \in {"zero", "one", "null"} :
          child' = [child EXCEPT ![r] = Policy!Terminate([k EXCEPT !.code = code])]
    BY <1>3 DEF Policy!ChildExits, Policy!ChildIs
  <1> DEFINE c == [k EXCEPT !.code = code]
  <1>5. /\ c \in Child /\ c.phase = k.phase /\ c.error = k.error /\ c.frame = k.frame
        /\ c.inTime = k.inTime /\ c.code # "none" /\ c.deadline = k.deadline
    BY DEF Child
  <1>6. child' = [child EXCEPT ![r] = Policy!Terminate(c)]
    BY <1>4
  <1> HIDE DEF c
  <1>7. Ends(k)
    BY <1>3 DEF PolicyInv, Answers
  <1>8. /\ c.phase = "running" /\ c.tree # "alive" => c.grace = TRUE \/ c.code # "none"
        /\ c.frame.kind # "choice" => c.frame.account = 0
        /\ c.frame.kind # "none" => c.deadline = FALSE
        /\ c.inTime = TRUE => c.frame.kind # "none" /\ c.error \in {"none"} \cup Excuses
    BY <1>5, <1>7 DEF Ends
  <1>9. PICK d \in Child : d = Policy!Terminate(c) /\ Ends(d) /\ d.phase = c.phase
    BY <1>5, <1>8, TerminateEnds, Terminated
  <1> QED BY <1>1, <1>2, <1>3, <1>5, <1>6, <1>9, ChildStep

LEMMA TreeGoneKeeps ==
  ASSUME PolicyConstants, PolicyInv, NEW r \in Requests, Policy!TreeGone(r)
  PROVE  PolicyInv'
  <1>1. /\ UNCHANGED generation /\ UNCHANGED eligible /\ UNCHANGED path /\ UNCHANGED active
        /\ UNCHANGED request /\ UNCHANGED chosen
        /\ aborted' \subseteq Requests
    BY DEF Policy!TreeGone, Policy!Event, PolicyInv, PolicyTypes
  <1>2. faults' \in 0..MaxFaults /\ faults <= faults'
    BY DEF Policy!TreeGone, PolicyInv, PolicyTypes, PolicyConstants
  <1>3. PICK k \in Child : k = child[r] /\ k.phase # "none" /\ k.tree = "dying"
    BY PolicyFacts DEF Policy!TreeGone, Policy!Event, Policy!Listening
  <1> DEFINE c == [k EXCEPT !.tree = "dead"]
  <1>4. /\ c \in Child /\ c.phase = k.phase /\ c.error = k.error /\ c.frame = k.frame
        /\ c.inTime = k.inTime /\ c.code = k.code /\ c.deadline = k.deadline /\ c.grace = k.grace
    BY DEF Child
  <1>5. child' = [child EXCEPT ![r] = c]
    BY <1>3 DEF Policy!TreeGone, Policy!ChildIs
  <1> HIDE DEF c
  <1>6. Ends(k)
    BY <1>3 DEF PolicyInv, Answers
  <1>7. Ends(c)
    BY <1>3, <1>4, <1>6 DEF Ends
  <1> QED BY <1>1, <1>2, <1>3, <1>4, <1>5, <1>7, ChildStep

LEMMA FinishKeeps ==
  ASSUME PolicyConstants, PolicyInv, NEW r \in Requests, Policy!Finish(r)
  PROVE  PolicyInv'
  <1>1. /\ UNCHANGED generation /\ UNCHANGED eligible /\ UNCHANGED path /\ UNCHANGED active
        /\ UNCHANGED request /\ UNCHANGED chosen
        /\ aborted' \subseteq Requests
    BY DEF Policy!Finish, Policy!Event, PolicyInv, PolicyTypes
  <1>2. faults' \in 0..MaxFaults /\ faults <= faults'
    BY DEF Policy!Finish, PolicyInv, PolicyTypes, PolicyConstants
  <1>3. PICK k \in Child : k = child[r] /\ k.phase # "none" /\ Ends(k)
    BY PolicyFacts DEF Policy!Finish, Policy!Event, Policy!Listening, PolicyInv, Answers
  <1>4. CASE child' = [child EXCEPT ![r] = Policy!Terminate([k EXCEPT !.phase = "settled"])]
    <2> DEFINE c == [k EXCEPT !.phase = "settled"]
    <2>1. /\ c \in Child /\ c.phase = "settled" /\ c.error = k.error /\ c.frame = k.frame
          /\ c.inTime = k.inTime /\ c.deadline = k.deadline
      BY DEF Child
    <2>2. child' = [child EXCEPT ![r] = Policy!Terminate(c)]
      BY <1>4
    <2> HIDE DEF c
    <2>3. /\ c.phase = "running" /\ c.tree # "alive" => c.grace = TRUE \/ c.code # "none"
          /\ c.frame.kind # "choice" => c.frame.account = 0
          /\ c.frame.kind # "none" => c.deadline = FALSE
          /\ c.inTime = TRUE => c.frame.kind # "none" /\ c.error \in {"none"} \cup Excuses
      BY <1>3, <2>1 DEF Ends
    <2>4. PICK d \in Child : d = Policy!Terminate(c) /\ Ends(d) /\ d.phase = c.phase
      BY <2>1, <2>3, TerminateEnds, Terminated
    <2> QED BY <1>1, <1>2, <1>3, <2>1, <2>2, <2>4, ChildStep
  <1>5. CASE child' = [child EXCEPT ![r] = [k EXCEPT !.phase = "settled", !.grace = FALSE, !.code = "null"]]
    <2> DEFINE c == [k EXCEPT !.phase = "settled", !.grace = FALSE, !.code = "null"]
    <2>1. /\ c \in Child /\ c.phase = "settled" /\ c.error = k.error /\ c.frame = k.frame
          /\ c.inTime = k.inTime /\ c.deadline = k.deadline
      BY DEF Child
    <2>2. child' = [child EXCEPT ![r] = c]
      BY <1>5
    <2> HIDE DEF c
    <2>3. Ends(c)
      BY <1>3, <2>1 DEF Ends
    <2> QED BY <1>1, <1>2, <1>3, <2>1, <2>2, <2>3, ChildStep
  <1> QED BY <1>3, <1>4, <1>5 DEF Policy!Finish, Policy!ChildIs

-----------------------------------------------------------------------------
LEMMA SamePolicyCount == \A S : Policy!Cardinality(S) = Cardinality(S)
BY DEF Policy!Cardinality, Cardinality

LEMMA ResultIs ==
  ASSUME NEW c \in Child, Ends(c)
  PROVE  /\ Policy!Result(c).result \in {0} \cup Accounts /\ Policy!Result(c).error \in Policy!Errors
         /\ c.inTime = TRUE =>
              \/ Policy!Result(c).error \in Excuses
              \/ Policy!Result(c).result = c.frame.account /\ Policy!Result(c).error # "timeout"
  <1>1. CASE c.error # "none"
    <2>1. Policy!Result(c) = [result |-> 0, error |-> c.error]
      BY <1>1 DEF Policy!Result, Policy!Null
    <2> QED BY <1>1, <2>1 DEF Child, Ends
  <1>2. CASE c.error = "none" /\ c.frame = Policy!NoFrame
    <2>1. PICK e \in {"policy", "protocol"} : Policy!Result(c) = [result |-> 0, error |-> e]
      BY <1>2 DEF Policy!Result, Policy!Null
    <2>2. e \in Policy!Errors
      BY DEF Policy!Errors
    <2>3. c.frame.kind = "none"
      BY <1>2 DEF Policy!NoFrame, Policy!Line
    <2> QED BY <2>1, <2>2, <2>3 DEF Ends
  <1>3. CASE c.error = "none" /\ c.frame # Policy!NoFrame /\ c.frame.kind = "choice"
    <2>1. Policy!Result(c) = [result |-> c.frame.account, error |-> "none"]
      BY <1>3 DEF Policy!Result
    <2>2. c.frame.account \in {0} \cup Accounts /\ "none" \in Policy!Errors
      BY DEF Child, Lines, Policy!Errors
    <2> QED BY <2>1, <2>2
  <1>4. CASE c.error = "none" /\ c.frame # Policy!NoFrame /\ c.frame.kind # "choice"
    <2>1. c.frame.kind \in {"threw", "junk", "none of them", "a stranger"} \/ c.frame.kind = "none"
      BY <1>4 DEF Child, Lines
    <2>2. CASE c.frame.kind \in {"threw", "junk", "none of them", "a stranger"}
      <3>1. PICK e \in {"none", "ineligible-id", "policy", "protocol"} :
              Policy!Result(c) = [result |-> 0, error |-> e]
        BY <1>4, <2>2 DEF Policy!Result, Policy!Null
      <3>2. e \in Policy!Errors /\ e # "timeout"
        BY DEF Policy!Errors
      <3> QED BY <1>4, <3>1, <3>2 DEF Ends
    <2>3. CASE c.frame.kind = "none"
      <3>1. c.frame \in Lines /\ c.frame.account = 0
        BY <2>3 DEF Child, Ends
      <3> QED BY <1>4, <2>3, <3>1 DEF Lines, Policy!NoFrame, Policy!Line, Policy!Null
    <2> QED BY <2>1, <2>2, <2>3
  <1> QED BY <1>1, <1>2, <1>3, <1>4

\* A request changes, and no child.
LEMMA RequestStep ==
  ASSUME PolicyConstants, PolicyInv, NEW r \in Requests, NEW q \in Selection, Kept(q),
         q.phase # "asking", request[r].phase # "asking", request' = [request EXCEPT ![r] = q],
         UNCHANGED child, UNCHANGED generation, UNCHANGED eligible, UNCHANGED path,
         UNCHANGED active, UNCHANGED aborted, UNCHANGED faults, Policy!ChoiceHolds'
  PROVE  PolicyInv'
  <1>1. /\ request' \in [Requests -> Selection] /\ request'[r] = q
        /\ \A x \in Requests : x # r => request'[x] = request[x]
    BY DEF PolicyInv, PolicyTypes
  <1>2. PolicyTypes'
    BY <1>1 DEF PolicyInv, PolicyTypes
  <1>3. Children' = Children
    BY DEF Children
  <1>4. \A x \in Requests : request'[x].phase = "asking" <=> request[x].phase = "asking"
    BY <1>1
  <1>5. Slots'
    BY <1>3, <1>4 DEF PolicyInv, Slots
  <1>6. Answers'
    BY <1>1 DEF PolicyInv, Answers
  <1> QED BY <1>2, <1>5, <1>6 DEF PolicyInv

\* A child is gone, and its slot with it.
LEMMA SlotReturned ==
  ASSUME PolicyConstants, PolicyInv, NEW r \in Requests, Policy!Settle(r)
  PROVE  PolicyInv'
  <1>1. /\ UNCHANGED generation /\ UNCHANGED eligible /\ UNCHANGED path /\ UNCHANGED aborted
        /\ UNCHANGED chosen /\ UNCHANGED faults /\ active' = active - 1
        /\ child' = [child EXCEPT ![r] = Policy!NoChild] /\ child[r].phase = "settled"
    BY DEF Policy!Settle, Policy!ChildIs
  <1>2. PICK c \in Child : c = child[r] /\ Ends(c)
    BY PolicyFacts DEF PolicyInv, Answers
  <1>3. PICK o \in Selection : o = request[r] /\ o.phase = "asking"
    BY <1>1, PolicyFacts DEF PolicyInv, Slots
  <1>4. PICK l \in Lines : l = IF c.inTime THEN c.frame ELSE Policy!NoFrame
    BY DEF Child, Lines, Policy!NoFrame, Policy!Line, Policy!Null
  <1>5. PICK x \in {0} \cup Accounts : x = Policy!Result(c).result
    BY <1>2, ResultIs
  <1>6. PICK e \in Policy!Errors : e = Policy!Result(c).error
    BY <1>2, ResultIs
  <1> DEFINE q == [o EXCEPT !.phase = "answered", !.result = x, !.error = e, !.inTime = l]
  <1>7. /\ q \in Selection /\ q.phase = "answered" /\ q.result = x /\ q.error = e /\ q.inTime = l
    BY DEF Selection
  <1>8. request' = [request EXCEPT ![r] = q]
    BY <1>2, <1>3, <1>4, <1>5, <1>6 DEF Policy!Settle
  <1> HIDE DEF q
  <1>9. Kept(q)
    <2> SUFFICES ASSUME l # Policy!NoFrame
                 PROVE  e \in Excuses \/ (x = l.account /\ e # "timeout")
      BY <1>7 DEF Kept
    <2>1. c.inTime = TRUE /\ l = c.frame
      BY <1>4 DEF Child
    <2> QED BY <1>2, <1>5, <1>6, <2>1, ResultIs
  <1>10. /\ request' \in [Requests -> Selection] /\ request'[r] = q
         /\ \A y \in Requests : y # r => request'[y] = request[y]
    BY <1>7, <1>8 DEF PolicyInv, PolicyTypes
  <1>11. Policy!NoChild \in Child /\ Policy!NoChild.phase = "none" /\ Ends(Policy!NoChild)
    BY DEF Policy!NoChild, Child, Ends, Lines, Policy!NoFrame, Policy!Line, Policy!Null, Policy!Errors
  <1>12. /\ child' \in [Requests -> Child] /\ child'[r].phase = "none" /\ Ends(child'[r])
         /\ \A y \in Requests : y # r => child'[y] = child[y]
    BY <1>1, <1>11 DEF PolicyInv, PolicyTypes
  <1>13. Slots' /\ active' \in 0..MaxChildren
    <2>1. Children' = Children \ {r} /\ r \in Children
      BY <1>1, <1>12 DEF Children
    <2>2. Cardinality(Children') = Cardinality(Children) - 1
      BY <2>1, FS_RemoveElement, PolicyFacts
    <2>3. active = Cardinality(Children) /\ Cardinality(Children') \in Nat
      BY <2>1, FS_CardinalityType, FS_RemoveElement, PolicyFacts DEF PolicyInv, Slots
    <2>4. active' = Cardinality(Children')
      BY <1>1, <2>2, <2>3
    <2>5. active' \in 0..MaxChildren
      BY <1>1, <2>3, <2>4 DEF PolicyInv, PolicyTypes, PolicyConstants
    <2>6. \A y \in Requests : child'[y].phase # "none" <=> request'[y].phase = "asking"
      BY <1>7, <1>10, <1>12 DEF PolicyInv, Slots
    <2> QED BY <2>4, <2>5, <2>6 DEF Slots
  <1>14. PolicyTypes'
    BY <1>1, <1>10, <1>12, <1>13 DEF PolicyInv, PolicyTypes
  <1>15. Answers'
    BY <1>9, <1>10, <1>12 DEF PolicyInv, Answers
  <1>16. Policy!ChoiceHolds'
    BY <1>1 DEF PolicyInv, Policy!ChoiceHolds
  <1> QED BY <1>13, <1>14, <1>15, <1>16 DEF PolicyInv

\* A policy is asked, if there is a slot for its child.
LEMMA SelectKeeps ==
  ASSUME PolicyConstants, PolicyInv, NEW r \in Requests, Policy!Select(r)
  PROVE  PolicyInv'
  <1>1. /\ UNCHANGED generation /\ UNCHANGED eligible /\ UNCHANGED path /\ UNCHANGED aborted
        /\ UNCHANGED chosen /\ UNCHANGED faults /\ request[r].phase = "selecting"
    BY DEF Policy!Select
  <1>2. PICK o \in Selection : o = request[r] /\ o.phase = "selecting"
    BY <1>1, PolicyFacts
  <1>3. PICK given \in SUBSET Accounts : given = Policy!Candidates(o.attempted)
    BY DEF Policy!Candidates, PolicyInv, PolicyTypes
  <1>4. generation \in Nat /\ path \in Nat
    BY PolicyFacts
  <1>5. Policy!NoFrame \in Lines /\ Policy!NoFrame.kind = "none" /\ "none" \in Policy!Errors
        /\ "busy" \in Policy!Errors
    BY DEF Lines, Policy!NoFrame, Policy!Line, Policy!Null, Policy!Errors
  <1>6. PICK nothing \in Lines : nothing = Policy!NoFrame
    BY <1>5
  <1> DEFINE q == [o EXCEPT !.given = given, !.scope = path, !.selection = generation,
                            !.result = 0, !.error = "none", !.inTime = nothing]
             none == [q EXCEPT !.phase = "none"]
             busy == [q EXCEPT !.phase = "answered", !.error = "busy"]
             asking == [q EXCEPT !.phase = "asking"]
  <1>7. /\ q \in Selection /\ q.inTime = nothing
    BY <1>4, <1>5 DEF Selection
  <1>8. \/ request' = [request EXCEPT ![r] = none] /\ UNCHANGED active /\ UNCHANGED child
        \/ request' = [request EXCEPT ![r] = busy] /\ UNCHANGED active /\ UNCHANGED child
        \/ /\ request' = [request EXCEPT ![r] = asking] /\ active' = active + 1 /\ ~(active >= MaxChildren)
           /\ child' = [child EXCEPT ![r] = [Policy!NoChild EXCEPT !.phase = "running", !.deadline = TRUE]]
    BY <1>2, <1>3, <1>6 DEF Policy!Select, Policy!RequestIs, Policy!ChildIs, Policy!Null
  <1> HIDE DEF q
  <1>9. none \in Selection /\ none.phase = "none"
    BY <1>7 DEF Selection
  <1>10. busy \in Selection /\ busy.phase = "answered" /\ busy.inTime = nothing
    BY <1>5, <1>7 DEF Selection
  <1>11. asking \in Selection /\ asking.phase = "asking"
    BY <1>7 DEF Selection
  <1> HIDE DEF none, busy, asking
  <1>12. Policy!ChoiceHolds'
    BY <1>1 DEF PolicyInv, Policy!ChoiceHolds
  <1>13. CASE request' = [request EXCEPT ![r] = none] /\ UNCHANGED active /\ UNCHANGED child
    <2>1. Kept(none)
      BY <1>9 DEF Kept
    <2> QED BY <1>1, <1>9, <1>12, <1>13, <2>1, RequestStep
  <1>14. CASE request' = [request EXCEPT ![r] = busy] /\ UNCHANGED active /\ UNCHANGED child
    <2>1. Kept(busy)
      BY <1>6, <1>10 DEF Kept
    <2> QED BY <1>1, <1>10, <1>12, <1>14, <2>1, RequestStep
  <1>15. CASE /\ request' = [request EXCEPT ![r] = asking] /\ active' = active + 1 /\ ~(active >= MaxChildren)
              /\ child' = [child EXCEPT ![r] = [Policy!NoChild EXCEPT !.phase = "running", !.deadline = TRUE]]
    <2>1. PICK i \in Child : /\ i = Policy!NoChild /\ i.frame = nothing /\ i.inTime = FALSE
                             /\ i.tree = "alive" /\ i.grace = FALSE /\ i.code = "none"
      <3>1. /\ Policy!NoChild \in Child /\ Policy!NoChild.frame = nothing /\ Policy!NoChild.inTime = FALSE
            /\ Policy!NoChild.tree = "alive" /\ Policy!NoChild.grace = FALSE /\ Policy!NoChild.code = "none"
        BY <1>5, <1>6 DEF Policy!NoChild, Child
      <3> QED BY <3>1
    <2> DEFINE c == [i EXCEPT !.phase = "running", !.deadline = TRUE]
    <2>2. /\ c \in Child /\ c.phase = "running" /\ c.deadline = TRUE /\ c.frame = nothing
          /\ c.inTime = FALSE /\ c.tree = "alive"
      BY <2>1 DEF Child
    <2>3. child' = [child EXCEPT ![r] = c]
      BY <1>15, <2>1
    <2> HIDE DEF c
    <2>4. Ends(c)
      BY <1>6, <2>2 DEF Ends, Policy!NoFrame, Policy!Line, Policy!Null
    <2>5. /\ child' \in [Requests -> Child] /\ child'[r] = c
          /\ \A y \in Requests : y # r => child'[y] = child[y]
      BY <2>2, <2>3 DEF PolicyInv, PolicyTypes
    <2>6. /\ request' \in [Requests -> Selection] /\ request'[r] = asking
          /\ \A y \in Requests : y # r => request'[y] = request[y]
      BY <1>11, <1>15 DEF PolicyInv, PolicyTypes
    <2>7. Children' = Children \cup {r} /\ r \notin Children
      BY <1>1, <2>2, <2>5 DEF Children, PolicyInv, Slots
    <2>8. Cardinality(Children') = Cardinality(Children) + 1
      BY <2>7, FS_AddElement, PolicyFacts
    <2>9. active' = Cardinality(Children')
      BY <1>15, <2>8 DEF PolicyInv, Slots
    <2>10. \A y \in Requests : child'[y].phase # "none" <=> request'[y].phase = "asking"
      BY <1>11, <2>2, <2>5, <2>6 DEF PolicyInv, Slots
    <2>11. Slots'
      BY <2>9, <2>10 DEF Slots
    <2>12. active' \in 0..MaxChildren
      BY <1>15 DEF PolicyInv, PolicyTypes, PolicyConstants
    <2>13. PolicyTypes'
      BY <1>1, <2>5, <2>6, <2>12 DEF PolicyInv, PolicyTypes
    <2>14. Kept(asking)
      BY <1>11 DEF Kept
    <2>15. Answers'
      BY <2>4, <2>5, <2>6, <2>14 DEF PolicyInv, Answers
    <2> QED BY <1>12, <2>11, <2>13, <2>15 DEF PolicyInv
  <1> QED BY <1>8, <1>13, <1>14, <1>15

\* What is chosen may serve now.
LEMMA ChoiceIs ==
  ASSUME PolicyConstants, PolicyInv, NEW q \in Selection, Policy!Choice(q) # 0
  PROVE  /\ Policy!Choice(q) \in eligible /\ Policy!Choice(q) \notin q.attempted
         /\ Policy!Choice(q) \in Accounts
         /\ Strict /\ Preferred # {} => Policy!Choice(q) \in Preferred
  <1> DEFINE these == Policy!Candidates(q.attempted)
  <1>1. Policy!Choice(q) = IF q.result \in these THEN q.result ELSE IF these = {} THEN 0 ELSE Policy!Min(these)
    BY DEF Policy!Choice, Policy!Null
  <1>2. /\ these \subseteq eligible \ q.attempted
        /\ Strict /\ Preferred # {} => these \subseteq Preferred
    BY DEF Policy!Candidates
  <1>3. these \subseteq Nat /\ eligible \subseteq Accounts
    BY <1>2 DEF PolicyConstants, PolicyInv, PolicyTypes
  <1>4. these # {} => Policy!Min(these) \in these
    BY <1>3, LeastAccount
  <1> HIDE DEF these
  <1>5. Policy!Choice(q) \in these
    BY <1>1, <1>4
  <1> QED BY <1>2, <1>3, <1>5

LEMMA ChooseKeeps ==
  ASSUME PolicyConstants, PolicyInv, NEW r \in Requests, Policy!Choose(r)
  PROVE  PolicyInv'
  <1>1. /\ UNCHANGED generation /\ UNCHANGED eligible /\ UNCHANGED path /\ UNCHANGED aborted
        /\ UNCHANGED active /\ UNCHANGED child /\ UNCHANGED faults
    BY DEF Policy!Choose
  <1>2. PICK q \in Selection : q = request[r] /\ q.phase = "answered"
    BY PolicyFacts DEF Policy!Choose
  <1> DEFINE a == IF r \in aborted \/ path # q.scope THEN 0 ELSE Policy!Choice(q)
  <1>3. \/ generation # q.selection /\ Policy!RequestIs(r, Policy!Fresh) /\ UNCHANGED chosen
        \/ Policy!RequestIs(r, [q EXCEPT !.phase = "none"]) /\ UNCHANGED chosen
        \/ generation = q.selection /\ a # 0 /\ Policy!Serves(r, q, a)
    BY <1>2 DEF Policy!Choose, Policy!Null
  <1>4. UNCHANGED chosen => Policy!ChoiceHolds'
    BY DEF PolicyInv, Policy!ChoiceHolds
  <1>5. CASE Policy!RequestIs(r, Policy!Fresh) /\ UNCHANGED chosen
    <2>1. PICK f \in Selection : f = Policy!Fresh /\ f.phase = "selecting"
      <3>1. generation \in Nat /\ path \in Nat
        BY PolicyFacts
      <3>2. Policy!Fresh \in Selection /\ Policy!Fresh.phase = "selecting"
        BY <3>1 DEF Policy!Fresh, Selection, Policy!NoFrame, Policy!Line, Policy!Null, Lines, Policy!Errors
      <3> QED BY <3>2
    <2>2. Kept(f) /\ request' = [request EXCEPT ![r] = f]
      BY <1>5, <2>1 DEF Kept, Policy!RequestIs
    <2> QED BY <1>1, <1>2, <1>4, <1>5, <2>1, <2>2, RequestStep
  <1>6. CASE Policy!RequestIs(r, [q EXCEPT !.phase = "none"]) /\ UNCHANGED chosen
    <2> DEFINE f == [q EXCEPT !.phase = "none"]
    <2>1. f \in Selection /\ f.phase = "none"
      BY DEF Selection
    <2>2. request' = [request EXCEPT ![r] = f]
      BY <1>6 DEF Policy!RequestIs
    <2> HIDE DEF f
    <2>3. Kept(f)
      BY <2>1 DEF Kept
    <2> QED BY <1>1, <1>2, <1>4, <1>6, <2>1, <2>2, <2>3, RequestStep
  <1>7. CASE generation = q.selection /\ a # 0 /\ Policy!Serves(r, q, a)
    <2>1. r \notin aborted /\ path = q.scope /\ a = Policy!Choice(q) /\ a # 0
      BY <1>7
    <2>2. /\ a \in eligible /\ a \notin q.attempted /\ a \in Accounts
          /\ Strict /\ Preferred # {} => a \in Preferred
      BY <2>1, ChoiceIs
    <2>3. /\ request' = [request EXCEPT ![r] = [q EXCEPT !.phase = "serving", !.attempted = @ \cup {a}]]
          /\ chosen' = [account |-> a, eligible |-> a \in eligible, again |-> a \in q.attempted,
                        aborted |-> r \in aborted, moved |-> path # q.scope,
                        replaced |-> generation # q.selection, retired |-> generation # q.manager]
      BY <1>7 DEF Policy!Serves, Policy!RequestIs
    <2> HIDE DEF a
    <2>4. PICK b \in SUBSET Accounts : b = q.attempted \cup {a}
      BY <2>2 DEF Selection
    <2> DEFINE f == [q EXCEPT !.phase = "serving", !.attempted = b]
    <2>5. f \in Selection /\ f.phase = "serving"
      BY DEF Selection
    <2>6. request' = [request EXCEPT ![r] = f]
      BY <2>3, <2>4
    <2> HIDE DEF f
    <2>7. Kept(f)
      BY <2>5 DEF Kept
    <2>8. Policy!ChoiceHolds'
      BY <1>7, <2>1, <2>2, <2>3 DEF Policy!ChoiceHolds
    <2> QED BY <1>1, <1>2, <2>5, <2>6, <2>7, <2>8, RequestStep
  <1> QED BY <1>3, <1>5, <1>6, <1>7

LEMMA AttemptKeeps ==
  ASSUME PolicyConstants, PolicyInv, NEW r \in Requests, Policy!Attempt(r)
  PROVE  PolicyInv'
  <1>1. /\ UNCHANGED generation /\ UNCHANGED eligible /\ UNCHANGED path /\ UNCHANGED aborted
        /\ UNCHANGED active /\ UNCHANGED child /\ UNCHANGED faults /\ UNCHANGED chosen
    BY DEF Policy!Attempt
  <1>2. PICK q \in Selection : q = request[r] /\ q.phase = "serving"
    BY PolicyFacts DEF Policy!Attempt
  <1>3. PICK p \in {"done", "none", "selecting"} : request' = [request EXCEPT ![r] = [q EXCEPT !.phase = p]]
    BY <1>2 DEF Policy!Attempt, Policy!RequestIs
  <1> DEFINE f == [q EXCEPT !.phase = p]
  <1>4. f \in Selection /\ f.phase = p
    BY DEF Selection
  <1>5. request' = [request EXCEPT ![r] = f]
    BY <1>3
  <1> HIDE DEF f
  <1>6. Kept(f) /\ f.phase # "asking"
    BY <1>4 DEF Kept
  <1>7. Policy!ChoiceHolds'
    BY <1>1 DEF PolicyInv, Policy!ChoiceHolds
  <1> QED BY <1>1, <1>2, <1>4, <1>5, <1>6, <1>7, RequestStep

\* An account is blocked or freed, the pool is reloaded, the storage moves.
LEMMA OthersKeep ==
  ASSUME PolicyConstants, PolicyInv,
         \/ \E a \in Accounts : Policy!Block(a)
         \/ Policy!Reload
         \/ Policy!Move
  PROVE  PolicyInv'
  <1>1. /\ UNCHANGED aborted /\ UNCHANGED active /\ UNCHANGED request /\ UNCHANGED child
        /\ UNCHANGED chosen
    BY DEF Policy!Block, Policy!Reload, Policy!Move
  <1>2. faults' \in 0..MaxFaults /\ faults <= faults' /\ faults' = faults + 1
    BY Faulty DEF Policy!Block, Policy!Reload, Policy!Move
  <1>3. eligible' \subseteq Accounts
    BY DEF Policy!Block, Policy!Reload, Policy!Move, PolicyInv, PolicyTypes
  <1>4. generation' \in {generation, generation + 1} /\ path' \in {path, path + 1}
    BY DEF Policy!Block, Policy!Reload, Policy!Move
  <1>5. generation' \in 1..faults' + 1 /\ path' \in 1..faults' + 1
    <2>1. faults \in Nat /\ generation \in 1..faults + 1 /\ path \in 1..faults + 1
      BY DEF PolicyInv, PolicyTypes, PolicyConstants
    <2> QED BY <1>2, <1>4, <2>1
  <1>6. PolicyTypes'
    BY <1>1, <1>2, <1>3, <1>5 DEF PolicyInv, PolicyTypes
  <1>7. Slots' /\ Answers' /\ Policy!ChoiceHolds'
    BY <1>1 DEF PolicyInv, Slots, Answers, Children, Policy!ChoiceHolds
  <1> QED BY <1>6, <1>7 DEF PolicyInv

LEMMA PolicyStarts ==
  ASSUME PolicyConstants, Policy!Init
  PROVE  PolicyInv
  <1>1. /\ generation = 1 /\ eligible = Accounts /\ path = 1 /\ aborted = {} /\ active = 0
        /\ request = [r \in Requests |-> Policy!Fresh] /\ child = [r \in Requests |-> Policy!NoChild]
        /\ chosen = Policy!NoChoice /\ faults = 0
    BY DEF Policy!Init
  <1>2. Policy!Fresh \in Selection /\ Policy!Fresh.phase = "selecting"
    BY <1>1 DEF Policy!Fresh, Selection, Policy!NoFrame, Policy!Line, Policy!Null, Lines, Policy!Errors
  <1>3. Policy!NoChild \in Child /\ Policy!NoChild.phase = "none" /\ Ends(Policy!NoChild)
    BY DEF Policy!NoChild, Child, Ends, Lines, Policy!NoFrame, Policy!Line, Policy!Null, Policy!Errors
  <1>4. \A r \in Requests : /\ request[r].phase = "selecting"
                            /\ child[r].phase = "none" /\ Ends(child[r])
    BY <1>1, <1>2, <1>3
  <1>5. PolicyTypes
    BY <1>1, <1>2, <1>3 DEF PolicyTypes, PolicyConstants
  <1>6. Slots
    <2>1. Children = {}
      BY <1>4 DEF Children
    <2> QED BY <1>1, <1>4, <2>1, FS_EmptySet DEF Slots
  <1>7. Answers
    BY <1>4 DEF Answers, Kept
  <1>8. Policy!ChoiceHolds
    BY <1>1 DEF Policy!ChoiceHolds, Policy!NoChoice, Policy!Null
  <1> QED BY <1>5, <1>6, <1>7, <1>8 DEF PolicyInv

LEMMA PolicySteps ==
  ASSUME PolicyConstants, PolicyInv, [Policy!Next]_Policy!vars
  PROVE  PolicyInv'
  <1>1. ASSUME \/ \E a \in Accounts : Policy!Block(a)
               \/ Policy!Reload
               \/ Policy!Move
        PROVE  PolicyInv'
    BY <1>1, OthersKeep
  <1>2. ASSUME NEW r \in Requests, Policy!Abort(r) PROVE PolicyInv'
    BY <1>2, AbortKeeps
  <1>3. ASSUME NEW r \in Requests, Policy!Deadline(r) PROVE PolicyInv'
    BY <1>3, DeadlineKeeps
  <1>4. ASSUME NEW r \in Requests, Policy!Flood(r) PROVE PolicyInv'
    BY <1>4, FloodKeeps
  <1>5. ASSUME NEW r \in Requests, Policy!SpawnFails(r) PROVE PolicyInv'
    BY <1>5, SpawnFailsKeeps
  <1>6. ASSUME NEW r \in Requests, Policy!StdinFails(r) PROVE PolicyInv'
    BY <1>6, StdinFailsKeeps
  <1>7. ASSUME NEW r \in Requests, NEW f \in Policy!Frames, Policy!Frame(r, f) PROVE PolicyInv'
    BY <1>7, FrameKeeps
  <1>8. ASSUME NEW r \in Requests, Policy!ChildExits(r) PROVE PolicyInv'
    BY <1>8, ChildExitsKeeps
  <1>9. ASSUME NEW r \in Requests, Policy!TreeGone(r) PROVE PolicyInv'
    BY <1>9, TreeGoneKeeps
  <1>10. ASSUME NEW r \in Requests, Policy!Finish(r) PROVE PolicyInv'
    BY <1>10, FinishKeeps
  <1>11. ASSUME NEW r \in Requests, Policy!Settle(r) PROVE PolicyInv'
    BY <1>11, SlotReturned
  <1>12. ASSUME NEW r \in Requests, Policy!Select(r) PROVE PolicyInv'
    BY <1>12, SelectKeeps
  <1>13. ASSUME NEW r \in Requests, Policy!Choose(r) PROVE PolicyInv'
    BY <1>13, ChooseKeeps
  <1>14. ASSUME NEW r \in Requests, Policy!Attempt(r) PROVE PolicyInv'
    BY <1>14, AttemptKeeps
  <1>15. CASE UNCHANGED Policy!vars
    <2>1. /\ UNCHANGED generation /\ UNCHANGED eligible /\ UNCHANGED path /\ UNCHANGED aborted
          /\ UNCHANGED active /\ UNCHANGED request /\ UNCHANGED child /\ UNCHANGED chosen
          /\ UNCHANGED faults
      BY <1>15 DEF Policy!vars
    <2> QED BY <2>1 DEF PolicyInv, PolicyTypes, Slots, Answers, Children, Policy!ChoiceHolds
  <1> QED
    BY <1>1, <1>2, <1>3, <1>4, <1>5, <1>6, <1>7, <1>8, <1>9, <1>10, <1>11, <1>12, <1>13, <1>14, <1>15
    DEF Policy!Next

LEMMA PolicySound ==
  ASSUME PolicyConstants, PolicyInv
  PROVE  Policy!TypeOK /\ Policy!SelectionSafe
  <1>1. Policy!TypeOK
    <2>1. generation \in 1..MaxFaults + 1 /\ path \in 1..MaxFaults + 1
      BY DEF PolicyConstants, PolicyInv, PolicyTypes
    <2>2. \A r \in Requests :
            /\ request[r].phase \in {"selecting", "asking", "answered", "serving", "none", "done"}
            /\ request[r].error \in Policy!Errors /\ request[r].result \in {0} \cup Accounts
            /\ child[r].phase \in {"none", "running", "settled"} /\ child[r].error \in Policy!Errors
            /\ child[r].tree \in {"alive", "dying", "dead"} /\ child[r].code \in {"none", "zero", "one", "null"}
      BY DEF PolicyInv, PolicyTypes, Selection, Child
    <2> QED BY <2>1, <2>2 DEF PolicyInv, PolicyTypes, Policy!TypeOK, Policy!Null
  <1>2. Policy!SlotsCounted
    <2>1. Policy!Cardinality(Children) = Cardinality(Children)
      BY SamePolicyCount
    <2> QED BY <2>1 DEF PolicyInv, Slots, Children, Policy!SlotsCounted
  <1>3. Policy!NeverStuck
    BY DEF PolicyInv, Answers, Ends, Policy!NeverStuck
  <1>4. Policy!AnswerKept
    BY DEF PolicyInv, Answers, Kept, Excuses, Policy!AnswerKept
  <1> QED BY <1>1, <1>2, <1>3, <1>4 DEF PolicyInv, Policy!SelectionSafe

(***************************************************************************)
(* For every set of requests and accounts, pool, mode and limit: a policy's *)
(* child gives its slot back once, something will end it, an answer in     *)
(* time does not turn into a timeout, and the account that serves may      *)
(* serve then (lib/custom-rotation/runner.ts, selection.ts).               *)
(***************************************************************************)
THEOREM PoliciesStaySafe ==
  ASSUME PolicyConstants
  PROVE  Policy!Spec => [](Policy!TypeOK /\ Policy!SelectionSafe)
  <1>1. Policy!Init => PolicyInv
    BY PolicyStarts
  <1>2. PolicyInv /\ [Policy!Next]_Policy!vars => PolicyInv'
    BY PolicySteps
  <1>3. PolicyInv => Policy!TypeOK /\ Policy!SelectionSafe
    BY PolicySound
  <1> QED BY <1>1, <1>2, <1>3, PTL DEF Policy!Spec

(***************************************************************************)
(* The prompts that the processes fetch and share.                         *)
(***************************************************************************)
Instructions ==
  INSTANCE PromptCache WITH Faults <- Troubles, MaxFaults <- MaxTroubles, answer <- reply,
                            faults <- troubles

\* There is somewhere to fetch from.
PromptConstants ==
  /\ Sources \in Seq(STRING) /\ Len(Sources) # 0
  /\ MaxVersion \in Nat \ {0} /\ MaxTroubles \in Nat

-----------------------------------------------------------------------------
\* What may be served.
Servable == Instructions!Texts \cup {Instructions!Bundled, Instructions!None}

Meta == [sha : Servable, etag : Servable, tag : Nat]

Job ==
  [owner : Processes \cup {""}, kind : {"none", "cold", "background"},
   step : {"", "tag", "fetch", "write"}, source : 1..Len(Sources), version : 0..upstream,
   plain : BOOLEAN, meta : Meta, disk : Servable, text : Servable, etag : Servable,
   due : SUBSET {"body", "meta"}]

Memory == [text : Servable, fresh : BOOLEAN]

PromptTypes ==
  /\ upstream \in 1..MaxVersion /\ troubles \in 0..MaxTroubles
  /\ body \in Instructions!Texts \cup {Instructions!None, Instructions!Junk}
  /\ meta \in Meta /\ meta.sha \in Instructions!Texts \cup {Instructions!None}
  /\ memory \in [Processes -> Memory]
  /\ failed \in [Processes -> BOOLEAN]
  /\ tag \in [Processes -> [version : 0..upstream, fresh : BOOLEAN]]
  /\ reply \in [Processes -> Servable]
  /\ job \in [Jobs -> Job]

\* A fetch belongs to a process and is for a version that upstream has had; what it
\* writes is one of upstream's texts.
Fetching(x) ==
  /\ x.step # "" => x.owner \in Processes
  /\ x.step \in {"fetch", "write"} /\ Codex => x.version # 0
  /\ x.step = "write" => x.text \in Instructions!Texts

PromptInv ==
  /\ PromptTypes
  /\ \A p \in Processes : tag[p].fresh = TRUE => tag[p].version # 0
  /\ \A j \in Jobs : Fetching(job[j])

-----------------------------------------------------------------------------
LEMMA PromptFacts ==
  ASSUME PromptConstants, PromptTypes
  PROVE  /\ upstream \in Nat \ {0} /\ troubles \in Nat
         /\ Len(Sources) \in Nat \ {0} /\ DOMAIN Sources = 1..Len(Sources)
         /\ Instructions!None \in Servable /\ Instructions!Bundled \in Servable /\ Instructions!Texts \subseteq Servable
         /\ \A j \in Jobs : job[j] \in Job
         /\ \A i \in 1..Len(Sources), v \in 1..upstream : <<Sources[i], v>> \in Instructions!Texts
         /\ Instructions!None \notin Instructions!Texts /\ Instructions!Junk \notin Instructions!Texts
  <1>1. upstream \in Nat \ {0} /\ troubles \in Nat
    BY DEF PromptConstants, PromptTypes
  <1>2. Len(Sources) \in Nat \ {0} /\ DOMAIN Sources = 1..Len(Sources)
    BY LenProperties DEF PromptConstants
  <1>3. \A i \in 1..Len(Sources), v \in 1..upstream : <<Sources[i], v>> \in Instructions!Texts
    BY <1>2 DEF Instructions!Texts
  <1>4. Instructions!None \notin Instructions!Texts /\ Instructions!Junk \notin Instructions!Texts
    BY <1>1 DEF Instructions!Texts, Instructions!None, Instructions!Junk
  <1>5. \A j \in Jobs : job[j] \in Job
    BY DEF PromptTypes
  <1> QED BY <1>1, <1>2, <1>3, <1>4, <1>5 DEF Servable

\* Upstream as it was: the types and what holds of the tags and of the fetches.
LEMMA TagStep ==
  ASSUME PromptConstants, PromptInv, UNCHANGED upstream,
         troubles' \in 0..MaxTroubles,
         body' \in Instructions!Texts \cup {Instructions!None, Instructions!Junk},
         meta' \in Meta, meta'.sha \in Instructions!Texts \cup {Instructions!None},
         memory' \in [Processes -> Memory], failed' \in [Processes -> BOOLEAN],
         tag' \in [Processes -> [version : 0..upstream, fresh : BOOLEAN]],
         \A p \in Processes : tag'[p].fresh = TRUE => tag'[p].version # 0,
         reply' \in [Processes -> Servable],
         job' \in [Jobs -> Job], \A j \in Jobs : Fetching(job'[j])
  PROVE  PromptInv'
  <1>1. Instructions!Texts' = Instructions!Texts
    BY DEF Instructions!Texts
  <1>2. Servable' = Servable
    BY <1>1 DEF Servable
  <1>3. Meta' = Meta /\ Memory' = Memory
    BY <1>2 DEF Meta, Memory
  <1>4. Job' = Job
    BY <1>2, <1>3 DEF Job
  <1>5. upstream' \in 1..MaxVersion
    BY DEF PromptInv, PromptTypes
  <1>6. PromptTypes'
    BY <1>1, <1>2, <1>3, <1>4, <1>5 DEF PromptTypes
  <1>7. \A j \in Jobs : Fetching(job[j])'
    <2> SUFFICES ASSUME NEW j \in Jobs  PROVE Fetching(job[j])'
      OBVIOUS
    <2>1. PICK x \in Job : x = job'[j] /\ Fetching(x)
      OBVIOUS
    <2> QED BY <1>1, <2>1 DEF Fetching
  <1> QED BY <1>6, <1>7 DEF PromptInv

\* The same, where the tags are as they were.
LEMMA PromptStep ==
  ASSUME PromptConstants, PromptInv, UNCHANGED upstream, UNCHANGED tag,
         troubles' \in 0..MaxTroubles,
         body' \in Instructions!Texts \cup {Instructions!None, Instructions!Junk},
         meta' \in Meta, meta'.sha \in Instructions!Texts \cup {Instructions!None},
         memory' \in [Processes -> Memory], failed' \in [Processes -> BOOLEAN],
         reply' \in [Processes -> Servable],
         job' \in [Jobs -> Job], \A j \in Jobs : Fetching(job'[j])
  PROVE  PromptInv'
  <1>1. /\ tag' \in [Processes -> [version : 0..upstream, fresh : BOOLEAN]]
        /\ \A p \in Processes : tag'[p].fresh = TRUE => tag'[p].version # 0
    BY DEF PromptInv, PromptTypes
  <1> QED BY <1>1, TagStep

LEMMA OneJob ==
  ASSUME PromptConstants, PromptInv, NEW j \in Jobs, NEW x \in Job, Fetching(x),
         job' = [job EXCEPT ![j] = x]
  PROVE  /\ job' \in [Jobs -> Job] /\ \A i \in Jobs : Fetching(job'[i])
  <1>1. /\ job' \in [Jobs -> Job] /\ job'[j] = x
        /\ \A i \in Jobs : i # j => job'[i] = job[i]
    BY DEF PromptInv, PromptTypes
  <1> QED BY <1>1 DEF PromptInv

LEMMA NoJobIs ==
  ASSUME PromptConstants, PromptInv
  PROVE  /\ Instructions!NoJob \in Job /\ Fetching(Instructions!NoJob) /\ Instructions!NoJob.step = ""
         /\ Instructions!NoMeta \in Meta /\ Instructions!NoMeta.sha = Instructions!None /\ Instructions!NoMemory \in Memory
         /\ Instructions!NoMemory.text = Instructions!None
  <1>1. Instructions!NoMeta \in Meta /\ Instructions!NoMeta.sha = Instructions!None /\ Instructions!NoMemory \in Memory
        /\ Instructions!NoMemory.text = Instructions!None
    BY PromptFacts DEF PromptInv, Instructions!NoMeta, Meta, Instructions!NoMemory, Memory
  <1>2. Instructions!None \in Servable /\ 1 \in 1..Len(Sources) /\ 0 \in 0..upstream
    BY PromptFacts DEF PromptInv
  <1>3. Instructions!NoJob \in Job /\ Instructions!NoJob.step = ""
    BY <1>1, <1>2 DEF Instructions!NoJob, Job
  <1> QED BY <1>1, <1>3 DEF Fetching

\* A fetch begins, with what the process has at hand.
LEMMA StartedIs ==
  ASSUME PromptConstants, PromptInv, NEW j \in Jobs, NEW p \in Processes,
         NEW kind \in {"cold", "background"}, Instructions!Started(j, p, kind)
  PROVE  job' \in [Jobs -> Job] /\ \A i \in Jobs : Fetching(job'[i])
  <1>1. PICK v \in Servable : v = Instructions!Verified
    BY PromptFacts DEF PromptInv, PromptTypes, Instructions!Verified, Instructions!Bound, Servable
  <1>2. memory[p] \in Memory
    BY DEF PromptInv, PromptTypes
  <1>3. memory[p].text \in Servable
    BY <1>2 DEF Memory
  <1>4. PICK d \in Servable : d = IF Codex \/ kind = "cold" THEN Instructions!Verified ELSE memory[p].text
    BY <1>1, <1>3
  <1>5. PICK z \in Meta : z = Instructions!NoMeta
    BY NoJobIs
  <1> DEFINE mine == [z EXCEPT !.etag = memory[p].text, !.sha = memory[p].text]
  <1>6. mine \in Meta
    BY <1>3 DEF Meta
  <1>7. PICK m \in Meta : m = IF Codex \/ kind = "cold" THEN meta ELSE mine
    BY <1>6 DEF PromptInv, PromptTypes
  <1>8. PICK s \in {"tag", "fetch"} : s = IF Codex THEN "tag" ELSE "fetch"
    OBVIOUS
  <1>9. PICK n \in Job : n = Instructions!NoJob
    BY NoJobIs
  <1> DEFINE x == [n EXCEPT !.owner = p, !.kind = kind, !.step = s, !.meta = m, !.disk = d]
  <1>10. job' = [job EXCEPT ![j] = x]
    BY <1>4, <1>5, <1>7, <1>8, <1>9 DEF Instructions!Started
  <1>11. x \in Job /\ x.owner = p /\ x.step = s
    BY DEF Job
  <1> HIDE DEF x
  <1>12. Fetching(x)
    BY <1>8, <1>11 DEF Fetching
  <1> QED BY <1>10, <1>11, <1>12, OneJob

LEMMA FromMemoryKeeps ==
  ASSUME PromptConstants, PromptInv, NEW p \in Processes, Instructions!FromMemory(p)
  PROVE  PromptInv'
  <1>1. /\ UNCHANGED upstream /\ UNCHANGED body /\ UNCHANGED meta /\ UNCHANGED failed
        /\ UNCHANGED tag /\ UNCHANGED troubles
        /\ reply' = [reply EXCEPT ![p] = memory[p].text]
    BY DEF Instructions!FromMemory
  <1>2. memory[p] \in Memory /\ memory[p].text \in Servable
    BY DEF PromptInv, PromptTypes, Memory
  <1>3. reply' \in [Processes -> Servable]
    BY <1>1, <1>2 DEF PromptInv, PromptTypes
  <1>4. memory' \in [Processes -> Memory]
    <2>1. PICK m \in Memory : m = memory[p]
      BY <1>2
    <2>2. [m EXCEPT !.fresh = TRUE] \in Memory
      BY DEF Memory
    <2>3. [memory EXCEPT ![p].fresh = TRUE] = [memory EXCEPT ![p] = [m EXCEPT !.fresh = TRUE]]
      BY <2>1 DEF PromptInv, PromptTypes
    <2> QED BY <2>2, <2>3 DEF PromptInv, PromptTypes, Instructions!FromMemory
  <1>5. job' \in [Jobs -> Job] /\ \A i \in Jobs : Fetching(job'[i])
    <2>1. CASE UNCHANGED job BY <2>1 DEF PromptInv, PromptTypes
    <2>2. CASE \E j \in Instructions!Idle : Instructions!Started(j, p, "background")
      BY <2>2, StartedIs DEF Instructions!Idle
    <2> QED BY <2>1, <2>2 DEF Instructions!FromMemory
  <1> QED BY <1>1, <1>3, <1>4, <1>5, PromptStep DEF PromptInv, PromptTypes

LEMMA FallBackIs ==
  ASSUME PromptConstants, PromptInv, NEW p \in Processes, NEW disk \in Servable, Instructions!FallBack(p, disk)
  PROVE  reply' \in [Processes -> Servable] /\ memory' \in [Processes -> Memory]
  <1>1. Instructions!None \in Servable /\ Instructions!Bundled \in Servable
    BY PromptFacts DEF PromptInv
  <1>2. [text |-> Instructions!Bundled, fresh |-> TRUE] \in Memory
    BY <1>1 DEF Memory
  <1>3. reply' \in [Processes -> Servable]
    BY <1>1 DEF Instructions!FallBack, PromptInv, PromptTypes
  <1>4. memory' \in [Processes -> Memory]
    BY <1>2 DEF Instructions!FallBack, PromptInv, PromptTypes
  <1> QED BY <1>3, <1>4

LEMMA ColdKeeps ==
  ASSUME PromptConstants, PromptInv, NEW p \in Processes, Instructions!Cold(p)
  PROVE  PromptInv'
  <1>1. /\ UNCHANGED upstream /\ UNCHANGED body /\ UNCHANGED meta /\ UNCHANGED failed
        /\ UNCHANGED tag /\ UNCHANGED troubles
    BY DEF Instructions!Cold
  <1>2. CASE Instructions!FallBack(p, Instructions!Verified) /\ UNCHANGED job
    <2>1. PICK v \in Servable : v = Instructions!Verified
      BY PromptFacts DEF PromptInv, PromptTypes, Instructions!Verified, Instructions!Bound, Servable
    <2>2. reply' \in [Processes -> Servable] /\ memory' \in [Processes -> Memory]
      BY <1>2, <2>1, FallBackIs
    <2> QED BY <1>1, <1>2, <2>2, PromptStep DEF PromptInv, PromptTypes
  <1>3. CASE UNCHANGED reply /\ UNCHANGED memory /\ \E j \in Instructions!Idle : Instructions!Started(j, p, "cold")
    <2>1. job' \in [Jobs -> Job] /\ \A i \in Jobs : Fetching(job'[i])
      BY <1>3, StartedIs DEF Instructions!Idle
    <2> QED BY <1>1, <1>3, <2>1, PromptStep DEF PromptInv, PromptTypes
  <1> QED BY <1>2, <1>3 DEF Instructions!Cold

LEMMA TagKeeps ==
  ASSUME PromptConstants, PromptInv, NEW j \in Jobs, Instructions!Tag(j)
  PROVE  PromptInv'
  <1>1. /\ UNCHANGED upstream /\ UNCHANGED body /\ UNCHANGED meta /\ UNCHANGED failed
        /\ UNCHANGED memory /\ UNCHANGED reply /\ UNCHANGED troubles /\ job[j].step = "tag"
    BY DEF Instructions!Tag
  <1>2. PICK o \in Job : o = job[j] /\ o.step = "tag" /\ o.owner \in Processes
    BY <1>1, PromptFacts DEF PromptInv, Fetching
  <1>3. PICK t \in [version : 0..upstream, fresh : BOOLEAN] :
          t = tag[o.owner] /\ (t.fresh = TRUE => t.version # 0)
    BY <1>2 DEF PromptInv, PromptTypes
  <1>4. PICK v \in 1..upstream : v = IF t.fresh THEN t.version ELSE upstream
    <2>1. upstream \in 1..upstream
      BY PromptFacts DEF PromptInv
    <2>2. t.version \in 0..upstream /\ upstream \in Nat
      BY PromptFacts DEF PromptInv
    <2>3. t.version # 0 => t.version \in 1..upstream
      BY <2>2
    <2> QED BY <1>3, <2>1, <2>3
  <1>5. /\ tag' = [tag EXCEPT ![o.owner] = [version |-> v, fresh |-> TRUE]]
        /\ job' = [job EXCEPT ![j].step = "fetch", ![j].version = v]
    BY <1>2, <1>3, <1>4 DEF Instructions!Tag
  <1> DEFINE x == [o EXCEPT !.step = "fetch", !.version = v]
  <1>6. x \in Job /\ x.step = "fetch" /\ x.version = v /\ x.owner = o.owner /\ v # 0
    <2>1. v \in 0..upstream /\ v # 0
      BY PromptFacts DEF PromptInv
    <2> QED BY <2>1 DEF Job
  <1>7. job' = [job EXCEPT ![j] = x]
    BY <1>2, <1>5 DEF PromptInv, PromptTypes
  <1> HIDE DEF x
  <1>8. Fetching(x)
    BY <1>2, <1>6 DEF Fetching
  <1>9. job' \in [Jobs -> Job] /\ \A i \in Jobs : Fetching(job'[i])
    BY <1>6, <1>7, <1>8, OneJob
  <1>10. [version |-> v, fresh |-> TRUE] \in [version : 0..upstream, fresh : BOOLEAN]
    BY PromptFacts DEF PromptInv
  <1>11. tag' \in [Processes -> [version : 0..upstream, fresh : BOOLEAN]]
    BY <1>2, <1>5, <1>10 DEF PromptInv, PromptTypes
  <1>12. \A p \in Processes : tag'[p].fresh = TRUE => tag'[p].version # 0
    <2> TAKE p \in Processes
    <2>1. CASE p = o.owner BY <1>2, <1>4, <1>5, <2>1 DEF PromptInv, PromptTypes
    <2>2. CASE p # o.owner BY <1>5, <2>2 DEF PromptInv, PromptTypes
    <2> QED BY <2>1, <2>2
  <1> QED BY <1>1, <1>9, <1>11, <1>12, TagStep DEF PromptInv, PromptTypes

\* What a fetch asks for, upstream has published.
LEMMA ServedIs ==
  ASSUME PromptConstants, PromptInv, NEW j \in Jobs, job[j].step = "fetch"
  PROVE  Instructions!Served(j) \in Instructions!Texts
  <1>1. PICK o \in Job : o = job[j] /\ (Codex => o.version # 0)
    BY PromptFacts DEF PromptInv, Fetching
  <1>2. o.source \in 1..Len(Sources) /\ o.version \in 0..upstream
    BY DEF Job
  <1>3. Codex => o.version \in 1..upstream
    BY <1>1, <1>2, PromptFacts DEF PromptInv
  <1>4. upstream \in 1..upstream
    BY PromptFacts DEF PromptInv
  <1> QED BY <1>1, <1>2, <1>3, <1>4, PromptFacts DEF PromptInv, Instructions!Served

LEMMA UnchangedKeeps ==
  ASSUME PromptConstants, PromptInv, NEW j \in Jobs, Instructions!Unchanged(j)
  PROVE  PromptInv'
  <1>1. /\ UNCHANGED upstream /\ UNCHANGED body /\ UNCHANGED meta /\ UNCHANGED failed
        /\ UNCHANGED tag /\ UNCHANGED reply /\ UNCHANGED troubles /\ job[j].step = "fetch"
        /\ Instructions!NotModified(j)
    BY DEF Instructions!Unchanged
  <1>2. PICK o \in Job : o = job[j] /\ o.step = "fetch" /\ o.owner \in Processes /\ Fetching(o)
    BY <1>1, PromptFacts DEF PromptInv, Fetching
  <1>3. PICK here \in Servable \cup {Instructions!Junk} : here = IF Codex THEN body ELSE o.disk
    BY DEF PromptInv, PromptTypes, Job, Servable
  <1>4. o.meta.etag \in Instructions!Texts
    BY <1>1, <1>2, ServedIs DEF Instructions!NotModified
  <1>5. CASE Instructions!Bound(here, o.meta.etag)
    <2>1. here \in Instructions!Texts /\ here \in Servable
      BY <1>4, <1>5, PromptFacts DEF PromptInv, Instructions!Bound
    <2>2. /\ memory' = [memory EXCEPT ![o.owner] = [text |-> here, fresh |-> TRUE]]
          /\ job' = [job EXCEPT ![j].step = "write", ![j].text = here, ![j].etag = here,
                                ![j].due = {"meta"}]
      BY <1>2, <1>3, <1>5 DEF Instructions!Unchanged
    <2> DEFINE x == [o EXCEPT !.step = "write", !.text = here, !.etag = here, !.due = {"meta"}]
    <2>3. x \in Job /\ x.step = "write" /\ x.owner = o.owner /\ x.version = o.version /\ x.text = here
      BY <2>1 DEF Job
    <2>4. job' = [job EXCEPT ![j] = x]
      BY <1>2, <2>2 DEF PromptInv, PromptTypes
    <2> HIDE DEF x
    <2>5. Fetching(x)
      BY <1>2, <2>1, <2>3 DEF Fetching
    <2>6. job' \in [Jobs -> Job] /\ \A i \in Jobs : Fetching(job'[i])
      BY <2>3, <2>4, <2>5, OneJob
    <2>7. memory' \in [Processes -> Memory]
      BY <2>1, <2>2 DEF PromptInv, PromptTypes, Memory
    <2> QED BY <1>1, <2>6, <2>7, PromptStep DEF PromptInv, PromptTypes
  <1>6. CASE ~Instructions!Bound(here, o.meta.etag)
    <2>1. UNCHANGED memory /\ job' = [job EXCEPT ![j].plain = TRUE]
      BY <1>2, <1>3, <1>6 DEF Instructions!Unchanged
    <2> DEFINE x == [o EXCEPT !.plain = TRUE]
    <2>2. x \in Job /\ x.step = "fetch" /\ x.owner = o.owner /\ x.version = o.version
      BY <1>2 DEF Job
    <2>3. job' = [job EXCEPT ![j] = x]
      BY <1>2, <2>1 DEF PromptInv, PromptTypes
    <2> HIDE DEF x
    <2>4. Fetching(x)
      BY <1>2, <2>2 DEF Fetching
    <2>5. job' \in [Jobs -> Job] /\ \A i \in Jobs : Fetching(job'[i])
      BY <2>2, <2>3, <2>4, OneJob
    <2> QED BY <1>1, <2>1, <2>5, PromptStep DEF PromptInv, PromptTypes
  <1> QED BY <1>5, <1>6

LEMMA FetchedKeeps ==
  ASSUME PromptConstants, PromptInv, NEW j \in Jobs, Instructions!Fetched(j)
  PROVE  PromptInv'
  <1>1. /\ UNCHANGED upstream /\ UNCHANGED body /\ UNCHANGED meta /\ UNCHANGED failed
        /\ UNCHANGED tag /\ UNCHANGED reply /\ UNCHANGED troubles /\ UNCHANGED memory
        /\ job[j].step = "fetch"
    BY DEF Instructions!Fetched
  <1>2. PICK o \in Job : o = job[j] /\ o.step = "fetch" /\ Fetching(o)
    BY <1>1, PromptFacts DEF PromptInv
  <1>3. PICK text \in Instructions!Texts : text = Instructions!Served(j) /\ text \in Servable
    BY <1>1, ServedIs, PromptFacts DEF PromptInv
  <1>4. PICK etag \in Servable : etag = IF text[1] = "catalog" THEN Instructions!None ELSE text
    BY <1>3, PromptFacts DEF PromptInv
  <1>5. job' = [job EXCEPT ![j].step = "write", ![j].text = text, ![j].due = {"body", "meta"},
                           ![j].etag = etag]
    BY <1>3, <1>4 DEF Instructions!Fetched
  <1> DEFINE x == [o EXCEPT !.step = "write", !.text = text, !.due = {"body", "meta"}, !.etag = etag]
  <1>6. x \in Job /\ x.step = "write" /\ x.owner = o.owner /\ x.version = o.version /\ x.text = text
    BY <1>3 DEF Job
  <1>7. job' = [job EXCEPT ![j] = x]
    BY <1>2, <1>5 DEF PromptInv, PromptTypes
  <1> HIDE DEF x
  <1>8. Fetching(x)
    BY <1>2, <1>6 DEF Fetching
  <1>9. job' \in [Jobs -> Job] /\ \A i \in Jobs : Fetching(job'[i])
    BY <1>6, <1>7, <1>8, OneJob
  <1> QED BY <1>1, <1>9, PromptStep DEF PromptInv, PromptTypes

LEMMA PromptWriteKeeps ==
  ASSUME PromptConstants, PromptInv, NEW j \in Jobs, Instructions!Write(j)
  PROVE  PromptInv'
  <1>1. /\ UNCHANGED upstream /\ UNCHANGED failed /\ UNCHANGED tag /\ UNCHANGED reply
        /\ UNCHANGED troubles /\ UNCHANGED memory /\ job[j].step = "write"
    BY DEF Instructions!Write
  <1>2. PICK o \in Job : o = job[j] /\ o.step = "write" /\ Fetching(o) /\ o.text \in Instructions!Texts
    BY <1>1, PromptFacts DEF PromptInv, Fetching
  <1>3. PICK due \in SUBSET {"body", "meta"}, which \in {"body", "meta"} :
          /\ job' = [job EXCEPT ![j].due = due]
          /\ \/ which = "body" /\ body' = o.text /\ UNCHANGED meta
             \/ /\ which = "meta" /\ meta' = [sha |-> o.text, etag |-> o.etag, tag |-> o.version]
                /\ UNCHANGED body
    <2>1. PICK which \in o.due :
            /\ job' = [job EXCEPT ![j].due = @ \ {which}]
            /\ IF which = "body" THEN body' = o.text /\ UNCHANGED meta
               ELSE meta' = [sha |-> o.text, etag |-> o.etag, tag |-> o.version] /\ UNCHANGED body
      BY <1>2 DEF Instructions!Write
    <2>2. which \in {"body", "meta"} /\ o.due \ {which} \in SUBSET {"body", "meta"}
      BY DEF Job
    <2>3. job' = [job EXCEPT ![j].due = o.due \ {which}]
      BY <1>2, <2>1
    <2> QED BY <2>1, <2>2, <2>3
  <1> DEFINE x == [o EXCEPT !.due = due]
  <1>4. x \in Job /\ x.step = o.step /\ x.owner = o.owner /\ x.version = o.version /\ x.text = o.text
    BY DEF Job
  <1>5. job' = [job EXCEPT ![j] = x]
    BY <1>2, <1>3 DEF PromptInv, PromptTypes
  <1> HIDE DEF x
  <1>6. Fetching(x)
    BY <1>2, <1>4 DEF Fetching
  <1>7. job' \in [Jobs -> Job] /\ \A i \in Jobs : Fetching(job'[i])
    BY <1>4, <1>5, <1>6, OneJob
  <1>8. /\ body' \in Instructions!Texts \cup {Instructions!None, Instructions!Junk}
        /\ meta' \in Meta /\ meta'.sha \in Instructions!Texts \cup {Instructions!None}
    <2>1. /\ body \in Instructions!Texts \cup {Instructions!None, Instructions!Junk}
          /\ meta \in Meta /\ meta.sha \in Instructions!Texts \cup {Instructions!None}
      BY DEF PromptInv, PromptTypes
    <2>2. o.version \in Nat /\ o.etag \in Servable /\ o.text \in Servable
      <3>1. o.version \in 0..upstream /\ upstream \in Nat
        BY PromptFacts DEF PromptInv, Job
      <3>2. o.version \in Nat
        BY <3>1
      <3>3. o.etag \in Servable /\ o.text \in Servable
        BY DEF Job
      <3> QED BY <3>2, <3>3
    <2>3. [sha |-> o.text, etag |-> o.etag, tag |-> o.version] \in Meta
      BY <2>2 DEF Meta
    <2> QED BY <1>2, <1>3, <2>1, <2>3
  <1> QED BY <1>1, <1>7, <1>8, PromptStep DEF PromptInv, PromptTypes

LEMMA PromptDoneKeeps ==
  ASSUME PromptConstants, PromptInv, NEW j \in Jobs, Instructions!Done(j)
  PROVE  PromptInv'
  <1>1. /\ UNCHANGED upstream /\ UNCHANGED body /\ UNCHANGED meta /\ UNCHANGED failed
        /\ UNCHANGED tag /\ UNCHANGED troubles
        /\ job[j].step = "write" /\ job' = [job EXCEPT ![j] = Instructions!NoJob]
    BY DEF Instructions!Done
  <1>2. PICK o \in Job : o = job[j] /\ o.text \in Instructions!Texts /\ o.text \in Servable
    BY <1>1, PromptFacts DEF PromptInv, Fetching
  <1>3. job' \in [Jobs -> Job] /\ \A i \in Jobs : Fetching(job'[i])
    BY <1>1, NoJobIs, OneJob
  <1>4. [text |-> o.text, fresh |-> TRUE] \in Memory
    BY <1>2 DEF Memory
  <1>5. memory' \in [Processes -> Memory] /\ reply' \in [Processes -> Servable]
    BY <1>2, <1>4 DEF PromptInv, PromptTypes, Instructions!Done
  <1> QED BY <1>1, <1>3, <1>5, PromptStep DEF PromptInv, PromptTypes

LEMMA GivesUpIs ==
  ASSUME PromptConstants, PromptInv, NEW j \in Jobs, job[j].step # "", Instructions!GivesUp(j)
  PROVE  /\ failed' \in [Processes -> BOOLEAN] /\ memory' \in [Processes -> Memory]
         /\ reply' \in [Processes -> Servable]
         /\ job' \in [Jobs -> Job] /\ \A i \in Jobs : Fetching(job'[i])
  <1>1. PICK o \in Job : o = job[j] /\ o.owner \in Processes
    BY PromptFacts DEF PromptInv, Fetching
  <1>2. job' \in [Jobs -> Job] /\ \A i \in Jobs : Fetching(job'[i])
    BY NoJobIs, OneJob DEF Instructions!GivesUp
  <1>3. failed' \in [Processes -> BOOLEAN]
    BY <1>1 DEF Instructions!GivesUp, PromptInv, PromptTypes
  <1>4. reply' \in [Processes -> Servable] /\ memory' \in [Processes -> Memory]
    <2>1. CASE Instructions!FallBack(o.owner, o.disk)
      <3>1. o.disk \in Servable
        BY DEF Job
      <3> QED BY <1>1, <2>1, <3>1, FallBackIs
    <2>2. CASE UNCHANGED reply /\ UNCHANGED memory
      BY <2>2 DEF PromptInv, PromptTypes
    <2> QED BY <1>1, <2>1, <2>2 DEF Instructions!GivesUp
  <1> QED BY <1>2, <1>3, <1>4

LEMMA Troubled ==
  ASSUME PromptConstants, PromptInv, NEW kind, Instructions!Fault(kind)
  PROVE  troubles' \in 0..MaxTroubles
  BY DEF PromptConstants, PromptInv, PromptTypes, Instructions!Fault

LEMMA SourceFailsKeeps ==
  ASSUME PromptConstants, PromptInv, NEW j \in Jobs, Instructions!SourceFails(j)
  PROVE  PromptInv'
  <1>1. /\ UNCHANGED upstream /\ UNCHANGED body /\ UNCHANGED meta /\ UNCHANGED tag
        /\ job[j].step \in {"tag", "fetch"}
    BY DEF Instructions!SourceFails
  <1>2. troubles' \in 0..MaxTroubles
    BY Troubled DEF Instructions!SourceFails
  <1>3. CASE /\ job[j].step = "fetch" /\ job[j].source < Len(Sources)
             /\ job' = [job EXCEPT ![j].source = @ + 1, ![j].plain = FALSE]
             /\ UNCHANGED <<failed, reply, memory>>
    <2>1. PICK o \in Job : o = job[j] /\ Fetching(o)
      BY PromptFacts DEF PromptInv
    <2>2. PICK s \in 1..Len(Sources) : s = o.source + 1
      <3>1. o.source \in 1..Len(Sources) /\ o.source < Len(Sources) /\ Len(Sources) \in Nat
        BY <1>3, <2>1, PromptFacts DEF Job, PromptInv
      <3> QED BY <3>1
    <2> DEFINE x == [o EXCEPT !.source = s, !.plain = FALSE]
    <2>3. x \in Job /\ x.step = o.step /\ x.owner = o.owner /\ x.version = o.version /\ x.text = o.text
      BY DEF Job
    <2>4. job' = [job EXCEPT ![j] = x]
      <3>1. job' = [job EXCEPT ![j].source = s, ![j].plain = FALSE]
        BY <1>3, <2>1, <2>2
      <3> QED BY <2>1, <3>1 DEF PromptInv, PromptTypes
    <2> HIDE DEF x
    <2>5. Fetching(x)
      BY <2>1, <2>3 DEF Fetching
    <2>6. job' \in [Jobs -> Job] /\ \A i \in Jobs : Fetching(job'[i])
      BY <2>3, <2>4, <2>5, OneJob
    <2> QED BY <1>1, <1>2, <1>3, <2>6, PromptStep DEF PromptInv, PromptTypes
  <1>4. CASE Instructions!GivesUp(j)
    <2>1. job[j].step # ""
      BY <1>1
    <2>2. /\ failed' \in [Processes -> BOOLEAN] /\ memory' \in [Processes -> Memory]
          /\ reply' \in [Processes -> Servable]
          /\ job' \in [Jobs -> Job] /\ \A i \in Jobs : Fetching(job'[i])
      BY <1>4, <2>1, GivesUpIs
    <2> QED BY <1>1, <1>2, <2>2, PromptStep DEF PromptInv, PromptTypes
  <1> QED BY <1>3, <1>4 DEF Instructions!SourceFails

LEMMA WriteFailsKeeps ==
  ASSUME PromptConstants, PromptInv, NEW j \in Jobs, Instructions!WriteFails(j)
  PROVE  PromptInv'
  <1>1. /\ UNCHANGED upstream /\ UNCHANGED body /\ UNCHANGED meta /\ UNCHANGED tag
        /\ job[j].step # "" /\ Instructions!GivesUp(j)
    BY DEF Instructions!WriteFails
  <1>2. troubles' \in 0..MaxTroubles
    BY Troubled DEF Instructions!WriteFails
  <1>3. /\ failed' \in [Processes -> BOOLEAN] /\ memory' \in [Processes -> Memory]
        /\ reply' \in [Processes -> Servable]
        /\ job' \in [Jobs -> Job] /\ \A i \in Jobs : Fetching(job'[i])
    BY <1>1, GivesUpIs
  <1> QED BY <1>1, <1>2, <1>3, PromptStep DEF PromptInv, PromptTypes

LEMMA StaleKeeps ==
  ASSUME PromptConstants, PromptInv, NEW p \in Processes, Instructions!Stale(p)
  PROVE  PromptInv'
  <1>1. /\ UNCHANGED upstream /\ UNCHANGED body /\ UNCHANGED meta /\ UNCHANGED failed
        /\ UNCHANGED tag /\ UNCHANGED reply /\ UNCHANGED job /\ UNCHANGED troubles
    BY DEF Instructions!Stale
  <1>2. memory' \in [Processes -> Memory]
    <2>1. PICK m \in Memory : m = memory[p]
      BY DEF PromptInv, PromptTypes
    <2>2. [m EXCEPT !.fresh = FALSE] \in Memory
      BY DEF Memory
    <2>3. [memory EXCEPT ![p].fresh = FALSE] = [memory EXCEPT ![p] = [m EXCEPT !.fresh = FALSE]]
      BY <2>1 DEF PromptInv, PromptTypes
    <2> QED BY <2>2, <2>3 DEF PromptInv, PromptTypes, Instructions!Stale
  <1> QED BY <1>1, <1>2, PromptStep DEF PromptInv, PromptTypes

LEMMA ForgivenKeeps ==
  ASSUME PromptConstants, PromptInv, NEW p \in Processes, Instructions!Forgiven(p)
  PROVE  PromptInv'
  <1>1. /\ UNCHANGED upstream /\ UNCHANGED body /\ UNCHANGED meta /\ UNCHANGED memory
        /\ UNCHANGED tag /\ UNCHANGED reply /\ UNCHANGED job /\ UNCHANGED troubles
        /\ failed' \in [Processes -> BOOLEAN]
    BY DEF Instructions!Forgiven, PromptInv, PromptTypes
  <1> QED BY <1>1, PromptStep DEF PromptInv, PromptTypes

LEMMA DamageKeeps ==
  ASSUME PromptConstants, PromptInv, Instructions!Damage
  PROVE  PromptInv'
  <1>1. /\ UNCHANGED upstream /\ UNCHANGED failed /\ UNCHANGED meta /\ UNCHANGED memory
        /\ UNCHANGED tag /\ UNCHANGED reply /\ UNCHANGED job /\ body' = Instructions!Junk
    BY DEF Instructions!Damage
  <1>2. troubles' \in 0..MaxTroubles
    BY Troubled DEF Instructions!Damage
  <1> QED BY <1>1, <1>2, PromptStep DEF PromptInv, PromptTypes

LEMMA RestartKeeps ==
  ASSUME PromptConstants, PromptInv, NEW p \in Processes, Instructions!Restart(p)
  PROVE  PromptInv'
  <1>1. /\ UNCHANGED upstream /\ UNCHANGED body /\ UNCHANGED meta
        /\ memory' = [memory EXCEPT ![p] = Instructions!NoMemory]
        /\ failed' = [failed EXCEPT ![p] = FALSE] /\ tag' = [tag EXCEPT ![p] = Instructions!NoTag]
        /\ reply' = [reply EXCEPT ![p] = Instructions!None]
        /\ job' = [j \in Jobs |-> IF job[j].owner = p THEN Instructions!NoJob ELSE job[j]]
    BY DEF Instructions!Restart
  <1>2. troubles' \in 0..MaxTroubles
    BY Troubled DEF Instructions!Restart
  <1>3. memory' \in [Processes -> Memory] /\ failed' \in [Processes -> BOOLEAN]
    BY <1>1, NoJobIs DEF PromptInv, PromptTypes
  <1>4. reply' \in [Processes -> Servable]
    BY <1>1, PromptFacts DEF PromptInv, PromptTypes
  <1>5. job' \in [Jobs -> Job] /\ \A j \in Jobs : Fetching(job'[j])
    BY <1>1, NoJobIs DEF PromptInv, PromptTypes
  <1>6. /\ tag' \in [Processes -> [version : 0..upstream, fresh : BOOLEAN]]
        /\ \A q \in Processes : tag'[q].fresh = TRUE => tag'[q].version # 0
    <2>1. 0 \in 0..upstream
      BY PromptFacts DEF PromptInv
    <2>2. Instructions!NoTag \in [version : 0..upstream, fresh : BOOLEAN] /\ Instructions!NoTag.fresh = FALSE
      BY <2>1 DEF Instructions!NoTag
    <2>3. /\ tag' \in [Processes -> [version : 0..upstream, fresh : BOOLEAN]]
          /\ tag'[p] = Instructions!NoTag /\ \A q \in Processes : q # p => tag'[q] = tag[q]
      BY <1>1, <2>2 DEF PromptInv, PromptTypes
    <2> QED BY <2>2, <2>3 DEF PromptInv
  <1> QED BY <1>1, <1>2, <1>3, <1>4, <1>5, <1>6, TagStep DEF PromptInv, PromptTypes

LEMMA TagStaleKeeps ==
  ASSUME PromptConstants, PromptInv, NEW p \in Processes, Instructions!TagStale(p)
  PROVE  PromptInv'
  <1>1. /\ UNCHANGED upstream /\ UNCHANGED body /\ UNCHANGED meta /\ UNCHANGED memory
        /\ UNCHANGED failed /\ UNCHANGED reply /\ UNCHANGED job /\ UNCHANGED troubles
    BY DEF Instructions!TagStale
  <1>2. PICK t \in [version : 0..upstream, fresh : BOOLEAN] : t = tag[p]
    BY DEF PromptInv, PromptTypes
  <1> DEFINE x == [t EXCEPT !.fresh = FALSE]
  <1>3. x \in [version : 0..upstream, fresh : BOOLEAN] /\ x.fresh = FALSE
    OBVIOUS
  <1>4. tag' = [tag EXCEPT ![p] = x]
    BY <1>2 DEF PromptInv, PromptTypes, Instructions!TagStale
  <1> HIDE DEF x
  <1>5. /\ tag' \in [Processes -> [version : 0..upstream, fresh : BOOLEAN]]
        /\ tag'[p] = x /\ \A q \in Processes : q # p => tag'[q] = tag[q]
    BY <1>3, <1>4 DEF PromptInv, PromptTypes
  <1>6. \A q \in Processes : tag'[q].fresh = TRUE => tag'[q].version # 0
    BY <1>3, <1>5 DEF PromptInv
  <1> QED BY <1>1, <1>5, <1>6, TagStep DEF PromptInv, PromptTypes

\* A release adds texts and takes none away.
LEMMA ReleaseKeeps ==
  ASSUME PromptConstants, PromptInv, Instructions!Release
  PROVE  PromptInv'
  <1>1. /\ UNCHANGED body /\ UNCHANGED meta /\ UNCHANGED memory /\ UNCHANGED failed
        /\ UNCHANGED tag /\ UNCHANGED reply /\ UNCHANGED job /\ UNCHANGED troubles
    BY DEF Instructions!Release
  <1>2. upstream \in Nat /\ upstream' = upstream + 1 /\ upstream' \in 1..MaxVersion
    BY DEF PromptConstants, PromptInv, PromptTypes, Instructions!Release
  <1>3. 1..upstream \subseteq 1..upstream' /\ 0..upstream \subseteq 0..upstream'
    BY <1>2
  <1>4. Instructions!Texts \subseteq Instructions!Texts'
    BY <1>3 DEF Instructions!Texts
  <1>5. Servable \subseteq Servable'
    BY <1>4 DEF Servable
  <1>6. Meta \subseteq Meta' /\ Memory \subseteq Memory'
    BY <1>5 DEF Meta, Memory
  <1>7. Job \subseteq Job'
    BY <1>3, <1>5, <1>6 DEF Job
  <1>8. [version : 0..upstream, fresh : BOOLEAN] \subseteq [version : 0..upstream', fresh : BOOLEAN]
    BY <1>3
  <1>9. PromptTypes'
    <2>1. /\ body' \in Instructions!Texts' \cup {Instructions!None, Instructions!Junk}
          /\ meta' \in Meta' /\ meta'.sha \in Instructions!Texts' \cup {Instructions!None}
      BY <1>1, <1>4, <1>6 DEF PromptInv, PromptTypes
    <2>2. memory' \in [Processes -> Memory'] /\ reply' \in [Processes -> Servable']
      BY <1>1, <1>5, <1>6 DEF PromptInv, PromptTypes
    <2>3. /\ tag' \in [Processes -> [version : 0..upstream', fresh : BOOLEAN]]
          /\ failed' \in [Processes -> BOOLEAN] /\ troubles' \in 0..MaxTroubles
      BY <1>1, <1>8 DEF PromptInv, PromptTypes
    <2>4. job' \in [Jobs -> Job']
      BY <1>1, <1>7 DEF PromptInv, PromptTypes
    <2> QED BY <1>2, <2>1, <2>2, <2>3, <2>4 DEF PromptTypes
  <1>10. \A j \in Jobs : Fetching(job[j])'
    BY <1>1, <1>4 DEF PromptInv, Fetching
  <1>11. \A p \in Processes : tag'[p].fresh = TRUE => tag'[p].version # 0
    BY <1>1 DEF PromptInv
  <1> QED BY <1>9, <1>10, <1>11 DEF PromptInv

LEMMA PromptStarts ==
  ASSUME PromptConstants, Instructions!Init
  PROVE  PromptInv
  <1>1. /\ upstream = 1 /\ troubles = 0 /\ body = Instructions!None /\ meta = Instructions!NoMeta
        /\ memory = [p \in Processes |-> Instructions!NoMemory] /\ failed = [p \in Processes |-> FALSE]
        /\ tag = [p \in Processes |-> Instructions!NoTag]
        /\ reply = [p \in Processes |-> Instructions!None] /\ job = [j \in Jobs |-> Instructions!NoJob]
    BY DEF Instructions!Init
  <1>2. Instructions!None \in Servable
    BY DEF Servable
  <1>3. /\ Instructions!NoMeta \in Meta /\ Instructions!NoMeta.sha = Instructions!None
        /\ Instructions!NoMemory \in Memory
    BY <1>2 DEF Instructions!NoMeta, Meta, Instructions!NoMemory, Memory
  <1>4. Len(Sources) \in Nat \ {0}
    BY LenProperties DEF PromptConstants
  <1>5. 1 \in 1..Len(Sources) /\ 0 \in 0..upstream
    BY <1>1, <1>4
  <1>6. Instructions!NoJob \in Job /\ Fetching(Instructions!NoJob)
    BY <1>2, <1>3, <1>5 DEF Instructions!NoJob, Job, Fetching
  <1>7. Instructions!NoTag \in [version : 0..upstream, fresh : BOOLEAN] /\ Instructions!NoTag.fresh = FALSE
    BY <1>5 DEF Instructions!NoTag
  <1>8. upstream \in 1..MaxVersion /\ troubles \in 0..MaxTroubles
    BY <1>1 DEF PromptConstants
  <1>9. PromptTypes
    BY <1>1, <1>2, <1>3, <1>6, <1>7, <1>8 DEF PromptTypes
  <1> QED BY <1>1, <1>6, <1>7, <1>9 DEF PromptInv

LEMMA PromptSteps ==
  ASSUME PromptConstants, PromptInv, [Instructions!Next]_(Instructions!vars)
  PROVE  PromptInv'
  <1>1. ASSUME NEW p \in Processes, Instructions!FromMemory(p)  PROVE PromptInv'
    BY <1>1, FromMemoryKeeps
  <1>2. ASSUME NEW p \in Processes, Instructions!Cold(p)  PROVE PromptInv'
    BY <1>2, ColdKeeps
  <1>3. ASSUME NEW p \in Processes, Instructions!Stale(p)  PROVE PromptInv'
    BY <1>3, StaleKeeps
  <1>4. ASSUME NEW p \in Processes, Instructions!Forgiven(p)  PROVE PromptInv'
    BY <1>4, ForgivenKeeps
  <1>5. ASSUME NEW p \in Processes, Instructions!TagStale(p)  PROVE PromptInv'
    BY <1>5, TagStaleKeeps
  <1>6. ASSUME NEW p \in Processes, Instructions!Restart(p)  PROVE PromptInv'
    BY <1>6, RestartKeeps
  <1>7. ASSUME NEW j \in Jobs, Instructions!Tag(j)  PROVE PromptInv'
    BY <1>7, TagKeeps
  <1>8. ASSUME NEW j \in Jobs, Instructions!Unchanged(j)  PROVE PromptInv'
    BY <1>8, UnchangedKeeps
  <1>9. ASSUME NEW j \in Jobs, Instructions!Fetched(j)  PROVE PromptInv'
    BY <1>9, FetchedKeeps
  <1>10. ASSUME NEW j \in Jobs, Instructions!Write(j)  PROVE PromptInv'
    BY <1>10, PromptWriteKeeps
  <1>11. ASSUME NEW j \in Jobs, Instructions!Done(j)  PROVE PromptInv'
    BY <1>11, PromptDoneKeeps
  <1>12. ASSUME NEW j \in Jobs, Instructions!SourceFails(j)  PROVE PromptInv'
    BY <1>12, SourceFailsKeeps
  <1>13. ASSUME NEW j \in Jobs, Instructions!WriteFails(j)  PROVE PromptInv'
    BY <1>13, WriteFailsKeeps
  <1>14. CASE Instructions!Release BY <1>14, ReleaseKeeps
  <1>15. CASE Instructions!Damage BY <1>15, DamageKeeps
  <1>16. CASE UNCHANGED Instructions!vars
    <2>1. /\ UNCHANGED upstream /\ UNCHANGED body /\ UNCHANGED meta /\ UNCHANGED memory
          /\ UNCHANGED failed /\ UNCHANGED tag /\ UNCHANGED reply /\ UNCHANGED job
          /\ UNCHANGED troubles
      BY <1>16 DEF Instructions!vars
    <2> QED BY <2>1, PromptStep DEF PromptInv, PromptTypes
  <1> QED BY <1>1, <1>2, <1>3, <1>4, <1>5, <1>6, <1>7, <1>8, <1>9, <1>10, <1>11, <1>12, <1>13,
       <1>14, <1>15, <1>16 DEF Instructions!Next

LEMMA PromptSound ==
  ASSUME PromptInv
  PROVE  Instructions!TypeOK /\ Instructions!Genuine
  <1>1. Instructions!TypeOK
    BY DEF PromptInv, PromptTypes, Instructions!TypeOK, Job
  <1>2. Instructions!Genuine
    BY DEF PromptInv, PromptTypes, Instructions!Genuine, Memory, Servable
  <1> QED BY <1>1, <1>2

\* Whatever two processes' fetches, writes and crashes do to the two shared files,
\* and however they interleave, every text that getCodexInstructions (prompts/codex.ts)
\* and getOpenCodeCodexPrompt (prompts/opencode-codex.ts) keep in memory or answer
\* with is one that upstream published, or the bundled one.
THEOREM AnswersAreGenuine ==
  ASSUME PromptConstants
  PROVE  Instructions!Spec => [](Instructions!TypeOK /\ Instructions!Genuine)
  <1>1. Instructions!Init => PromptInv
    BY PromptStarts
  <1>2. PromptInv /\ [Instructions!Next]_(Instructions!vars) => PromptInv'
    BY PromptSteps
  <1>3. PromptInv => Instructions!TypeOK /\ Instructions!Genuine
    BY PromptSound
  <1> QED BY <1>1, <1>2, <1>3, PTL DEF Instructions!Spec

-----------------------------------------------------------------------------
(***************************************************************************)
(* The block of an account whose quota is spent.                           *)
(***************************************************************************)
Guard == INSTANCE QuotaGuard WITH Windows <- {"week"}, MaxClock <- MaxElapsed, clock <- elapsed

\* One window, and all within the time one claim stands for.
GuardConstants == MaxElapsed \in Nat \ {0} /\ Week \in Nat /\ MaxElapsed <= Week

-----------------------------------------------------------------------------
Untils == 0..MaxElapsed + 1

GuardJob ==
  [kind : {"none", "monitor", "limits", "reset", "warm"},
   phase : {"idle", "reading", "rereading", "listing", "claiming", "posting", "clearing", "judging"},
   loaded : [until : Untils, stamp : Nat], read : Untils, credit : SUBSET Credits]

GuardTypes ==
  /\ elapsed \in 1..MaxElapsed /\ bought \in Nat /\ evidence \in Untils
  /\ backend \in [until : [{"week"} -> Untils], renewed : SUBSET {"week"}, banked : SUBSET Credits]
  /\ record \in [until : Untils, stamp : 0..MaxElapsed, claimed : 0..MaxElapsed]
  /\ tried \in [Monitors -> SUBSET Credits]
  /\ jobs \in [Guard!Jobs -> GuardJob]

Posting == {m \in Monitors : jobs[m].phase = "posting"}

\* Whoever posts has claimed, and a claim stands for good.
OneClaim ==
  /\ record.claimed = 0 => Posting = {} /\ bought = 0
  /\ \A m, n \in Posting : m = n
  /\ bought <= 1 /\ (bought = 1 => Posting = {})

\* The end of the quota that was spent last.
SpentEnd == backend.until["week"]

IsSpent == SpentEnd > elapsed /\ "week" \notin backend.renewed

\* A block until then is not about quota that is spent now.
Over(until) == until < SpentEnd \/ ~IsSpent

\* What a job may clear is over; what it would redeem is, when the credit is gone.
Clears(x) ==
  /\ x.loaded.until <= SpentEnd /\ x.read <= SpentEnd
  /\ x.phase = "clearing" => Over(x.loaded.until)
  /\ x.phase = "judging" /\ x.read = 0 => Over(x.loaded.until)
  /\ x.phase \in {"listing", "claiming", "posting"} /\ x.kind = "monitor" => x.read # 0
  /\ x.phase \in {"claiming", "posting"} =>
       \E c \in Credits : x.credit = {c} /\ (c \notin backend.banked => Over(x.loaded.until))

\* A block is of a quota that was spent, at the time it is stamped with.
Blocks ==
  /\ record.until <= SpentEnd /\ evidence <= SpentEnd
  /\ IsSpent /\ evidence = SpentEnd => record.until = SpentEnd

GuardInv ==
  /\ GuardTypes /\ OneClaim /\ Blocks
  /\ \A j \in Guard!Jobs :
       /\ Clears(jobs[j])
       /\ j \in Monitors /\ jobs[j].phase # "idle" => jobs[j].kind = "monitor"
       /\ j \notin Monitors => jobs[j].phase # "claiming"

-----------------------------------------------------------------------------
LEMMA GuardFacts ==
  ASSUME GuardConstants, GuardTypes
  PROVE  /\ elapsed \in Nat \ {0} /\ MaxElapsed \in Nat /\ SpentEnd \in Untils
         /\ \A u \in Untils : u \in Nat
         /\ Guard!Spent("week") <=> IsSpent
         /\ \A j \in Guard!Jobs : jobs[j] \in GuardJob
         /\ Monitors \subseteq Guard!Jobs
  <1>1. elapsed \in Nat \ {0} /\ MaxElapsed \in Nat /\ SpentEnd \in Untils
    BY DEF GuardConstants, GuardTypes, SpentEnd
  <1>2. \A u \in Untils : u \in Nat
    BY <1>1 DEF Untils
  <1>3. Guard!Spent("week") <=> IsSpent
    BY DEF Guard!Spent, IsSpent, SpentEnd
  <1> QED BY <1>1, <1>2, <1>3 DEF GuardTypes, Guard!Jobs

\* The latest reset of a spent window is the end of the one window, if it is spent.
LEMMA SpentUntilIs ==
  ASSUME GuardConstants, GuardTypes
  PROVE  Guard!SpentUntil = IF IsSpent THEN SpentEnd ELSE 0
  <1> DEFINE all == {0} \cup {backend.until[w] : w \in {v \in {"week"} : Guard!Spent(v)}}
             most == IF IsSpent THEN SpentEnd ELSE 0
  <1>1. all = IF IsSpent THEN {0, SpentEnd} ELSE {0}
    BY GuardFacts DEF SpentEnd
  <1>2. most \in Nat /\ 0 \in Nat /\ SpentEnd \in Nat /\ (IsSpent => SpentEnd >= 0)
    BY GuardFacts
  <1>3. most \in all /\ \A y \in all : most >= y /\ y \in Nat
    BY <1>1, <1>2
  <1>4. \A x \in all : (\A y \in all : x >= y) => x = most
    <2> SUFFICES ASSUME NEW x \in all, \A y \in all : x >= y  PROVE x = most
      OBVIOUS
    <2>1. x >= most /\ most >= x /\ x \in Nat
      BY <1>3
    <2> QED BY <1>2, <2>1
  <1>5. Guard!SpentUntil = CHOOSE x \in all : \A y \in all : x >= y
    BY DEF Guard!SpentUntil, Guard!Max
  <1> HIDE DEF all, most
  <1>6. Guard!SpentUntil = most
    BY <1>3, <1>4, <1>5
  <1> QED BY <1>6 DEF most

LEMMA GuardJobIs ==
  ASSUME GuardConstants, GuardTypes, NEW j \in Guard!Jobs, NEW x \in GuardJob,
         jobs' = [jobs EXCEPT ![j] = x]
  PROVE  /\ jobs' \in [Guard!Jobs -> GuardJob] /\ jobs'[j] = x
         /\ \A i \in Guard!Jobs : i # j => jobs'[i] = jobs[i]
  BY DEF GuardTypes

LEMMA NoGuardJob ==
  ASSUME GuardConstants, GuardInv
  PROVE  /\ Guard!NoJob \in GuardJob /\ Clears(Guard!NoJob) /\ Guard!NoJob.phase = "idle"
         /\ Guard!NoJob.loaded \in [until : Untils, stamp : Nat] /\ Guard!NoJob.read = 0
  <1>1. 0 \in Untils /\ SpentEnd >= 0
    BY GuardFacts DEF Untils, GuardInv
  <1>2. Guard!NoJob \in GuardJob /\ Guard!NoJob.phase = "idle" /\ Guard!NoJob.read = 0
        /\ Guard!NoJob.loaded \in [until : Untils, stamp : Nat] /\ Guard!NoJob.loaded.until = 0
    BY <1>1 DEF Guard!NoJob, Guard!Unblocked, GuardJob
  <1> QED BY <1>1, <1>2 DEF Clears

\* A step of one job that leaves the backend and the clock alone.
LEMMA GuardStep ==
  ASSUME GuardConstants, GuardInv, NEW j \in Guard!Jobs, NEW x \in GuardJob,
         UNCHANGED elapsed, UNCHANGED backend, jobs' = [jobs EXCEPT ![j] = x],
         Clears(x), j \in Monitors /\ x.phase # "idle" => x.kind = "monitor",
         j \notin Monitors => x.phase # "claiming",
         bought' \in Nat, evidence' \in Untils,
         record' \in [until : Untils, stamp : 0..MaxElapsed, claimed : 0..MaxElapsed],
         tried' \in [Monitors -> SUBSET Credits], OneClaim', Blocks'
  PROVE  GuardInv'
  <1>1. GuardTypes'
    BY GuardJobIs DEF GuardInv, GuardTypes, Untils
  <1>2. \A y : Clears(y) => Clears(y)'
    BY DEF Clears, Over, IsSpent, SpentEnd
  <1>3. ASSUME NEW i \in Guard!Jobs
        PROVE  /\ Clears(jobs[i])'
               /\ i \in Monitors /\ jobs'[i].phase # "idle" => jobs'[i].kind = "monitor"
               /\ i \notin Monitors => jobs'[i].phase # "claiming"
    <2>1. PICK y \in GuardJob : y = jobs'[i] /\ Clears(y)
      BY GuardJobIs DEF GuardInv, GuardTypes
    <2>2. Clears(y)'
      BY <1>2, <2>1
    <2>3. Clears(jobs[i])'
      BY <2>1, <2>2
    <2> QED BY <2>3, GuardJobIs DEF GuardInv
  <1> QED BY <1>1, <1>3 DEF GuardInv

\* While nobody starts to post and nothing is bought, the claim is as it was.
LEMMA ClaimStays ==
  ASSUME GuardConstants, GuardInv, NEW j \in Guard!Jobs, NEW x \in GuardJob,
         jobs' = [jobs EXCEPT ![j] = x], x.phase = "posting" => jobs[j].phase = "posting" \/ j \notin Monitors,
         UNCHANGED bought, record'.claimed = record.claimed
  PROVE  OneClaim'
  <1>1. Posting' \subseteq Posting
    BY GuardJobIs, GuardFacts DEF GuardInv, Posting
  <1> QED BY <1>1 DEF GuardInv, OneClaim

LEMMA BlocksStay ==
  ASSUME GuardInv, UNCHANGED elapsed, UNCHANGED backend, UNCHANGED evidence,
         record'.until = record.until
  PROVE  Blocks'
  BY DEF GuardInv, Blocks, IsSpent, SpentEnd

LEMMA StartIs ==
  ASSUME GuardConstants, GuardInv, NEW j \in Guard!Jobs, NEW kind \in Guard!Kinds,
         Guard!Start(j, kind)
  PROVE  GuardInv'
  <1>1. /\ UNCHANGED elapsed /\ UNCHANGED backend /\ UNCHANGED record /\ UNCHANGED tried
        /\ UNCHANGED bought /\ UNCHANGED evidence /\ jobs[j].phase = "idle"
        /\ (kind = "monitor") = (j \in Monitors)
    BY DEF Guard!Start
  <1>2. PICK n \in GuardJob : n = Guard!NoJob /\ n.read = 0
    BY NoGuardJob
  <1>3. PICK phase \in {"listing", "reading"} :
          phase = IF kind = "reset" THEN "listing" ELSE "reading"
    OBVIOUS
  <1>4. PICK l \in [until : Untils, stamp : Nat] :
          l = [until |-> record.until, stamp |-> record.stamp] /\ l.until = record.until
    <2>1. record.stamp \in Nat /\ record.until \in Untils
      BY GuardFacts DEF GuardInv, GuardTypes
    <2>2. [until |-> record.until, stamp |-> record.stamp] \in [until : Untils, stamp : Nat]
      BY <2>1
    <2> QED BY <2>2
  <1> DEFINE x == [n EXCEPT !.kind = kind, !.phase = phase, !.loaded = l]
  <1>5. x \in GuardJob /\ x.kind = kind /\ x.phase = phase /\ x.loaded = l /\ x.read = 0
    BY <1>2 DEF GuardJob, Guard!Kinds
  <1>6. jobs' = [jobs EXCEPT ![j] = x]
    BY <1>2, <1>3, <1>4 DEF Guard!Start
  <1> HIDE DEF x
  <1>7. Clears(x)
    <2>1. l.until <= SpentEnd /\ 0 <= SpentEnd
      BY <1>4, GuardFacts DEF GuardInv, Blocks
    <2>2. phase = "listing" => kind # "monitor"
      BY <1>3
    <2> QED BY <1>3, <1>5, <2>1, <2>2 DEF Clears
  <1>8. OneClaim' /\ Blocks'
    BY <1>1, <1>3, <1>5, <1>6, ClaimStays, BlocksStay
  <1>9. (j \in Monitors => x.kind = "monitor") /\ x.phase # "claiming"
    BY <1>1, <1>3, <1>5
  <1> QED BY <1>1, <1>5, <1>6, <1>7, <1>8, <1>9, GuardStep DEF GuardInv, GuardTypes

LEMMA ReadIs ==
  ASSUME GuardConstants, GuardInv, NEW j \in Guard!Jobs, Guard!Read(j)
  PROVE  GuardInv'
  <1>1. /\ UNCHANGED elapsed /\ UNCHANGED backend /\ UNCHANGED record /\ UNCHANGED tried
        /\ UNCHANGED bought /\ UNCHANGED evidence /\ jobs[j].phase \in {"reading", "rereading"}
    BY DEF Guard!Read
  <1>2. PICK o \in GuardJob : o = jobs[j] /\ Clears(o)
    BY GuardFacts DEF GuardInv
  <1>3. PICK read \in Untils : read = Guard!SpentUntil /\ read = (IF IsSpent THEN SpentEnd ELSE 0)
    <2>1. 0 \in Untils /\ SpentEnd \in Untils
      BY GuardFacts DEF GuardInv, Untils
    <2> QED BY <2>1, SpentUntilIs DEF GuardInv
  <1>4. PICK phase \in {"listing", "judging"} :
          /\ phase = IF o.phase = "reading" /\ o.kind = "monitor" /\ Redeem
                        /\ Guard!Spent("week") /\ backend.banked # {} THEN "listing" ELSE "judging"
          /\ phase = "listing" => IsSpent
    BY GuardFacts DEF GuardInv
  <1> DEFINE x == [o EXCEPT !.read = read, !.phase = phase]
  <1>5. x \in GuardJob /\ x.kind = o.kind /\ x.phase = phase /\ x.loaded = o.loaded /\ x.read = read
    BY DEF GuardJob
  <1>6. jobs' = [jobs EXCEPT ![j] = x]
    <2>1. jobs' = [jobs EXCEPT ![j].read = read, ![j].phase = phase]
      BY <1>2, <1>3, <1>4 DEF Guard!Read
    <2> QED BY <1>2, <2>1 DEF GuardInv, GuardTypes
  <1> HIDE DEF x
  <1>7. Clears(x)
    <2>1. read <= SpentEnd /\ (IsSpent => read # 0) /\ (read = 0 => ~IsSpent)
      BY <1>3, GuardFacts DEF GuardInv, IsSpent
    <2> QED BY <1>2, <1>4, <1>5, <2>1 DEF Clears, Over
  <1>8. OneClaim' /\ Blocks'
    BY <1>1, <1>5, <1>6, ClaimStays, BlocksStay
  <1>9. (j \in Monitors => x.kind = "monitor") /\ x.phase # "claiming"
    BY <1>1, <1>2, <1>5 DEF GuardInv
  <1> QED BY <1>1, <1>5, <1>6, <1>7, <1>8, <1>9, GuardStep DEF GuardInv, GuardTypes

\* A job that ends, or goes on to another phase and takes nothing with it.
LEMMA EndsIs ==
  ASSUME GuardConstants, GuardInv, NEW j \in Guard!Jobs, Guard!Ends(j),
         UNCHANGED elapsed, UNCHANGED backend, UNCHANGED tried, UNCHANGED bought,
         evidence' \in Untils, record'.claimed = record.claimed,
         record' \in [until : Untils, stamp : 0..MaxElapsed, claimed : 0..MaxElapsed], Blocks'
  PROVE  GuardInv'
  <1>1. PICK x \in GuardJob : x = Guard!NoJob /\ Clears(x) /\ x.phase = "idle"
    BY NoGuardJob
  <1>2. jobs' = [jobs EXCEPT ![j] = x]
    BY <1>1 DEF Guard!Ends
  <1>3. OneClaim'
    BY <1>1, <1>2, ClaimStays
  <1> QED BY <1>1, <1>2, <1>3, GuardStep DEF GuardInv, GuardTypes

LEMMA GoesIs ==
  ASSUME GuardConstants, GuardInv, NEW j \in Guard!Jobs, NEW phase \in {"judging", "rereading"},
         Guard!Goes(j, phase), phase = "judging" => jobs[j].read # 0,
         UNCHANGED elapsed, UNCHANGED backend, UNCHANGED tried, UNCHANGED bought,
         evidence' \in Untils, record'.claimed = record.claimed, jobs[j].phase # "idle",
         record' \in [until : Untils, stamp : 0..MaxElapsed, claimed : 0..MaxElapsed], Blocks'
  PROVE  GuardInv'
  <1>1. PICK o \in GuardJob : o = jobs[j] /\ Clears(o)
    BY GuardFacts DEF GuardInv
  <1> DEFINE x == [o EXCEPT !.phase = phase]
  <1>2. x \in GuardJob /\ x.kind = o.kind /\ x.phase = phase /\ x.loaded = o.loaded /\ x.read = o.read
    BY DEF GuardJob
  <1>3. jobs' = [jobs EXCEPT ![j] = x]
    BY <1>1 DEF GuardInv, GuardTypes, Guard!Goes
  <1> HIDE DEF x
  <1>4. Clears(x)
    BY <1>1, <1>2 DEF Clears
  <1>5. OneClaim'
    BY <1>2, <1>3, ClaimStays
  <1>6. (j \in Monitors => x.kind = "monitor") /\ x.phase # "claiming"
    BY <1>1, <1>2 DEF GuardInv
  <1> QED BY <1>2, <1>3, <1>4, <1>5, <1>6, GuardStep DEF GuardInv, GuardTypes

LEMMA FailIs ==
  ASSUME GuardConstants, GuardInv, NEW j \in Guard!Jobs, Guard!Fail(j)
  PROVE  GuardInv'
  <1>1. /\ UNCHANGED elapsed /\ UNCHANGED backend /\ UNCHANGED record /\ UNCHANGED tried
        /\ UNCHANGED bought /\ UNCHANGED evidence /\ Guard!Ends(j)
    BY DEF Guard!Fail
  <1>2. Blocks'
    BY <1>1, BlocksStay
  <1> QED BY <1>1, <1>2, EndsIs DEF GuardInv, GuardTypes

LEMMA ListIs ==
  ASSUME GuardConstants, GuardInv, NEW j \in Guard!Jobs, Guard!List(j)
  PROVE  GuardInv'
  <1>1. /\ UNCHANGED elapsed /\ UNCHANGED backend /\ UNCHANGED record /\ UNCHANGED tried
        /\ UNCHANGED bought /\ UNCHANGED evidence /\ jobs[j].phase = "listing"
    BY DEF Guard!List
  <1>2. PICK o \in GuardJob : o = jobs[j] /\ Clears(o) /\ (j \in Monitors => o.kind = "monitor")
    BY <1>1, GuardFacts DEF GuardInv
  <1>3. Blocks'
    BY <1>1, BlocksStay
  <1>4. CASE Guard!Ends(j) BY <1>1, <1>3, <1>4, EndsIs DEF GuardInv, GuardTypes
  <1>5. CASE j \in Monitors /\ Guard!Goes(j, "judging")
    <2>1. jobs[j].read # 0
      BY <1>1, <1>2, <1>5 DEF Clears
    <2> QED BY <1>1, <1>3, <1>5, <2>1, GoesIs DEF GuardInv, GuardTypes
  <1>6. CASE \E c \in backend.banked, phase \in {"claiming", "posting"} :
               /\ phase = IF j \in Monitors THEN "claiming" ELSE "posting"
               /\ jobs' = [jobs EXCEPT ![j].credit = {c}, ![j].phase = phase]
    <2>1. PICK c \in backend.banked, phase \in {"claiming", "posting"} :
               /\ phase = IF j \in Monitors THEN "claiming" ELSE "posting"
               /\ jobs' = [jobs EXCEPT ![j].credit = {c}, ![j].phase = phase]
      BY <1>6
    <2>2. c \in Credits
      BY DEF GuardInv, GuardTypes
    <2> DEFINE x == [o EXCEPT !.credit = {c}, !.phase = phase]
    <2>3. /\ x \in GuardJob /\ x.kind = o.kind /\ x.phase = phase /\ x.loaded = o.loaded
          /\ x.read = o.read /\ x.credit = {c}
      BY <2>2 DEF GuardJob
    <2>4. jobs' = [jobs EXCEPT ![j] = x]
      BY <1>2, <2>1 DEF GuardInv, GuardTypes
    <2> HIDE DEF x
    <2>5. Clears(x)
      BY <1>1, <1>2, <2>1, <2>2, <2>3 DEF Clears
    <2>6. OneClaim'
      BY <1>1, <2>1, <2>3, <2>4, ClaimStays
    <2> QED
      <3>1. (j \in Monitors => x.kind = "monitor") /\ (j \notin Monitors => x.phase # "claiming")
        BY <1>2, <2>1, <2>3
      <3> QED BY <1>1, <1>3, <2>3, <2>4, <2>5, <2>6, <3>1, GuardStep DEF GuardInv, GuardTypes
  <1> DEFINE listed == IF backend.banked = {} THEN {} ELSE {CHOOSE c \in backend.banked : TRUE}
             usable == IF j \in Monitors THEN listed \ tried[j] ELSE listed
  <1>7. CASE usable # {}
    <2>1. \E c \in backend.banked : usable = {c}
      BY <1>7
    <2>2. /\ jobs' = [jobs EXCEPT ![j].credit = usable,
                                  ![j].phase = IF j \in Monitors THEN "claiming" ELSE "posting"]
      BY <1>7 DEF Guard!List
    <2> HIDE DEF usable
    <2> QED BY <1>6, <2>1, <2>2
  <1>8. CASE usable = {} BY <1>4, <1>5, <1>8 DEF Guard!List
  <1> QED BY <1>7, <1>8

LEMMA ListFailsIs ==
  ASSUME GuardConstants, GuardInv, NEW j \in Guard!Jobs, Guard!ListFails(j)
  PROVE  GuardInv'
  <1>1. /\ UNCHANGED elapsed /\ UNCHANGED backend /\ UNCHANGED record /\ UNCHANGED tried
        /\ UNCHANGED bought /\ UNCHANGED evidence /\ jobs[j].phase \in {"listing", "claiming"}
        /\ j \in Monitors /\ Guard!Goes(j, "judging")
    BY DEF Guard!ListFails
  <1>2. jobs[j].read # 0
    BY <1>1 DEF GuardInv, Clears
  <1>3. Blocks'
    BY <1>1, BlocksStay
  <1> QED BY <1>1, <1>2, <1>3, GoesIs DEF GuardInv, GuardTypes

LEMMA ClaimIs ==
  ASSUME GuardConstants, GuardInv, NEW j \in Guard!Jobs, Guard!Claim(j)
  PROVE  GuardInv'
  <1>1. /\ UNCHANGED elapsed /\ UNCHANGED backend /\ UNCHANGED bought /\ UNCHANGED evidence
        /\ jobs[j].phase = "claiming" /\ j \in Monitors
    BY DEF Guard!Claim, GuardInv
  <1>2. PICK o \in GuardJob : o = jobs[j] /\ Clears(o) /\ o.kind = "monitor" /\ o.phase = "claiming"
    BY <1>1, GuardFacts DEF GuardInv
  <1>3. CASE Guard!Goes(j, "judging") /\ UNCHANGED <<record, tried>>
    <2>1. Blocks'
      BY <1>1, <1>3, BlocksStay
    <2>2. jobs[j].read # 0
      BY <1>2 DEF Clears
    <2> QED BY <1>1, <1>3, <2>1, <2>2, GoesIs DEF GuardInv, GuardTypes
  <1>4. CASE /\ ~(record.claimed # 0 /\ elapsed - record.claimed < Week)
             /\ Guard!Goes(j, "posting")
             /\ record' = [record EXCEPT !.claimed = elapsed]
             /\ tried' = [tried EXCEPT ![j] = @ \cup jobs[j].credit]
    <2>1. record.claimed \in 0..MaxElapsed /\ elapsed \in 1..MaxElapsed
      BY DEF GuardInv, GuardTypes
    <2>2. record.claimed = 0
      BY <1>4, <2>1 DEF GuardConstants
    <2>3. Posting = {} /\ bought = 0
      BY <2>2 DEF GuardInv, OneClaim
    <2>4. PICK r \in [until : Untils, stamp : 0..MaxElapsed, claimed : 0..MaxElapsed] : r = record
      BY DEF GuardInv, GuardTypes
    <2>5. /\ record' \in [until : Untils, stamp : 0..MaxElapsed, claimed : 0..MaxElapsed]
          /\ record'.claimed # 0 /\ record'.until = record.until
      <3>1. elapsed \in 0..MaxElapsed /\ elapsed # 0
        BY <2>1 DEF GuardConstants
      <3>2. record' = [r EXCEPT !.claimed = elapsed]
        BY <1>4, <2>4
      <3> QED BY <2>4, <3>1, <3>2
    <2>6. tried' \in [Monitors -> SUBSET Credits]
      <3>1. o.credit \in SUBSET Credits
        BY DEF GuardJob
      <3> QED BY <1>1, <1>2, <1>4, <3>1 DEF GuardInv, GuardTypes
    <2> DEFINE x == [o EXCEPT !.phase = "posting"]
    <2>7. /\ x \in GuardJob /\ x.kind = o.kind /\ x.phase = "posting" /\ x.loaded = o.loaded
          /\ x.read = o.read /\ x.credit = o.credit
      BY DEF GuardJob
    <2>8. jobs' = [jobs EXCEPT ![j] = x]
      BY <1>2, <1>4 DEF GuardInv, GuardTypes, Guard!Goes
    <2> HIDE DEF x
    <2>9. Clears(x)
      BY <1>2, <2>7 DEF Clears
    <2>10. Posting' \subseteq {j}
      BY <2>3, <2>7, <2>8, GuardJobIs, GuardFacts DEF GuardInv, Posting
    <2>11. OneClaim'
      BY <1>1, <2>3, <2>5, <2>10 DEF OneClaim
    <2>12. Blocks'
      BY <1>1, <2>5, BlocksStay
    <2> QED
      BY <1>1, <1>2, <2>5, <2>6, <2>7, <2>8, <2>9, <2>11, <2>12, GuardStep DEF GuardInv, GuardTypes
  <1> QED BY <1>3, <1>4 DEF Guard!Claim

\* A credit that is spent makes every block be over.
LEMMA RedeemedIs ==
  ASSUME GuardConstants, GuardInv, NEW c \in Credits, backend' \in {backend, Guard!Redeemed(c)}, UNCHANGED elapsed
  PROVE  /\ backend' \in [until : [{"week"} -> Untils], renewed : SUBSET {"week"}, banked : SUBSET Credits]
         /\ SpentEnd' = SpentEnd /\ (IsSpent' => IsSpent)
         /\ \A u : Over(u) => Over(u)'
         /\ \A k \in Credits : k \notin backend'.banked => k \notin backend.banked \/ ~IsSpent'
         /\ backend' = Guard!Redeemed(c) => (c \notin backend.banked /\ UNCHANGED backend) \/ ~IsSpent'
  <1>1. PICK b \in [until : [{"week"} -> Untils], renewed : SUBSET {"week"}, banked : SUBSET Credits] :
          b = backend
    BY DEF GuardInv, GuardTypes
  <1>2. CASE backend' = backend
    BY <1>1, <1>2 DEF SpentEnd, IsSpent, Over, Guard!Redeemed
  <1>3. CASE backend' # backend
    <2>1. backend' = [b EXCEPT !.renewed = {"week"}, !.banked = b.banked \ {c}]
      BY <1>1, <1>3 DEF Guard!Redeemed
    <2> DEFINE n == [b EXCEPT !.renewed = {"week"}, !.banked = b.banked \ {c}]
    <2>2. /\ n \in [until : [{"week"} -> Untils], renewed : SUBSET {"week"}, banked : SUBSET Credits]
          /\ n.until = b.until /\ "week" \in n.renewed
      OBVIOUS
    <2> HIDE DEF n
    <2>3. backend' = n
      BY <2>1 DEF n
    <2> QED BY <1>1, <2>2, <2>3 DEF SpentEnd, IsSpent, Over
  <1> QED BY <1>2, <1>3

LEMMA PostIs ==
  ASSUME GuardConstants, GuardInv, NEW j \in Guard!Jobs, Guard!Post(j)
  PROVE  GuardInv'
  <1>1. /\ UNCHANGED elapsed /\ UNCHANGED record /\ UNCHANGED tried /\ UNCHANGED evidence
        /\ jobs[j].phase = "posting"
    BY DEF Guard!Post
  <1>2. PICK o \in GuardJob : o = jobs[j] /\ Clears(o) /\ (j \in Monitors => o.kind = "monitor")
                              /\ o.phase = "posting"
    BY <1>1, GuardFacts DEF GuardInv
  <1>3. PICK c \in Credits : o.credit = {c} /\ (c \notin backend.banked => Over(o.loaded.until))
    BY <1>2 DEF Clears
  <1>4. (CHOOSE k \in jobs[j].credit : TRUE) = c
    BY <1>2, <1>3
  <1>5. PICK reached \in BOOLEAN, answered \in BOOLEAN :
          /\ answered = TRUE => reached = TRUE
          /\ backend' = IF reached = TRUE THEN Guard!Redeemed(c) ELSE backend
          /\ bought' = IF reached = TRUE /\ c \in backend.banked /\ j \in Monitors THEN bought + 1 ELSE bought
          /\ IF answered = TRUE THEN Guard!Goes(j, "clearing")
             ELSE IF j \in Monitors THEN Guard!Goes(j, "judging") ELSE Guard!Ends(j)
    BY <1>4 DEF Guard!Post
  <1>6. /\ backend' \in [until : [{"week"} -> Untils], renewed : SUBSET {"week"}, banked : SUBSET Credits]
        /\ SpentEnd' = SpentEnd /\ (IsSpent' => IsSpent)
        /\ \A u : Over(u) => Over(u)'
        /\ \A k \in Credits : k \notin backend'.banked => k \notin backend.banked \/ ~IsSpent'
        /\ backend' = Guard!Redeemed(c) => (c \notin backend.banked /\ UNCHANGED backend) \/ ~IsSpent'
    <2>1. backend' \in {backend, Guard!Redeemed(c)}
      BY <1>5
    <2> QED BY <1>1, <2>1, RedeemedIs
  <1>7. PICK n \in GuardJob : n = Guard!NoJob /\ n.phase = "idle" /\ Clears(n)
    BY NoGuardJob
  <1>8. PICK x \in GuardJob :
          /\ jobs' = [jobs EXCEPT ![j] = x]
          /\ \/ x.phase = "idle" /\ x = n
             \/ /\ x.kind = o.kind /\ x.loaded = o.loaded /\ x.read = o.read
                /\ \/ x.phase = "clearing" /\ backend' = Guard!Redeemed(c)
                   \/ x.phase = "judging" /\ o.kind = "monitor"
    <2>1. CASE answered = TRUE
      <3> DEFINE x == [o EXCEPT !.phase = "clearing"]
      <3>1. x \in GuardJob /\ x.kind = o.kind /\ x.phase = "clearing" /\ x.loaded = o.loaded /\ x.read = o.read
        BY DEF GuardJob
      <3>2. jobs' = [jobs EXCEPT ![j] = x]
        BY <1>2, <1>5, <2>1 DEF GuardInv, GuardTypes, Guard!Goes
      <3> HIDE DEF x
      <3> QED BY <1>5, <2>1, <3>1, <3>2
    <2>2. CASE answered # TRUE /\ j \in Monitors
      <3> DEFINE x == [o EXCEPT !.phase = "judging"]
      <3>1. x \in GuardJob /\ x.kind = o.kind /\ x.phase = "judging" /\ x.loaded = o.loaded /\ x.read = o.read
        BY DEF GuardJob
      <3>2. jobs' = [jobs EXCEPT ![j] = x]
        BY <1>2, <1>5, <2>2 DEF GuardInv, GuardTypes, Guard!Goes
      <3> HIDE DEF x
      <3> QED BY <1>2, <2>2, <3>1, <3>2
    <2>3. CASE answered # TRUE /\ j \notin Monitors
      BY <1>5, <1>7, <2>3 DEF Guard!Ends
    <2> QED BY <2>1, <2>2, <2>3
  <1>9. Clears(x)'
    <2>1. CASE x = n BY <1>6, <1>7, <2>1 DEF Clears
    <2>2. CASE x.phase = "clearing" /\ x.loaded = o.loaded /\ x.read = o.read /\ backend' = Guard!Redeemed(c)
      <3>1. Over(o.loaded.until)'
        BY <1>3, <1>6, <2>2 DEF Over
      <3> QED BY <1>2, <1>6, <2>2, <3>1 DEF Clears
    <2>3. CASE x.phase = "judging" /\ o.kind = "monitor" /\ x.loaded = o.loaded /\ x.read = o.read
      BY <1>2, <1>6, <2>3 DEF Clears
    <2> QED BY <1>8, <2>1, <2>2, <2>3
  <1>10. \A y : Clears(y) => Clears(y)'
    <2> SUFFICES ASSUME NEW y, Clears(y)  PROVE Clears(y)'
      OBVIOUS
    <2>1. \A k \in Credits : (k \notin backend.banked => Over(y.loaded.until)) =>
                             (k \notin backend'.banked => Over(y.loaded.until)')
      BY <1>6 DEF Over
    <2>2. Over(y.loaded.until) => Over(y.loaded.until)'
      BY <1>6
    <2>3. y.loaded.until <= SpentEnd' /\ y.read <= SpentEnd'
      BY <1>6 DEF Clears
    <2> QED BY <2>1, <2>2, <2>3 DEF Clears
  <1>11. /\ jobs' \in [Guard!Jobs -> GuardJob] /\ jobs'[j] = x
         /\ \A i \in Guard!Jobs : i # j => jobs'[i] = jobs[i]
    BY <1>8, GuardJobIs DEF GuardInv
  <1>12. x.phase # "posting" /\ x.phase # "claiming"
    BY <1>7, <1>8
  <1>13. OneClaim'
    <2>1. Posting' = Posting \ {j}
      BY <1>11, <1>12, GuardFacts DEF GuardInv, Posting
    <2>2. CASE bought' = bought BY <1>1, <2>1, <2>2 DEF GuardInv, OneClaim
    <2>3. CASE j \in Monitors /\ bought' = bought + 1
      <3>1. j \in Posting
        BY <1>1, <2>3 DEF Posting
      <3>2. bought = 0 /\ record.claimed # 0 /\ Posting' = {}
        <4>1. bought \in Nat
          BY DEF GuardInv, GuardTypes
        <4> QED BY <2>1, <3>1, <4>1 DEF GuardInv, OneClaim
      <3> QED BY <1>1, <2>3, <3>2 DEF OneClaim
    <2> QED BY <1>5, <2>2, <2>3
  <1>14. Blocks'
    BY <1>1, <1>6 DEF GuardInv, Blocks
  <1>15. bought' \in Nat
    BY <1>5 DEF GuardInv, GuardTypes
  <1>16. GuardTypes'
    BY <1>1, <1>6, <1>11, <1>15 DEF GuardInv, GuardTypes, Untils
  <1>17. ASSUME NEW i \in Guard!Jobs
         PROVE  /\ Clears(jobs[i])'
                /\ i \in Monitors /\ jobs'[i].phase # "idle" => jobs'[i].kind = "monitor"
                /\ i \notin Monitors => jobs'[i].phase # "claiming"
    <2>1. CASE i = j
      <3>1. Clears(jobs[i])'
        BY <1>9, <1>11, <2>1 DEF Clears
      <3> QED BY <1>2, <1>8, <1>11, <1>12, <2>1, <3>1
    <2>2. CASE i # j
      <3>1. PICK y : y = jobs'[i] /\ y = jobs[i] /\ Clears(y)
        BY <1>11, <2>2 DEF GuardInv
      <3>2. Clears(y)'
        BY <1>10, <3>1
      <3>3. Clears(jobs[i])'
        BY <3>1, <3>2 DEF Clears
      <3> QED BY <3>1, <3>3 DEF GuardInv
    <2> QED BY <2>1, <2>2
  <1> QED BY <1>13, <1>14, <1>16, <1>17 DEF GuardInv

\* A block that is the one a job loaded is taken away only when it is over.
LEMMA ClearedIs ==
  ASSUME GuardConstants, GuardInv, NEW j \in Guard!Jobs, Over(jobs[j].loaded.until),
         UNCHANGED elapsed, UNCHANGED backend, UNCHANGED evidence,
         record' = Guard!ClearIfUnchanged(j)
  PROVE  /\ record' \in [until : Untils, stamp : 0..MaxElapsed, claimed : 0..MaxElapsed]
         /\ record'.claimed = record.claimed /\ Blocks'
  <1>1. PICK r \in [until : Untils, stamp : 0..MaxElapsed, claimed : 0..MaxElapsed] : r = record
    BY DEF GuardInv, GuardTypes
  <1>2. CASE record' = record BY <1>1, <1>2, BlocksStay
  <1>3. CASE record' # record
    <2>1. /\ jobs[j].loaded = [until |-> r.until, stamp |-> r.stamp]
          /\ record' = [r EXCEPT !.until = 0, !.stamp = 0]
      BY <1>1, <1>3 DEF Guard!ClearIfUnchanged
    <2>2. Over(r.until)
      BY <2>1
    <2>3. 0 \in Untils /\ 0 \in 0..MaxElapsed /\ SpentEnd \in Nat
      BY GuardFacts DEF GuardInv, Untils
    <2>4. /\ record' \in [until : Untils, stamp : 0..MaxElapsed, claimed : 0..MaxElapsed]
          /\ record'.claimed = record.claimed /\ record'.until = 0
      BY <1>1, <2>1, <2>3
    <2>5. ~(IsSpent /\ evidence = SpentEnd)
      <3>1. r.until = SpentEnd => ~(r.until < SpentEnd)
        BY <2>3
      <3> QED BY <1>1, <2>2, <3>1 DEF GuardInv, Blocks, Over
    <2>6. 0 <= SpentEnd /\ evidence <= SpentEnd
      BY <2>3 DEF GuardInv, Blocks
    <2> QED BY <2>4, <2>5, <2>6 DEF Blocks, IsSpent, SpentEnd
  <1> QED BY <1>2, <1>3

\* The longer block stays.
LEMMA StampedIs ==
  ASSUME GuardConstants, GuardInv, NEW until \in Untils, until <= SpentEnd, until > elapsed,
         UNCHANGED elapsed, UNCHANGED backend, record' = Guard!Stamp(until), evidence' = until
  PROVE  /\ record' \in [until : Untils, stamp : 0..MaxElapsed, claimed : 0..MaxElapsed]
         /\ record'.claimed = record.claimed /\ Blocks' /\ evidence' \in Untils
  <1>1. PICK r \in [until : Untils, stamp : 0..MaxElapsed, claimed : 0..MaxElapsed] : r = record
    BY DEF GuardInv, GuardTypes
  <1>2. elapsed \in 0..MaxElapsed /\ SpentEnd \in Nat /\ r.until \in Nat /\ until \in Nat /\ r.until <= SpentEnd
    BY <1>1, GuardFacts DEF GuardInv, GuardTypes, Blocks
  <1>3. CASE until > r.until
    <2>1. record' = [r EXCEPT !.until = until, !.stamp = elapsed]
      BY <1>1, <1>3 DEF Guard!Stamp
    <2>2. /\ record' \in [until : Untils, stamp : 0..MaxElapsed, claimed : 0..MaxElapsed]
          /\ record'.claimed = record.claimed /\ record'.until = until
      BY <1>1, <1>2, <2>1
    <2> QED BY <1>2, <2>2 DEF Blocks, IsSpent, SpentEnd
  <1>4. CASE ~(until > r.until)
    <2>1. record' = record
      BY <1>1, <1>4 DEF Guard!Stamp
    <2>2. until = SpentEnd => r.until = SpentEnd
      BY <1>2, <1>4
    <2> QED BY <1>1, <1>2, <2>1, <2>2 DEF Blocks, IsSpent, SpentEnd
  <1> QED BY <1>3, <1>4

LEMMA ClearIs ==
  ASSUME GuardConstants, GuardInv, NEW j \in Guard!Jobs, Guard!Clear(j)
  PROVE  GuardInv'
  <1>1. /\ UNCHANGED elapsed /\ UNCHANGED backend /\ UNCHANGED tried /\ UNCHANGED bought
        /\ UNCHANGED evidence /\ jobs[j].phase = "clearing" /\ record' = Guard!ClearIfUnchanged(j)
    BY DEF Guard!Clear
  <1>2. Over(jobs[j].loaded.until)
    BY <1>1 DEF GuardInv, Clears
  <1>3. /\ record' \in [until : Untils, stamp : 0..MaxElapsed, claimed : 0..MaxElapsed]
        /\ record'.claimed = record.claimed /\ Blocks'
    BY <1>1, <1>2, ClearedIs
  <1>4. CASE Guard!Goes(j, "rereading")
    BY <1>1, <1>3, <1>4, GoesIs DEF GuardInv, GuardTypes
  <1>5. CASE Guard!Ends(j) BY <1>1, <1>3, <1>5, EndsIs DEF GuardInv, GuardTypes
  <1> QED BY <1>4, <1>5 DEF Guard!Clear

LEMMA JudgeIs ==
  ASSUME GuardConstants, GuardInv, NEW j \in Guard!Jobs, Guard!Judge(j)
  PROVE  GuardInv'
  <1>1. /\ UNCHANGED elapsed /\ UNCHANGED backend /\ UNCHANGED tried /\ UNCHANGED bought
        /\ jobs[j].phase = "judging" /\ Guard!Ends(j)
    BY DEF Guard!Judge
  <1>2. PICK o \in GuardJob : o = jobs[j] /\ Clears(o) /\ o.phase = "judging"
    BY <1>1, GuardFacts DEF GuardInv
  <1>3. CASE o.read > elapsed /\ record' = Guard!Stamp(o.read) /\ Guard!Witness(o.read)
    <2>1. evidence' = o.read
      BY <1>3 DEF Guard!Witness
    <2>2. o.read \in Untils /\ o.read <= SpentEnd
      BY <1>2 DEF GuardJob, Clears
    <2>3. /\ record' \in [until : Untils, stamp : 0..MaxElapsed, claimed : 0..MaxElapsed]
          /\ record'.claimed = record.claimed /\ Blocks' /\ evidence' \in Untils
      BY <1>1, <1>3, <2>1, <2>2, StampedIs
    <2> QED BY <1>1, <2>3, EndsIs
  <1>4. CASE o.read = 0 /\ record' = Guard!ClearIfUnchanged(j) /\ UNCHANGED evidence
    <2>1. Over(jobs[j].loaded.until)
      BY <1>2, <1>4 DEF Clears
    <2>2. /\ record' \in [until : Untils, stamp : 0..MaxElapsed, claimed : 0..MaxElapsed]
          /\ record'.claimed = record.claimed /\ Blocks'
      BY <1>1, <1>4, <2>1, ClearedIs
    <2> QED BY <1>1, <1>4, <2>2, EndsIs DEF GuardInv, GuardTypes
  <1>5. CASE UNCHANGED record /\ UNCHANGED evidence
    <2>1. Blocks'
      BY <1>1, <1>5, BlocksStay
    <2> QED BY <1>1, <1>5, <2>1, EndsIs DEF GuardInv, GuardTypes
  <1> QED BY <1>2, <1>3, <1>4, <1>5 DEF Guard!Judge

LEMMA RequestIs ==
  ASSUME GuardConstants, GuardInv, Guard!Request
  PROVE  GuardInv'
  <1>1. /\ UNCHANGED elapsed /\ UNCHANGED backend /\ UNCHANGED jobs /\ UNCHANGED tried
        /\ UNCHANGED bought /\ Guard!SpentUntil > 0 /\ record' = Guard!Stamp(Guard!SpentUntil)
        /\ Guard!Witness(Guard!SpentUntil)
    BY DEF Guard!Request
  <1>2. Guard!SpentUntil = SpentEnd /\ IsSpent /\ SpentEnd \in Untils /\ SpentEnd <= SpentEnd /\ SpentEnd > elapsed
    <2>1. 0 \in Nat /\ ~(0 > 0)
      OBVIOUS
    <2>2. IsSpent
      BY <1>1, <2>1, SpentUntilIs DEF GuardInv
    <2> QED BY <2>2, SpentUntilIs, GuardFacts DEF GuardInv, IsSpent
  <1>3. evidence' = SpentEnd
    BY <1>1, <1>2 DEF Guard!Witness
  <1>4. /\ record' \in [until : Untils, stamp : 0..MaxElapsed, claimed : 0..MaxElapsed]
        /\ record'.claimed = record.claimed /\ Blocks' /\ evidence' \in Untils
    BY <1>1, <1>2, <1>3, StampedIs
  <1>5. GuardTypes'
    BY <1>1, <1>4 DEF GuardInv, GuardTypes, Untils
  <1>6. OneClaim'
    BY <1>1, <1>4 DEF GuardInv, OneClaim, Posting
  <1>7. \A y : Clears(y) => Clears(y)'
    BY <1>1 DEF Clears, Over, IsSpent, SpentEnd
  <1>8. \A i \in Guard!Jobs : Clears(jobs[i])'
    <2> SUFFICES ASSUME NEW i \in Guard!Jobs  PROVE Clears(jobs[i])'
      OBVIOUS
    <2>1. PICK y : y = jobs[i] /\ Clears(y)
      BY DEF GuardInv
    <2>2. Clears(y)' /\ y = jobs'[i]
      BY <1>1, <1>7, <2>1
    <2> QED BY <2>2 DEF Clears
  <1> QED BY <1>1, <1>4, <1>5, <1>6, <1>8 DEF GuardInv

LEMMA TickIs ==
  ASSUME GuardConstants, GuardInv, Guard!Tick
  PROVE  GuardInv'
  <1>1. /\ elapsed' = elapsed + 1 /\ elapsed < MaxElapsed /\ UNCHANGED backend /\ UNCHANGED record
        /\ UNCHANGED jobs /\ UNCHANGED tried /\ UNCHANGED bought /\ UNCHANGED evidence
    BY DEF Guard!Tick
  <1>2. elapsed \in Nat \ {0} /\ MaxElapsed \in Nat /\ SpentEnd \in Nat
    BY GuardFacts DEF GuardInv
  <1>3. elapsed' \in 1..MaxElapsed
    BY <1>1, <1>2
  <1>4. SpentEnd' = SpentEnd /\ (IsSpent' => IsSpent)
    BY <1>1, <1>2 DEF IsSpent, SpentEnd
  <1>5. GuardTypes'
    BY <1>1, <1>3 DEF GuardInv, GuardTypes, Untils
  <1>6. OneClaim' /\ Blocks'
    BY <1>1, <1>4 DEF GuardInv, OneClaim, Posting, Blocks
  <1>7. ASSUME NEW i \in Guard!Jobs  PROVE Clears(jobs[i])'
    <2>1. PICK y : y = jobs[i] /\ y = jobs'[i] /\ Clears(y)
      BY <1>1 DEF GuardInv
    <2>2. Clears(y)'
      BY <1>1, <1>4, <2>1 DEF Clears, Over
    <2> QED BY <2>1, <2>2 DEF Clears
  <1> QED BY <1>1, <1>5, <1>6, <1>7 DEF GuardInv

\* What was known before the quota was spent again is over.
LEMMA DepleteIs ==
  ASSUME GuardConstants, GuardInv, Guard!Deplete("week")
  PROVE  GuardInv'
  <1>1. PICK until \in elapsed + 1 .. MaxElapsed + 1 :
          /\ until > SpentEnd
          /\ backend' = [backend EXCEPT !.until["week"] = until, !.renewed = @ \ {"week"}]
    BY DEF Guard!Deplete, SpentEnd
  <1>2. /\ UNCHANGED elapsed /\ UNCHANGED record /\ UNCHANGED jobs /\ UNCHANGED tried
        /\ UNCHANGED evidence /\ bought' = 0
    BY DEF Guard!Deplete
  <1>3. PICK b \in [until : [{"week"} -> Untils], renewed : SUBSET {"week"}, banked : SUBSET Credits] :
          b = backend
    BY DEF GuardInv, GuardTypes
  <1>4. until \in Untils /\ SpentEnd \in Nat /\ until \in Nat
    BY GuardFacts DEF GuardInv, Untils
  <1>5. PICK f \in [{"week"} -> Untils] : f = [b.until EXCEPT !["week"] = until] /\ f["week"] = until
    <2>1. b.until \in [{"week"} -> Untils] /\ "week" \in {"week"}
      OBVIOUS
    <2>2. [b.until EXCEPT !["week"] = until] \in [{"week"} -> Untils]
      BY <1>4, <2>1
    <2>3. [b.until EXCEPT !["week"] = until]["week"] = until
      BY <2>1
    <2> QED BY <2>2, <2>3
  <1> DEFINE n == [b EXCEPT !.until = f, !.renewed = b.renewed \ {"week"}]
  <1>6. /\ n \in [until : [{"week"} -> Untils], renewed : SUBSET {"week"}, banked : SUBSET Credits]
        /\ n.until["week"] = until /\ n.banked = b.banked
    BY <1>5
  <1>7. backend' = n
    BY <1>1, <1>3, <1>5
  <1> HIDE DEF n
  <1>8. SpentEnd' = until /\ backend'.banked = backend.banked
    BY <1>3, <1>6, <1>7 DEF SpentEnd
  <1>9. \A u \in Untils : u <= SpentEnd => u < SpentEnd' /\ u <= SpentEnd' /\ Over(u)'
    BY <1>1, <1>4, <1>8, GuardFacts DEF Over, GuardInv
  <1>10. GuardTypes'
    BY <1>2, <1>6, <1>7 DEF GuardInv, GuardTypes, Untils
  <1>11. OneClaim'
    BY <1>2 DEF GuardInv, OneClaim, Posting
  <1>12. record.until \in Untils /\ evidence \in Untils
    BY DEF GuardInv, GuardTypes
  <1>13. Blocks'
    <2>1. record.until < SpentEnd' /\ record.until <= SpentEnd' /\ evidence < SpentEnd' /\ evidence <= SpentEnd'
      BY <1>9, <1>12 DEF GuardInv, Blocks
    <2>2. evidence # SpentEnd'
      BY <1>4, <1>8, <1>12, <2>1, GuardFacts DEF GuardInv
    <2> QED BY <1>2, <2>1, <2>2 DEF Blocks
  <1>14. ASSUME NEW i \in Guard!Jobs  PROVE Clears(jobs[i])'
    <2>1. PICK y \in GuardJob : y = jobs[i] /\ y = jobs'[i] /\ Clears(y)
      BY <1>2, GuardFacts DEF GuardInv
    <2>2. y.loaded.until \in Untils /\ y.read \in Untils
      BY DEF GuardJob
    <2>3. y.loaded.until <= SpentEnd' /\ y.read <= SpentEnd' /\ Over(y.loaded.until)'
      BY <1>9, <2>1, <2>2 DEF Clears
    <2>4. y.phase \in {"claiming", "posting"} => \E c \in Credits : y.credit = {c}
      BY <2>1 DEF Clears
    <2>5. y.phase \in {"listing", "claiming", "posting"} /\ y.kind = "monitor" => y.read # 0
      BY <2>1 DEF Clears
    <2>6. Clears(y)'
      BY <2>3, <2>4, <2>5 DEF Clears
    <2> QED BY <2>1, <2>6 DEF Clears
  <1> QED BY <1>2, <1>10, <1>11, <1>13, <1>14 DEF GuardInv

LEMMA GuardStarts ==
  ASSUME GuardConstants, Guard!Init
  PROVE  GuardInv
  <1>1. MaxElapsed \in Nat \ {0}
    BY DEF GuardConstants
  <1>2. 0 \in Untils /\ 0 \in 0..MaxElapsed /\ 1 \in 1..MaxElapsed /\ 0 \in Nat
    BY <1>1 DEF Untils
  <1>3. Guard!NoJob \in GuardJob /\ Guard!NoJob.phase = "idle" /\ Guard!NoJob.read = 0
        /\ Guard!NoJob.loaded.until = 0
    BY <1>2 DEF Guard!NoJob, Guard!Unblocked, GuardJob
  <1>4. \A j \in Guard!Jobs : jobs[j] = Guard!NoJob
    BY DEF Guard!Init
  <1>5. /\ elapsed = 1 /\ bought = 0 /\ evidence = 0 /\ tried = [m \in Monitors |-> {}]
        /\ record = [until |-> 0, stamp |-> 0, claimed |-> 0]
        /\ backend = [until |-> [w \in {"week"} |-> 0], renewed |-> {}, banked |-> Credits]
        /\ jobs = [j \in Guard!Jobs |-> Guard!NoJob]
    BY DEF Guard!Init
  <1>6. SpentEnd = 0 /\ ~IsSpent
    BY <1>5 DEF SpentEnd, IsSpent
  <1>7. GuardTypes
    <2>1. elapsed \in 1..MaxElapsed /\ bought \in Nat /\ evidence \in Untils
      BY <1>2, <1>5
    <2>2. record \in [until : Untils, stamp : 0..MaxElapsed, claimed : 0..MaxElapsed]
      BY <1>2, <1>5
    <2>3. backend \in [until : [{"week"} -> Untils], renewed : SUBSET {"week"}, banked : SUBSET Credits]
      BY <1>2, <1>5
    <2>4. tried \in [Monitors -> SUBSET Credits] /\ jobs \in [Guard!Jobs -> GuardJob]
      BY <1>3, <1>5
    <2> QED BY <2>1, <2>2, <2>3, <2>4 DEF GuardTypes
  <1>8. Posting = {}
    BY <1>3, <1>4 DEF Posting, Guard!Jobs
  <1>9. OneClaim /\ Blocks
    BY <1>5, <1>6, <1>8 DEF OneClaim, Blocks
  <1>10. ASSUME NEW i \in Guard!Jobs  PROVE Clears(jobs[i])
    BY <1>3, <1>4, <1>6 DEF Clears
  <1>11. \A i \in Guard!Jobs : jobs[i].phase = "idle"
    BY <1>3, <1>4
  <1> QED BY <1>7, <1>9, <1>10, <1>11 DEF GuardInv

LEMMA GuardSteps ==
  ASSUME GuardConstants, GuardInv, [Guard!Next]_(Guard!vars)
  PROVE  GuardInv'
  <1>1. CASE Guard!Tick \/ Guard!Request BY <1>1, TickIs, RequestIs
  <1>2. CASE \E w \in {"week"} : Guard!Deplete(w) BY <1>2, DepleteIs
  <1>3. CASE \E j \in Guard!Jobs : Guard!Step(j)
    <2>1. PICK j \in Guard!Jobs : Guard!Step(j)
      BY <1>3
    <2>2. CASE Guard!Read(j) BY <2>2, ReadIs
    <2>3. CASE Guard!List(j) BY <2>3, ListIs
    <2>4. CASE Guard!ListFails(j) BY <2>4, ListFailsIs
    <2>5. CASE Guard!Claim(j) BY <2>5, ClaimIs
    <2>6. CASE Guard!Post(j) BY <2>6, PostIs
    <2>7. CASE Guard!Clear(j) BY <2>7, ClearIs
    <2>8. CASE Guard!Judge(j) BY <2>8, JudgeIs
    <2> QED BY <2>1, <2>2, <2>3, <2>4, <2>5, <2>6, <2>7, <2>8 DEF Guard!Step
  <1>4. CASE \E j \in Guard!Jobs : Guard!Fail(j) \/ \E kind \in Guard!Kinds : Guard!Start(j, kind)
    BY <1>4, FailIs, StartIs
  <1>5. CASE UNCHANGED Guard!vars
    <2>1. /\ UNCHANGED elapsed /\ UNCHANGED backend /\ UNCHANGED record /\ UNCHANGED jobs
          /\ UNCHANGED tried /\ UNCHANGED bought /\ UNCHANGED evidence
      BY <1>5 DEF Guard!vars
    <2>2. GuardTypes'
      BY <2>1 DEF GuardInv, GuardTypes, Untils
    <2>3. OneClaim' /\ Blocks'
      BY <2>1 DEF GuardInv, OneClaim, Posting, Blocks, IsSpent, SpentEnd
    <2>4. ASSUME NEW i \in Guard!Jobs  PROVE Clears(jobs[i])'
      <3>1. Clears(jobs[i])
        BY DEF GuardInv
      <3> QED BY <2>1, <3>1 DEF Clears, Over, IsSpent, SpentEnd
    <2> QED BY <2>1, <2>2, <2>3, <2>4 DEF GuardInv
  <1> QED BY <1>1, <1>2, <1>3, <1>4, <1>5 DEF Guard!Next

LEMMA GuardSound ==
  ASSUME GuardConstants, GuardInv
  PROVE  Guard!TypeOK /\ Guard!GuardSafe
  <1>1. Guard!TypeOK
    <2>1. \A j \in Guard!Jobs : jobs[j].phase \in
            {"idle", "reading", "rereading", "listing", "claiming", "posting", "clearing", "judging"}
      BY GuardFacts DEF GuardInv, GuardJob
    <2> QED BY <2>1 DEF GuardInv, GuardTypes, Guard!TypeOK, Untils
  <1>2. Guard!RedeemedOnce
    BY DEF GuardInv, OneClaim, Guard!RedeemedOnce
  <1>3. Guard!SpentStaysBlocked
    <2> SUFFICES ASSUME evidence # 0, evidence = Guard!SpentUntil  PROVE record.until >= evidence
      BY DEF Guard!SpentStaysBlocked
    <2>1. IsSpent /\ evidence = SpentEnd
      BY SpentUntilIs DEF GuardInv
    <2>2. record.until = SpentEnd /\ SpentEnd \in Nat
      BY <2>1, GuardFacts DEF GuardInv, Blocks
    <2> QED BY <2>1, <2>2
  <1> QED BY <1>1, <1>2, <1>3 DEF Guard!GuardSafe

(***************************************************************************)
(* Whatever monitors and commands share the account, and whatever credits  *)
(* are banked: within the week for which a claim stands no second credit   *)
(* is redeemed for one spent quota, and while the quota that was reported  *)
(* is still spent no job with an older reading lifts the block             *)
(* (persistAutoRedeemWeeklyClaim, persistUsageQuotaExhaustion,             *)
(* persistUsageQuotaRecovery in quota-notifications.ts and codex-usage.ts, *)
(* clearUnchangedRecoveryState in the tools).                              *)
(***************************************************************************)
THEOREM BlocksStaySafe ==
  ASSUME GuardConstants
  PROVE  Guard!Spec => [](Guard!TypeOK /\ Guard!GuardSafe)
  <1>1. Guard!Init => GuardInv
    BY GuardStarts
  <1>2. GuardInv /\ [Guard!Next]_(Guard!vars) => GuardInv'
    BY GuardSteps
  <1>3. GuardInv => Guard!TypeOK /\ Guard!GuardSafe
    BY GuardSound
  <1> QED BY <1>1, <1>2, <1>3, PTL DEF Guard!Spec

-----------------------------------------------------------------------------
(***************************************************************************)
(* The alerts of the quota monitors.                                       *)
(***************************************************************************)
Alerts == INSTANCE QuotaNotify

\* One process with every fault, or any number of them without.
Alone == \A p, q \in Procs : p = q

AlertConstants ==
  /\ Top \in Nat /\ Interval \in Nat /\ MaxClock \in Nat \ {0}
  /\ Thresholds \subseteq 0..Top
  /\ Alone \/ (InOrder /\ Faults = {})

-----------------------------------------------------------------------------
Headroom == [Windows -> 0..Top + 1]

AlertState == [pct : Headroom, delivered : 0..MaxClock, at : 0..MaxClock]

AlertCheck ==
  [phase : {"idle", "polling", "probing", "seen", "claimed", "releasing"}, seen : Headroom,
   now : 0..MaxClock, baseline : AlertState, crossed : SUBSET Windows,
   previous : 0..MaxClock, after : 0..MaxClock]

Poller == [timer : BOOLEAN, disposed : BOOLEAN]

AlertTypes ==
  /\ left \in [Accounts -> [Windows -> 0..Top]] /\ clock \in 1..MaxClock
  /\ state \in AlertState /\ memory \in [Procs -> AlertState]
  /\ monitor \in [Procs -> Poller] /\ checks \in [Procs -> AlertCheck]
  /\ told \in [Windows -> [Thresholds -> {0, 1, 3}]] /\ last \in 0..MaxClock /\ early = FALSE

\* What p's next claim is compared with: a process alone remembers what a lost
\* file said, and several have the file.
Book(p) == IF Alone THEN memory[p] ELSE state

Bookkeeping(p) ==
  /\ Alone => state = memory[p] \/ state = Alerts!NoState
  /\ Alone /\ memory[p].at = 0 => memory[p] = Alerts!NoState
  /\ ~Alone => memory[p].at <= state.at /\ memory[p].delivered <= state.delivered
  /\ Book(p).delivered <= Book(p).at /\ Book(p).at <= clock /\ last <= Book(p).delivered

\* A check is about what was seen after everything the book says.
Stands(p, x) ==
  /\ x.phase \in {"seen", "claimed", "releasing"} => x.now \in 1..clock
  /\ x.phase = "seen" => Book(p).at <= x.now
  /\ x.phase \in {"claimed", "releasing"} =>
       /\ x.now <= Book(p).delivered
       /\ x.crossed = {w \in Windows : Alerts!Crossed(x.baseline.pct[w], x.seen[w]) # {}}
       /\ x.crossed = {} => x.after = 0 \/ x.after + Interval <= x.now
       /\ Alone => /\ state = memory[p] /\ memory[p].at = x.now /\ memory[p].pct = x.seen
                   /\ last <= x.previous /\ x.previous <= x.now
  /\ ~Alone => x.phase # "releasing"

Watches(x, m) ==
  /\ m.disposed = TRUE \/ m.timer = TRUE \/ x.phase \notin {"idle", "probing"}
  /\ ~Alone /\ x.phase \in {"seen", "claimed"} => m.disposed = FALSE

\* The levels that the announcements that stand are about.
Reverted(x) == [w \in Windows |-> IF w \in x.crossed THEN x.baseline.pct[w] ELSE x.seen[w]]

Announced(p, x) == IF x.phase = "releasing" THEN Reverted(x) ELSE Book(p).pct

\* Once, or Lost.
Exact(pct) ==
  \A w \in Windows, t \in Thresholds : told[w][t] \in IF pct[w] <= t THEN {1, 3} ELSE {0}

OneLooks == ~Alone => \A p, q \in Procs : checks[p].phase = "seen" /\ checks[q].phase = "seen" => p = q

AlertInv ==
  /\ AlertTypes /\ OneLooks
  /\ \A p \in Procs :
       /\ Bookkeeping(p) /\ Stands(p, checks[p]) /\ Watches(checks[p], monitor[p])
       /\ Exact(Announced(p, checks[p]))

-----------------------------------------------------------------------------
LEMMA AlertFacts ==
  ASSUME AlertConstants, AlertTypes
  PROVE  /\ Top \in Nat /\ Interval \in Nat /\ MaxClock \in Nat /\ clock \in Nat /\ clock <= MaxClock
         /\ 0 \in 0..MaxClock /\ clock \in 0..MaxClock /\ Top + 1 \in 0..Top + 1
         /\ \A i \in 0..MaxClock : i \in Nat
         /\ \A p \in Procs : /\ memory[p] \in AlertState /\ checks[p] \in AlertCheck
                             /\ monitor[p] \in Poller /\ Book(p) \in AlertState
         /\ \A s \in AlertState : s.at \in Nat /\ s.delivered \in Nat /\ s.pct \in Headroom
         /\ Alerts!NoState \in AlertState /\ Alerts!NoState.at = 0 /\ Alerts!NoState.delivered = 0
         /\ \A t \in Thresholds : t \in Nat /\ t <= Top
  <1>1. Top \in Nat /\ Interval \in Nat /\ MaxClock \in Nat /\ clock \in Nat /\ clock <= MaxClock
    BY DEF AlertConstants, AlertTypes
  <1>2. /\ 0 \in 0..MaxClock /\ clock \in 0..MaxClock /\ Top + 1 \in 0..Top + 1
        /\ \A i \in 0..MaxClock : i \in Nat
    BY <1>1
  <1>3. \A p \in Procs : /\ memory[p] \in AlertState /\ checks[p] \in AlertCheck
                         /\ monitor[p] \in Poller /\ Book(p) \in AlertState
    BY DEF AlertTypes, Book
  <1>4. \A s \in AlertState : s.at \in Nat /\ s.delivered \in Nat /\ s.pct \in Headroom
    BY <1>2 DEF AlertState
  <1>5. Alerts!NoState \in AlertState /\ Alerts!NoState.at = 0 /\ Alerts!NoState.delivered = 0
    BY <1>2 DEF Alerts!NoState, Alerts!Unseen, AlertState, Headroom
  <1>6. \A t \in Thresholds : t \in Nat /\ t <= Top
    BY <1>1 DEF AlertConstants
  <1> QED BY <1>1, <1>2, <1>3, <1>4, <1>5, <1>6

\* The baseline of a claim, and the delivery it follows.
LEMMA BookIs ==
  ASSUME AlertConstants, AlertInv, NEW p \in Procs
  PROVE  /\ Alerts!Baseline(p) = Book(p)
         /\ Alerts!Latest(state.delivered, memory[p].delivered) = Book(p).delivered
  <1>1. PICK s \in AlertState : s = state
    BY DEF AlertInv, AlertTypes
  <1>2. PICK r \in AlertState : r = memory[p]
    BY AlertFacts DEF AlertInv
  <1>3. s.at \in Nat /\ r.at \in Nat /\ s.delivered \in Nat /\ r.delivered \in Nat
    BY AlertFacts DEF AlertInv
  <1>4. CASE Alone
    <2>1. CASE s = r
      BY <1>1, <1>2, <1>3, <1>4, <2>1 DEF Book, Alerts!Baseline, Alerts!Latest
    <2>2. CASE s = Alerts!NoState
      <3>1. s.at = 0 /\ s.delivered = 0 /\ (r.at = 0 => r = s)
        BY <1>1, <1>2, <1>4, <2>2, AlertFacts DEF AlertInv, Bookkeeping
      <3> QED BY <1>1, <1>2, <1>3, <1>4, <3>1 DEF Book, Alerts!Baseline, Alerts!Latest
    <2> QED BY <1>1, <1>2, <1>4, <2>1, <2>2 DEF AlertInv, Bookkeeping
  <1>5. CASE ~Alone
    <2>1. r.at <= s.at /\ r.delivered <= s.delivered
      BY <1>1, <1>2, <1>5 DEF AlertInv, Bookkeeping
    <2> QED BY <1>1, <1>2, <1>3, <1>5, <2>1 DEF Book, Alerts!Baseline, Alerts!Latest
  <1> QED BY <1>4, <1>5

LEMMA QuietIs ==
  ASSUME AlertConstants, AlertTypes
  PROVE  /\ Alerts!Quiet \in AlertCheck /\ Alerts!Quiet.phase = "idle"
         /\ \A p \in Procs : Stands(p, Alerts!Quiet)
  <1>1. Alerts!NoState \in AlertState /\ Alerts!NoState.pct \in Headroom /\ 0 \in 0..MaxClock
    BY AlertFacts
  <1>2. Alerts!Quiet \in AlertCheck /\ Alerts!Quiet.phase = "idle"
    BY <1>1 DEF Alerts!Quiet, AlertCheck
  <1> QED BY <1>2 DEF Stands

LEMMA CheckIs ==
  ASSUME AlertConstants, AlertTypes, NEW p \in Procs, NEW x \in AlertCheck, checks' = [checks EXCEPT ![p] = x]
  PROVE  /\ checks' \in [Procs -> AlertCheck] /\ checks'[p] = x
         /\ \A q \in Procs : q # p => checks'[q] = checks[q]
  BY DEF AlertTypes

LEMMA PollerIs ==
  ASSUME AlertConstants, AlertTypes, NEW p \in Procs, NEW m \in Poller, monitor' = [monitor EXCEPT ![p] = m]
  PROVE  /\ monitor' \in [Procs -> Poller] /\ monitor'[p] = m
         /\ \A q \in Procs : q # p => monitor'[q] = monitor[q]
  BY DEF AlertTypes

\* A step of one process that leaves the announcements alone.
LEMMA AlertQuietStep ==
  ASSUME AlertConstants, AlertInv, NEW p \in Procs, NEW x \in AlertCheck, NEW m \in Poller,
         UNCHANGED left, UNCHANGED clock, UNCHANGED state, UNCHANGED memory, UNCHANGED told,
         UNCHANGED last, UNCHANGED early,
         checks' = [checks EXCEPT ![p] = x], monitor' = [monitor EXCEPT ![p] = m],
         x.phase # "releasing", checks[p].phase # "releasing", Stands(p, x), Watches(x, m),
         x.phase = "seen" /\ ~Alone => \A q \in Procs : checks[q].phase # "seen"
  PROVE  AlertInv'
  <1>1. AlertTypes'
    BY CheckIs, PollerIs DEF AlertInv, AlertTypes
  <1>2. OneLooks'
    BY CheckIs DEF AlertInv, OneLooks
  <1>3. ASSUME NEW q \in Procs
        PROVE  /\ Bookkeeping(q)' /\ Stands(q, checks[q])' /\ Watches(checks[q], monitor[q])'
               /\ Exact(Announced(q, checks[q]))'
    <2>1. Bookkeeping(q)'
      BY DEF AlertInv, Bookkeeping, Book
    <2>2. PICK y \in AlertCheck, n \in Poller :
            /\ y = checks'[q] /\ n = monitor'[q] /\ Stands(q, y) /\ Watches(y, n)
            /\ Exact(Announced(q, y))
      <3>1. CASE q = p
        <4>1. Announced(p, x) = Announced(p, checks[p])
          BY DEF Announced
        <4>2. Exact(Announced(p, x))
          BY <4>1 DEF AlertInv
        <4> QED BY <3>1, <4>2, CheckIs, PollerIs DEF AlertInv
      <3>2. CASE q # p
        <4>1. checks'[q] = checks[q] /\ monitor'[q] = monitor[q]
          BY <3>2, CheckIs, PollerIs DEF AlertInv
        <4>2. checks[q] \in AlertCheck /\ monitor[q] \in Poller
          BY AlertFacts DEF AlertInv
        <4> QED BY <4>1, <4>2 DEF AlertInv
      <3> QED BY <3>1, <3>2
    <2>3. Stands(q, y)'
      BY <2>2 DEF Stands, Book
    <2>4. Exact(Announced(q, y))'
      BY <2>2 DEF Exact, Announced, Book, Reverted
    <2>5. Stands(q, checks[q])' /\ Exact(Announced(q, checks[q]))'
      BY <2>2, <2>3, <2>4
    <2>6. Watches(checks[q], monitor[q])'
      BY <2>2 DEF Watches
    <2> QED BY <2>1, <2>5, <2>6
  <1> QED BY <1>1, <1>2, <1>3 DEF AlertInv

\* The end of a check arms the timer, unless the monitor was disposed.
LEMMA AlertEndsIs ==
  ASSUME AlertConstants, AlertInv, NEW p \in Procs, Alerts!Ends(p)
  PROVE  \E m \in Poller :
           /\ monitor' = [monitor EXCEPT ![p] = m] /\ Watches(Alerts!Quiet, m)
           /\ checks' = [checks EXCEPT ![p] = Alerts!Quiet] /\ m.disposed = monitor[p].disposed
  <1>1. PICK o \in Poller : o = monitor[p] /\ Watches(checks[p], o)
    BY AlertFacts DEF AlertInv
  <1>2. PICK timer \in BOOLEAN :
          /\ timer = (o.timer \/ (checks[p].phase # "probing" /\ ~o.disposed))
          /\ o.disposed = TRUE \/ timer = TRUE
    <2> DEFINE timer == o.timer \/ (checks[p].phase # "probing" /\ ~o.disposed)
    <2>1. timer \in BOOLEAN
      OBVIOUS
    <2>2. o.disposed \in BOOLEAN /\ o.timer \in BOOLEAN
      BY DEF Poller
    <2>3. o.disposed = TRUE \/ timer = TRUE
      <3>1. CASE checks[p].phase = "probing" BY <1>1, <2>2, <3>1 DEF Watches
      <3>2. CASE checks[p].phase # "probing" BY <2>2, <3>2
      <3> QED BY <3>1, <3>2
    <2> QED BY <2>1, <2>3
  <1> DEFINE m == [o EXCEPT !.timer = timer]
  <1>3. m \in Poller /\ m.timer = timer /\ m.disposed = o.disposed
    BY DEF Poller
  <1>4. monitor' = [monitor EXCEPT ![p] = m]
    <2>1. monitor' = [monitor EXCEPT ![p].timer = @ \/ (checks[p].phase # "probing" /\ ~monitor[p].disposed)]
      BY DEF Alerts!Ends
    <2>2. monitor' = [monitor EXCEPT ![p].timer = timer]
      BY <1>1, <1>2, <2>1
    <2> QED BY <1>1, <2>2 DEF AlertInv, AlertTypes
  <1> HIDE DEF m
  <1>5. Watches(Alerts!Quiet, m)
    BY <1>2, <1>3, QuietIs DEF Watches, AlertInv
  <1>6. checks' = [checks EXCEPT ![p] = Alerts!Quiet]
    BY DEF Alerts!Ends
  <1> QED BY <1>1, <1>3, <1>4, <1>5, <1>6

LEMMA DroppedIs ==
  ASSUME AlertConstants, AlertInv, NEW p \in Procs, Alerts!Ends(p), checks[p].phase # "releasing",
         UNCHANGED left, UNCHANGED clock, UNCHANGED state, UNCHANGED memory, UNCHANGED told,
         UNCHANGED last, UNCHANGED early
  PROVE  AlertInv'
  <1>1. PICK m \in Poller :
           /\ monitor' = [monitor EXCEPT ![p] = m] /\ Watches(Alerts!Quiet, m)
           /\ checks' = [checks EXCEPT ![p] = Alerts!Quiet]
    BY AlertEndsIs
  <1>2. PICK x \in AlertCheck : x = Alerts!Quiet /\ x.phase = "idle" /\ Stands(p, x)
    BY QuietIs DEF AlertInv
  <1> QED BY <1>1, <1>2, AlertQuietStep

LEMMA GoesOn ==
  ASSUME AlertConstants, AlertInv, NEW p \in Procs, NEW phase \in {"polling", "probing"},
         Alerts!Goes(p, phase), NEW m \in Poller, monitor' = [monitor EXCEPT ![p] = m],
         checks[p].phase = "idle",
         m.disposed = TRUE \/ m.timer = TRUE \/ phase = "polling",
         UNCHANGED left, UNCHANGED clock, UNCHANGED state, UNCHANGED memory, UNCHANGED told,
         UNCHANGED last, UNCHANGED early
  PROVE  AlertInv'
  <1>1. PICK o \in AlertCheck : o = checks[p] /\ Stands(p, o)
    BY AlertFacts DEF AlertInv
  <1> DEFINE x == [o EXCEPT !.phase = phase]
  <1>2. x \in AlertCheck /\ x.phase = phase
    BY DEF AlertCheck
  <1>3. checks' = [checks EXCEPT ![p] = x]
    BY <1>1 DEF AlertInv, AlertTypes, Alerts!Goes
  <1> HIDE DEF x
  <1>4. Stands(p, x)
    BY <1>2 DEF Stands
  <1>5. Watches(x, m)
    BY <1>2 DEF Watches
  <1> QED BY <1>2, <1>3, <1>4, <1>5, AlertQuietStep

LEMMA PollIs ==
  ASSUME AlertConstants, AlertInv, NEW p \in Procs, Alerts!Poll(p)
  PROVE  AlertInv' \/ UNCHANGED Alerts!vars
  <1>1. /\ UNCHANGED left /\ UNCHANGED clock /\ UNCHANGED state /\ UNCHANGED memory
        /\ UNCHANGED told /\ UNCHANGED last /\ UNCHANGED early
    BY DEF Alerts!Poll
  <1>2. CASE checks[p].phase = "idle"
    <2>1. PICK o \in Poller : o = monitor[p]
      BY AlertFacts DEF AlertInv
    <2> DEFINE m == [o EXCEPT !.timer = FALSE]
    <2>2. m \in Poller
      BY DEF Poller
    <2>3. monitor' = [monitor EXCEPT ![p] = m] /\ Alerts!Goes(p, "polling")
      BY <1>2, <2>1 DEF AlertInv, AlertTypes, Alerts!Poll
    <2> HIDE DEF m
    <2> QED BY <1>1, <1>2, <2>2, <2>3, GoesOn
  <1>3. CASE checks[p].phase # "idle"
    BY <1>1, <1>3 DEF Alerts!Poll, Alerts!vars
  <1> QED BY <1>2, <1>3

LEMMA ProbeIs ==
  ASSUME AlertConstants, AlertInv, NEW p \in Procs, Alerts!Probe(p)
  PROVE  AlertInv'
  <1>1. /\ UNCHANGED left /\ UNCHANGED clock /\ UNCHANGED state /\ UNCHANGED memory
        /\ UNCHANGED told /\ UNCHANGED last /\ UNCHANGED early /\ UNCHANGED monitor
        /\ checks[p].phase = "idle" /\ Alerts!Goes(p, "probing")
    BY DEF Alerts!Probe
  <1>2. PICK m \in Poller : m = monitor[p] /\ Watches(checks[p], m)
    BY AlertFacts DEF AlertInv
  <1>3. monitor' = [monitor EXCEPT ![p] = m]
    BY <1>1, <1>2 DEF AlertInv, AlertTypes
  <1>4. m.disposed = TRUE \/ m.timer = TRUE
    BY <1>1, <1>2 DEF Watches
  <1> QED BY <1>1, <1>3, <1>4, GoesOn

\* There is a best account.
LEMMA AggregateIs ==
  ASSUME AlertConstants, AlertTypes, NEW answered \in (SUBSET Accounts) \ {{}}
  PROVE  Alerts!Aggregate(answered) \in Headroom
  <1> SUFFICES ASSUME NEW w \in Windows
               PROVE  Alerts!Max({left[a][w] : a \in answered}) \in 0..Top + 1
    BY DEF Alerts!Aggregate, Headroom
  <1> DEFINE all == {left[a][w] : a \in answered}
             gaps == {Top - l : l \in all}
  <1>1. Top \in Nat
    BY DEF AlertConstants
  <1>2. all \subseteq 0..Top /\ all # {}
    <2>1. \A a \in answered : left[a] \in [Windows -> 0..Top]
      BY DEF AlertTypes
    <2>2. \A a \in answered : left[a][w] \in 0..Top
      BY <2>1
    <2> QED BY <2>2
  <1> HIDE DEF all
  <1>3. gaps \subseteq Nat /\ gaps # {}
    <2>1. \A l \in 0..Top : Top - l \in Nat
      BY <1>1
    <2>2. \A l \in all : Top - l \in Nat
      BY <1>2, <2>1
    <2> QED BY <1>2, <2>2
  <1>4. /\ \A h \in gaps : \E l \in all : h = Top - l
        /\ \A l \in all : Top - l \in gaps
    OBVIOUS
  <1> HIDE DEF gaps
  <1> DEFINE R == OpToRel(<, Nat)
  <1>5. PICK g \in gaps : \A h \in gaps : ~(<<h, g>> \in R)
    <2>1. IsWellFoundedOn(R, Nat)
      BY NatLessThanWellFounded
    <2> HIDE DEF R
    <2> QED BY <1>3, <2>1, WFMin
  <1>6. PICK l \in all : g = Top - l
    BY <1>4
  <1>7. \A k \in all : l >= k
    <2> SUFFICES ASSUME NEW k \in all, k > l  PROVE FALSE
      BY <1>1, <1>2
    <2>1. PICK h \in gaps : h = Top - k
      BY <1>4
    <2>2. h \in Nat /\ g \in Nat /\ k \in Nat /\ l \in Nat
      BY <1>1, <1>2, <1>3
    <2>3. h < g
      BY <1>1, <1>6, <2>1, <2>2
    <2>4. <<h, g>> \in Nat \X Nat /\ <<h, g>>[1] < <<h, g>>[2]
      BY <2>2, <2>3
    <2> QED BY <1>5, <2>4 DEF OpToRel
  <1>8. Alerts!Max(all) = CHOOSE x \in all : \A y \in all : x >= y
    BY DEF Alerts!Max
  <1>9. Alerts!Max(all) \in all
    BY <1>7, <1>8
  <1>10. Alerts!Max(all) \in 0..Top + 1
    <2>1. PICK best \in 0..Top : best = Alerts!Max(all)
      BY <1>2, <1>9
    <2>2. best \in 0..Top + 1
      BY <1>1
    <2> QED BY <2>1, <2>2
  <1> QED BY <1>10 DEF all

LEMMA LookIs ==
  ASSUME AlertConstants, AlertInv, NEW p \in Procs, Alerts!Look(p)
  PROVE  AlertInv'
  <1>1. /\ UNCHANGED left /\ UNCHANGED clock /\ UNCHANGED state /\ UNCHANGED memory
        /\ UNCHANGED told /\ UNCHANGED last /\ UNCHANGED early /\ UNCHANGED monitor
        /\ checks[p].phase = "polling" /\ ~monitor[p].disposed
        /\ InOrder => \A q \in Procs : checks[q].phase # "seen"
    BY DEF Alerts!Look
  <1>2. PICK seen \in Headroom :
          checks' = [checks EXCEPT ![p].phase = "seen", ![p].seen = seen, ![p].now = clock]
    BY AggregateIs DEF Alerts!Look, AlertInv
  <1>3. PICK o \in AlertCheck : o = checks[p] /\ Stands(p, o)
    BY AlertFacts DEF AlertInv
  <1>4. PICK m \in Poller : m = monitor[p]
    BY AlertFacts DEF AlertInv
  <1> DEFINE x == [o EXCEPT !.phase = "seen", !.seen = seen, !.now = clock]
  <1>5. x \in AlertCheck /\ x.phase = "seen" /\ x.now = clock
    BY AlertFacts DEF AlertInv, AlertCheck
  <1>6. checks' = [checks EXCEPT ![p] = x]
    BY <1>2, <1>3 DEF AlertInv, AlertTypes
  <1> HIDE DEF x
  <1>7. Stands(p, x)
    <2>1. clock \in 1..clock /\ Book(p).at <= clock
      BY AlertFacts DEF AlertInv, AlertTypes, Bookkeeping
    <2> QED BY <1>5, <2>1 DEF Stands
  <1>8. monitor' = [monitor EXCEPT ![p] = m]
    BY <1>1, <1>4 DEF AlertInv, AlertTypes
  <1>9. Watches(x, m)
    <2>1. m.disposed = FALSE
      BY <1>1, <1>4 DEF Poller
    <2> QED BY <1>5, <2>1 DEF Watches
  <1>10. ~Alone => \A q \in Procs : checks[q].phase # "seen"
    BY <1>1 DEF AlertConstants
  <1> QED BY <1>1, <1>5, <1>6, <1>7, <1>8, <1>9, <1>10, AlertQuietStep

\* The announcements that stand after a claim are about what it saw.
LEMMA ToldIs ==
  ASSUME AlertConstants, told \in [Windows -> [Thresholds -> {0, 1, 3}]],
         NEW before \in Headroom, NEW seen \in Headroom,
         Exact(before), told' = Alerts!Told(before, seen)
  PROVE  told' \in [Windows -> [Thresholds -> {0, 1, 3}]] /\ Exact(seen)'
  <1>1. \A w \in Windows : seen[w] \in Nat /\ before[w] \in Nat
    BY DEF Headroom, AlertConstants
  <1>2. \A t \in Thresholds : t \in Nat
    BY DEF AlertConstants
  <1>3. ASSUME NEW w \in Windows, NEW t \in Thresholds
        PROVE  told'[w][t] \in IF seen[w] <= t THEN {1, 3} ELSE {0}
    <2>1. told'[w][t] = IF seen[w] > t THEN 0
                        ELSE IF before[w] > t /\ told[w][t] < 2 THEN told[w][t] + 1 ELSE told[w][t]
      BY DEF Alerts!Told
    <2>2. told[w][t] \in IF before[w] <= t THEN {1, 3} ELSE {0}
      BY DEF Exact
    <2>3. seen[w] \in Nat /\ before[w] \in Nat /\ t \in Nat
      BY <1>1, <1>2
    <2> QED BY <2>1, <2>2, <2>3
  <1>4. told' = [w \in Windows |-> [t \in Thresholds |-> told'[w][t]]]
    BY DEF Alerts!Told
  <1>5. \A w \in Windows, t \in Thresholds : told'[w][t] \in {0, 1, 3}
    BY <1>3
  <1>6. told' \in [Windows -> [Thresholds -> {0, 1, 3}]]
    BY <1>4, <1>5
  <1> QED BY <1>3, <1>6 DEF Exact

\* A claim that is made after everything the book says.
LEMMA WrittenIs ==
  ASSUME AlertConstants, AlertInv, NEW p \in Procs, NEW n \in AlertState, NEW x \in AlertCheck, NEW m \in Poller,
         checks[p].phase = "seen", n.pct = checks[p].seen, n.at = checks[p].now,
         n.delivered \in {Book(p).delivered, checks[p].now},
         state' = n, memory' = [memory EXCEPT ![p] = n],
         told' = Alerts!Told(Book(p).pct, checks[p].seen),
         checks' = [checks EXCEPT ![p] = x], monitor' = [monitor EXCEPT ![p] = m],
         x.phase \in {"idle", "claimed"}, Watches(x, m),
         x.phase = "claimed" =>
           /\ x.now = checks[p].now /\ x.seen = checks[p].seen /\ n.delivered = x.now
           /\ x.crossed = {w \in Windows : Alerts!Crossed(x.baseline.pct[w], x.seen[w]) # {}}
           /\ x.crossed = {} => x.after = 0 \/ x.after + Interval <= x.now
           /\ last <= x.previous /\ x.previous <= x.now,
         UNCHANGED left, UNCHANGED clock, UNCHANGED last, UNCHANGED early
  PROVE  AlertInv'
  <1>1. PICK c \in AlertCheck : c = checks[p] /\ Stands(p, c) /\ c.phase = "seen"
    BY AlertFacts DEF AlertInv
  <1>2. PICK b \in AlertState : b = Book(p) /\ b.pct \in Headroom /\ b.at \in Nat /\ b.delivered \in Nat
    BY AlertFacts DEF AlertInv
  <1>3. /\ c.now \in 1..clock /\ b.at <= c.now /\ b.delivered <= b.at /\ last <= b.delivered
        /\ c.now \in Nat /\ clock \in Nat /\ last \in Nat
    <2>1. c.now \in 1..clock /\ b.at <= c.now
      BY <1>1, <1>2 DEF Stands
    <2>2. b.delivered <= b.at /\ last <= b.delivered
      BY <1>2 DEF AlertInv, Bookkeeping
    <2>3. clock \in Nat /\ last \in Nat
      BY AlertFacts DEF AlertInv, AlertTypes
    <2> QED BY <2>1, <2>2, <2>3
  <1>4. /\ n.at = c.now /\ n.at # 0 /\ n.at <= clock /\ n.delivered \in Nat /\ n.at \in Nat
        /\ n.delivered <= n.at /\ b.delivered <= n.delivered /\ last <= n.delivered /\ b.at <= n.at
    <2>1. n.at = c.now /\ n.delivered \in {b.delivered, c.now}
      BY <1>1, <1>2
    <2> QED BY <1>2, <1>3, <2>1
  <1>5. told' \in [Windows -> [Thresholds -> {0, 1, 3}]] /\ Exact(n.pct)'
    <2>1. Exact(b.pct)
      BY <1>1, <1>2 DEF AlertInv, Announced
    <2>2. told' = Alerts!Told(b.pct, c.seen) /\ c.seen \in Headroom /\ n.pct = c.seen
      BY <1>1, <1>2 DEF AlertCheck
    <2>3. told' \in [Windows -> [Thresholds -> {0, 1, 3}]] /\ Exact(c.seen)'
      BY <1>2, <2>1, <2>2, ToldIs DEF AlertInv, AlertTypes
    <2> QED BY <2>2, <2>3 DEF Exact
  <1>6. memory' \in [Procs -> AlertState] /\ memory'[p] = n /\ \A q \in Procs : q # p => memory'[q] = memory[q]
    BY DEF AlertInv, AlertTypes
  <1>7. AlertTypes'
    BY <1>5, <1>6, CheckIs, PollerIs DEF AlertInv, AlertTypes
  <1>8. OneLooks'
    BY CheckIs DEF AlertInv, OneLooks
  <1>9. \A q \in Procs : Book(q)' = n /\ (Alone => q = p)
    BY <1>6 DEF Alone, Book
  <1>10. ASSUME NEW q \in Procs  PROVE Bookkeeping(q)'
    <2>1. CASE Alone
      <3>1. memory'[q] = n /\ memory'[q].at # 0 /\ state' = n
        BY <1>4, <1>6, <1>9, <2>1
      <3> QED BY <1>4, <1>9, <2>1, <3>1 DEF Bookkeeping
    <2>2. CASE ~Alone
      <3>1. state = b
        BY <1>2, <2>2 DEF Book
      <3>2. PICK r \in AlertState : r = memory[q] /\ r.at \in Nat /\ r.delivered \in Nat
        BY AlertFacts DEF AlertInv
      <3>3. r.at <= b.at /\ r.delivered <= b.delivered
        BY <2>2, <3>1, <3>2 DEF AlertInv, Bookkeeping
      <3>4. r.at <= n.at /\ r.delivered <= n.delivered
        BY <1>2, <1>4, <3>2, <3>3
      <3>5. memory'[q].at <= state'.at /\ memory'[q].delivered <= state'.delivered
        BY <1>4, <1>6, <3>2, <3>4
      <3> QED BY <1>4, <1>9, <2>2, <3>5 DEF Bookkeeping
    <2> QED BY <2>1, <2>2
  <1>11. ASSUME NEW q \in Procs
         PROVE  Stands(q, checks[q])' /\ Exact(Announced(q, checks[q]))' /\ Watches(checks[q], monitor[q])'
    <2>1. CASE q = p
      <3>1. checks'[q] = x /\ monitor'[q] = m
        BY <2>1, CheckIs, PollerIs DEF AlertInv
      <3>2. Stands(q, x)'
        <4>1. CASE x.phase = "idle" BY <4>1 DEF Stands
        <4>2. CASE x.phase = "claimed"
          <5>1. x.now = c.now /\ x.seen = c.seen /\ x.now \in 1..clock' /\ x.now <= n.delivered
            BY <1>1, <1>3, <4>2
          <5>2. Alone => state' = memory'[q] /\ memory'[q].at = x.now /\ memory'[q].pct = x.seen
            BY <1>1, <1>4, <1>6, <2>1, <5>1
          <5> QED BY <1>9, <4>2, <5>1, <5>2 DEF Stands
        <4> QED BY <4>1, <4>2
      <3>3. Exact(Announced(q, x))'
        BY <1>5, <1>9 DEF Announced, Exact
      <3>4. Watches(x, m)'
        BY DEF Watches
      <3> QED BY <3>1, <3>2, <3>3, <3>4
    <2>2. CASE q # p
      <3>1. ~Alone
        BY <1>9, <2>2
      <3>2. PICK y \in AlertCheck, o \in Poller :
              y = checks[q] /\ y = checks'[q] /\ o = monitor[q] /\ o = monitor'[q] /\ Stands(q, y) /\ Watches(y, o)
        BY <2>2, CheckIs, PollerIs, AlertFacts DEF AlertInv
      <3>3. y.phase # "seen"
        BY <2>2, <3>1, <3>2 DEF AlertInv, OneLooks
      <3>4. y.phase \in {"claimed", "releasing"} => y.now <= n.delivered
        <4>1. state = b /\ Book(q) = b /\ y.now \in Nat
          BY <1>2, <3>1, AlertFacts DEF Book, AlertCheck, AlertInv
        <4>2. y.phase \in {"claimed", "releasing"} => y.now <= b.delivered
          BY <3>2, <4>1 DEF Stands
        <4> QED BY <1>2, <1>4, <4>1, <4>2
      <3>5. Stands(q, y)'
        BY <1>9, <3>1, <3>2, <3>3, <3>4 DEF Stands
      <3>6. Exact(Announced(q, y))'
        <4>1. y.phase # "releasing"
          BY <3>1, <3>2 DEF Stands
        <4> QED BY <1>5, <1>9, <4>1 DEF Announced, Exact
      <3>7. Watches(y, o)'
        BY <3>2 DEF Watches
      <3> QED BY <3>2, <3>5, <3>6, <3>7
    <2> QED BY <2>1, <2>2
  <1> QED BY <1>7, <1>8, <1>10, <1>11 DEF AlertInv

LEMMA AlertClaimIs ==
  ASSUME AlertConstants, AlertInv, NEW p \in Procs, Alerts!Claim(p)
  PROVE  AlertInv'
  <1>1. PICK c \in AlertCheck : c = checks[p] /\ Stands(p, c) /\ c.phase = "seen"
    BY AlertFacts DEF AlertInv, Alerts!Claim
  <1>2. PICK b \in AlertState : b = Book(p) /\ b.delivered \in Nat /\ b.at \in Nat
    BY AlertFacts DEF AlertInv
  <1>3. Alerts!Baseline(p) = b /\ Alerts!Latest(state.delivered, memory[p].delivered) = b.delivered
    BY <1>2, BookIs
  <1>4. PICK crossed \in SUBSET Windows : crossed = {w \in Windows : Alerts!Crossed(b.pct[w], c.seen[w]) # {}}
    OBVIOUS
  <1>5. /\ c.now \in Nat /\ c.now \in 0..MaxClock /\ b.at <= c.now /\ b.delivered <= b.at
        /\ last <= b.delivered /\ last \in Nat /\ last \in 0..MaxClock /\ b.delivered \in 0..MaxClock
        /\ Interval \in Nat
    <2>1. b.at <= c.now
      BY <1>1, <1>2 DEF Stands
    <2>2. b.delivered <= b.at /\ last <= b.delivered
      BY <1>2 DEF AlertInv, Bookkeeping
    <2> QED BY <2>1, <2>2, AlertFacts DEF AlertInv, AlertTypes, AlertCheck, AlertState
  <1>6. PICK due \in BOOLEAN :
          /\ due = (Every /\ (b.delivered = 0 \/ b.delivered > c.now \/ c.now - b.delivered >= Interval))
          /\ due = TRUE => last = 0 \/ last + Interval <= c.now
    <2> DEFINE due == Every /\ (b.delivered = 0 \/ b.delivered > c.now \/ c.now - b.delivered >= Interval)
    <2>1. due \in BOOLEAN
      OBVIOUS
    <2>2. due = TRUE => last = 0 \/ last + Interval <= c.now
      <3>1. ~(b.delivered > c.now)
        BY <1>2, <1>5
      <3>2. b.delivered = 0 => last = 0
        BY <1>5
      <3>3. c.now - b.delivered >= Interval => last + Interval <= c.now
        BY <1>2, <1>5
      <3> QED BY <3>1, <3>2, <3>3
    <2> QED BY <2>1, <2>2
  <1>7. PICK announces \in BOOLEAN : announces = (crossed # {} \/ due)
    OBVIOUS
  <1> DEFINE n == [pct |-> c.seen, at |-> c.now, delivered |-> IF announces THEN c.now ELSE b.delivered]
  <1>8. /\ n \in AlertState /\ n.pct = c.seen /\ n.at = c.now
        /\ n.delivered = IF announces = TRUE THEN c.now ELSE b.delivered
    BY <1>5 DEF AlertState, AlertCheck
  <1>9. /\ state' = n /\ memory' = [memory EXCEPT ![p] = n] /\ told' = Alerts!Told(b.pct, c.seen)
        /\ UNCHANGED left /\ UNCHANGED clock /\ UNCHANGED last /\ UNCHANGED early
        /\ announces = TRUE =>
              /\ checks' = [checks EXCEPT ![p].phase = "claimed", ![p].baseline = b, ![p].crossed = crossed,
                                          ![p].previous = b.delivered, ![p].after = last]
              /\ UNCHANGED monitor
        /\ announces = FALSE => Alerts!Ends(p)
    BY <1>1, <1>3, <1>4, <1>6, <1>7 DEF Alerts!Claim, Alerts!Claimed
  <1> HIDE DEF n
  <1>10. CASE announces = TRUE
    <2> DEFINE x == [c EXCEPT !.phase = "claimed", !.baseline = b, !.crossed = crossed,
                              !.previous = b.delivered, !.after = last]
    <2>1. /\ x \in AlertCheck /\ x.phase = "claimed" /\ x.now = c.now /\ x.seen = c.seen /\ x.baseline = b
          /\ x.crossed = crossed /\ x.previous = b.delivered /\ x.after = last
      BY <1>5 DEF AlertCheck
    <2>2. checks' = [checks EXCEPT ![p] = x]
      BY <1>1, <1>9, <1>10 DEF AlertInv, AlertTypes
    <2> HIDE DEF x
    <2>3. PICK m \in Poller : m = monitor[p] /\ Watches(c, m)
      BY <1>1, AlertFacts DEF AlertInv
    <2>4. monitor' = [monitor EXCEPT ![p] = m]
      BY <1>9, <1>10, <2>3 DEF AlertInv, AlertTypes
    <2>5. Watches(x, m)
      BY <1>1, <2>1, <2>3 DEF Watches
    <2>6. x.crossed = {} => x.after = 0 \/ x.after + Interval <= x.now
      BY <1>6, <1>7, <1>10, <2>1
    <2>7. last <= x.previous /\ x.previous <= x.now
      BY <1>2, <1>5, <2>1
    <2>8. x.crossed = {w \in Windows : Alerts!Crossed(x.baseline.pct[w], x.seen[w]) # {}}
      BY <1>4, <2>1
    <2>9. n.delivered \in {Book(p).delivered, checks[p].now} /\ n.delivered = x.now
      BY <1>1, <1>8, <1>10, <2>1
    <2>10. n.pct = checks[p].seen /\ n.at = checks[p].now /\ checks[p].phase = "seen" /\ x.now = checks[p].now
           /\ x.seen = checks[p].seen /\ told' = Alerts!Told(Book(p).pct, checks[p].seen)
      BY <1>1, <1>2, <1>8, <1>9, <2>1
    <2> QED BY <1>8, <1>9, <2>1, <2>2, <2>4, <2>5, <2>6, <2>7, <2>8, <2>9, <2>10, WrittenIs
  <1>11. CASE announces = FALSE
    <2>1. PICK m \in Poller :
             /\ monitor' = [monitor EXCEPT ![p] = m] /\ Watches(Alerts!Quiet, m)
             /\ checks' = [checks EXCEPT ![p] = Alerts!Quiet]
      BY <1>9, <1>11, AlertEndsIs
    <2>2. PICK x \in AlertCheck : x = Alerts!Quiet /\ x.phase = "idle"
      BY QuietIs DEF AlertInv
    <2>3. n.delivered \in {Book(p).delivered, checks[p].now}
      BY <1>2, <1>8, <1>11
    <2>4. n.pct = checks[p].seen /\ n.at = checks[p].now /\ checks[p].phase = "seen"
          /\ told' = Alerts!Told(Book(p).pct, checks[p].seen)
      BY <1>1, <1>2, <1>8, <1>9
    <2>5. checks' = [checks EXCEPT ![p] = x] /\ Watches(x, m)
      BY <2>1, <2>2
    <2> QED BY <1>8, <1>9, <2>1, <2>2, <2>3, <2>4, <2>5, WrittenIs
  <1> QED BY <1>10, <1>11

LEMMA DeliverIs ==
  ASSUME AlertConstants, AlertInv, NEW p \in Procs, Alerts!Deliver(p)
  PROVE  AlertInv'
  <1>1. PICK c \in AlertCheck : c = checks[p] /\ Stands(p, c) /\ c.phase = "claimed"
    BY AlertFacts DEF AlertInv, Alerts!Deliver
  <1>2. /\ UNCHANGED left /\ UNCHANGED clock /\ UNCHANGED state /\ UNCHANGED memory /\ UNCHANGED told
        /\ last' = Alerts!Latest(last, c.now) /\ Alerts!Ends(p)
        /\ early' = (early \/ (c.crossed = {} /\ c.after # 0 /\ c.after + Interval > c.now))
    BY <1>1 DEF Alerts!Deliver
  <1>3. PICK m \in Poller :
           /\ monitor' = [monitor EXCEPT ![p] = m] /\ Watches(Alerts!Quiet, m)
           /\ checks' = [checks EXCEPT ![p] = Alerts!Quiet]
    BY <1>2, AlertEndsIs
  <1>4. PICK x \in AlertCheck : x = Alerts!Quiet /\ x.phase = "idle"
    BY QuietIs DEF AlertInv
  <1>5. c.now \in 0..MaxClock /\ c.now \in Nat /\ last \in 0..MaxClock /\ last \in Nat
        /\ c.after \in Nat /\ Interval \in Nat
    BY AlertFacts DEF AlertInv, AlertTypes, AlertCheck
  <1>6. early' = FALSE
    <2>1. c.crossed = {} => c.after = 0 \/ c.after + Interval <= c.now
      BY <1>1 DEF Stands
    <2>2. ~(c.crossed = {} /\ c.after # 0 /\ c.after + Interval > c.now)
      BY <1>5, <2>1
    <2>3. early = FALSE
      BY DEF AlertInv, AlertTypes
    <2> QED BY <1>2, <2>2, <2>3
  <1>7. last' \in {last, c.now}
    BY <1>2 DEF Alerts!Latest
  <1>8. AlertTypes'
    BY <1>2, <1>3, <1>4, <1>5, <1>6, <1>7, CheckIs, PollerIs DEF AlertInv, AlertTypes
  <1>9. OneLooks'
    BY <1>3, <1>4, CheckIs DEF AlertInv, OneLooks
  <1>10. \A q \in Procs : (Alone => q = p) /\ (q # p => ~Alone) /\ (~Alone => Book(q) = Book(p))
    BY DEF Alone, Book
  <1>11. ASSUME NEW q \in Procs  PROVE Bookkeeping(q)'
    <2>1. Book(q).delivered = Book(p).delivered
      BY <1>10
    <2>2. last <= Book(q).delivered /\ c.now <= Book(q).delivered
      BY <1>1, <2>1 DEF AlertInv, Bookkeeping, Stands
    <2>3. last' <= Book(q)'.delivered
      BY <1>2, <1>7, <2>2 DEF Book
    <2> QED BY <1>2, <2>3 DEF AlertInv, Bookkeeping, Book
  <1>12. ASSUME NEW q \in Procs
         PROVE  Stands(q, checks[q])' /\ Exact(Announced(q, checks[q]))' /\ Watches(checks[q], monitor[q])'
    <2>1. CASE q = p
      <3>1. checks'[q] = x /\ monitor'[q] = m /\ Watches(x, m)
        BY <1>3, <1>4, <2>1, CheckIs, PollerIs DEF AlertInv
      <3>2. Stands(q, x)'
        BY <1>4 DEF Stands
      <3>3. Exact(Book(q).pct)
        BY <1>1, <2>1 DEF AlertInv, Announced
      <3>4. Exact(Announced(q, x))'
        BY <1>2, <1>4, <3>3 DEF Announced, Exact, Book
      <3> QED BY <3>1, <3>2, <3>4 DEF Watches
    <2>2. CASE q # p
      <3>1. ~Alone
        BY <1>10, <2>2
      <3>2. PICK y \in AlertCheck, o \in Poller :
              /\ y = checks[q] /\ y = checks'[q] /\ o = monitor[q] /\ o = monitor'[q]
              /\ Stands(q, y) /\ Watches(y, o) /\ Exact(Announced(q, y))
        BY <1>3, <1>4, <2>2, CheckIs, PollerIs, AlertFacts DEF AlertInv
      <3>3. Stands(q, y)'
        BY <1>2, <3>1, <3>2 DEF Stands, Book
      <3>4. Exact(Announced(q, y))'
        BY <1>2, <3>2 DEF Announced, Exact, Book, Reverted
      <3>5. Watches(y, o)'
        BY <3>2 DEF Watches
      <3> QED BY <3>2, <3>3, <3>4, <3>5
    <2> QED BY <2>1, <2>2
  <1> QED BY <1>8, <1>9, <1>11, <1>12 DEF AlertInv

\* Only a process alone has claims that fail.
LEMMA UndeliveredIs ==
  ASSUME AlertConstants, AlertInv, NEW p \in Procs, Alerts!Undelivered(p)
  PROVE  AlertInv'
  <1>1. PICK c \in AlertCheck : c = checks[p] /\ Stands(p, c) /\ c.phase = "claimed"
    BY AlertFacts DEF AlertInv, Alerts!Undelivered
  <1>2. /\ UNCHANGED left /\ UNCHANGED clock /\ UNCHANGED state /\ UNCHANGED memory
        /\ UNCHANGED monitor /\ UNCHANGED last /\ UNCHANGED early /\ Alerts!Goes(p, "releasing")
        /\ told' = [w \in Windows |-> [t \in Thresholds |->
                     IF t \in Alerts!Crossed(c.baseline.pct[w], c.seen[w])
                       THEN IF told[w][t] = 2 THEN 1 ELSE 0 ELSE told[w][t]]]
    BY <1>1 DEF Alerts!Undelivered
  <1>3. Alone
    <2>1. PICK m \in Poller : m = monitor[p] /\ Watches(c, m)
      BY <1>1, AlertFacts DEF AlertInv
    <2>2. ~Alone => m.disposed = FALSE /\ Faults = {}
      BY <1>1, <2>1 DEF Watches, AlertConstants
    <2> QED BY <2>1, <2>2 DEF Alerts!Undelivered
  <1>4. \A q \in Procs : q = p
    BY <1>3 DEF Alone
  <1> DEFINE x == [c EXCEPT !.phase = "releasing"]
  <1>5. /\ x \in AlertCheck /\ x.phase = "releasing" /\ x.seen = c.seen /\ x.now = c.now
        /\ x.baseline = c.baseline /\ x.crossed = c.crossed /\ x.previous = c.previous /\ x.after = c.after
    BY DEF AlertCheck
  <1>6. checks' = [checks EXCEPT ![p] = x]
    BY <1>1, <1>2 DEF AlertInv, AlertTypes, Alerts!Goes
  <1> HIDE DEF x
  <1>7. checks' \in [Procs -> AlertCheck] /\ checks'[p] = x
    BY <1>5, <1>6, CheckIs DEF AlertInv
  <1>8. ASSUME NEW w \in Windows, NEW t \in Thresholds
        PROVE  told'[w][t] \in IF Reverted(x)[w] <= t THEN {1, 3} ELSE {0}
    <2>1. PICK before \in Nat, seen \in Nat : before = c.baseline.pct[w] /\ seen = c.seen[w]
      BY DEF AlertCheck, AlertState, Headroom, AlertConstants
    <2>2. t \in Nat
      BY AlertFacts DEF AlertInv
    <2>3. told[w][t] \in IF seen <= t THEN {1, 3} ELSE {0}
      <3>1. Book(p).pct = c.seen
        BY <1>1, <1>3 DEF Stands, Book
      <3> QED BY <1>1, <2>1, <3>1 DEF AlertInv, Announced, Exact
    <2>4. told'[w][t] = IF seen <= t /\ before > t
                        THEN IF told[w][t] = 2 THEN 1 ELSE 0 ELSE told[w][t]
      BY <1>2, <2>1 DEF Alerts!Crossed
    <2>5. told'[w][t] \in IF seen <= t /\ before <= t THEN {1, 3} ELSE {0}
      BY <2>1, <2>2, <2>3, <2>4
    <2>6. c.crossed = {v \in Windows : Alerts!Crossed(c.baseline.pct[v], c.seen[v]) # {}}
      BY <1>1 DEF Stands
    <2>7. CASE w \in c.crossed
      <3>1. PICK k \in Thresholds : seen <= k /\ before > k
        BY <2>1, <2>6, <2>7 DEF Alerts!Crossed
      <3>2. k \in Nat
        BY AlertFacts DEF AlertInv
      <3>3. before <= t => seen <= t
        BY <2>1, <2>2, <3>1, <3>2
      <3>4. Reverted(x)[w] = before
        BY <1>5, <2>1, <2>7 DEF Reverted
      <3> QED BY <2>5, <3>3, <3>4
    <2>8. CASE w \notin c.crossed
      <3>1. ~(seen <= t /\ before > t)
        BY <2>1, <2>6, <2>8 DEF Alerts!Crossed
      <3>2. Reverted(x)[w] = seen
        BY <1>5, <2>1, <2>8 DEF Reverted
      <3>3. seen <= t => before <= t
        BY <2>1, <2>2, <3>1
      <3> QED BY <2>5, <3>2, <3>3
    <2> QED BY <2>7, <2>8
  <1>9. told' \in [Windows -> [Thresholds -> {0, 1, 3}]]
    <2>1. \A w \in Windows, t \in Thresholds : told'[w][t] \in {0, 1, 3}
      BY <1>8
    <2>2. told' = [w \in Windows |-> [t \in Thresholds |-> told'[w][t]]]
      BY <1>2
    <2> QED BY <2>1, <2>2
  <1>10. AlertTypes'
    BY <1>2, <1>7, <1>9 DEF AlertInv, AlertTypes
  <1>11. Bookkeeping(p)'
    BY <1>2 DEF AlertInv, Bookkeeping, Book
  <1>12. Stands(p, x)'
    BY <1>1, <1>2, <1>3, <1>5 DEF Stands, Book
  <1>13. Exact(Announced(p, x))'
    BY <1>5, <1>8 DEF Exact, Announced, Reverted
  <1>14. PICK m \in Poller : m = monitor[p] /\ m = monitor'[p] /\ Watches(c, m)
    BY <1>1, <1>2, AlertFacts DEF AlertInv
  <1>15. Watches(x, m)
    BY <1>3, <1>5 DEF Watches
  <1>16. /\ Bookkeeping(p)' /\ Stands(p, checks[p])' /\ Watches(checks[p], monitor[p])'
         /\ Exact(Announced(p, checks[p]))'
    BY <1>7, <1>11, <1>12, <1>13, <1>14, <1>15
  <1>17. OneLooks'
    BY <1>3 DEF OneLooks, Alone
  <1>18. \A q \in Procs : /\ Bookkeeping(q)' /\ Stands(q, checks[q])' /\ Watches(checks[q], monitor[q])'
                          /\ Exact(Announced(q, checks[q]))'
    BY <1>4, <1>16
  <1> QED BY <1>10, <1>17, <1>18 DEF AlertInv

\* What is neither delivered nor given back stands.
LEMMA ReleaseFailsIs ==
  ASSUME AlertConstants, AlertInv, NEW p \in Procs, Alerts!ReleaseFails(p)
  PROVE  AlertInv'
  <1>1. PICK c \in AlertCheck : c = checks[p] /\ Stands(p, c) /\ c.phase = "releasing"
    BY AlertFacts DEF AlertInv, Alerts!ReleaseFails
  <1>2. /\ UNCHANGED left /\ UNCHANGED clock /\ UNCHANGED state /\ UNCHANGED memory
        /\ UNCHANGED last /\ UNCHANGED early /\ Alerts!Ends(p)
        /\ told' = [w \in Windows |-> [t \in Thresholds |->
                     IF t \in Alerts!Crossed(c.baseline.pct[w], c.seen[w]) /\ told[w][t] = 0
                       THEN 3 ELSE told[w][t]]]
    BY <1>1 DEF Alerts!ReleaseFails, Alerts!Lost
  <1>3. Alone /\ memory[p].pct = c.seen
    BY <1>1 DEF Stands
  <1>4. PICK x \in AlertCheck, m \in Poller :
           /\ monitor' = [monitor EXCEPT ![p] = m] /\ Watches(x, m)
           /\ checks' = [checks EXCEPT ![p] = x] /\ x.phase = "idle"
    BY <1>2, AlertEndsIs, QuietIs DEF AlertInv
  <1>5. ASSUME NEW w \in Windows, NEW t \in Thresholds
        PROVE  told'[w][t] \in IF c.seen[w] <= t THEN {1, 3} ELSE {0}
    <2>1. PICK before \in Nat, seen \in Nat : before = c.baseline.pct[w] /\ seen = c.seen[w]
      BY DEF AlertCheck, AlertState, Headroom, AlertConstants
    <2>2. \A k \in Thresholds : k \in Nat
      BY AlertFacts DEF AlertInv
    <2>3. told[w][t] \in IF Reverted(c)[w] <= t THEN {1, 3} ELSE {0}
      BY <1>1 DEF AlertInv, Announced, Exact
    <2>4. told'[w][t] = IF seen <= t /\ before > t /\ told[w][t] = 0 THEN 3 ELSE told[w][t]
      BY <1>2, <2>1 DEF Alerts!Crossed
    <2>5. w \in c.crossed <=> \E k \in Thresholds : seen <= k /\ before > k
      BY <1>1, <2>1 DEF Stands, Alerts!Crossed
    <2>6. Reverted(c)[w] = IF w \in c.crossed THEN before ELSE seen
      BY <2>1 DEF Reverted
    <2>7. CASE w \in c.crossed
      <3>1. before <= t => seen <= t
        BY <2>1, <2>2, <2>5, <2>7
      <3> QED BY <2>1, <2>2, <2>3, <2>4, <2>6, <2>7, <3>1
    <2>8. CASE w \notin c.crossed BY <2>1, <2>2, <2>3, <2>4, <2>5, <2>6, <2>8
    <2> QED BY <2>7, <2>8
  <1>6. told' \in [Windows -> [Thresholds -> {0, 1, 3}]]
    <2>1. \A w \in Windows, t \in Thresholds : told'[w][t] \in {0, 1, 3}
      BY <1>5
    <2>2. told' = [w \in Windows |-> [t \in Thresholds |-> told'[w][t]]]
      BY <1>2
    <2> QED BY <2>1, <2>2
  <1>7. AlertTypes'
    BY <1>2, <1>4, <1>6, CheckIs, PollerIs DEF AlertInv, AlertTypes
  <1>8. checks'[p] = x /\ monitor'[p] = m
    BY <1>4, CheckIs, PollerIs DEF AlertInv
  <1>9. Bookkeeping(p)'
    BY <1>2 DEF AlertInv, Bookkeeping, Book
  <1>10. Stands(p, x)' /\ Watches(x, m)'
    BY <1>3, <1>4 DEF Stands, Watches, Alone
  <1>11. Exact(Announced(p, x))'
    BY <1>2, <1>3, <1>4, <1>5 DEF Announced, Exact, Book, Alone
  <1>12. \A q \in Procs : q = p
    BY <1>3 DEF Alone
  <1>13. OneLooks'
    BY <1>3 DEF OneLooks, Alone
  <1>14. /\ Bookkeeping(p)' /\ Stands(p, checks[p])' /\ Watches(checks[p], monitor[p])'
         /\ Exact(Announced(p, checks[p]))'
    BY <1>8, <1>9, <1>10, <1>11
  <1> QED BY <1>7, <1>12, <1>13, <1>14 DEF AlertInv

LEMMA ReleaseIs ==
  ASSUME AlertConstants, AlertInv, NEW p \in Procs, Alerts!Release(p)
  PROVE  AlertInv'
  <1>1. PICK c \in AlertCheck : c = checks[p] /\ Stands(p, c) /\ c.phase = "releasing"
    BY AlertFacts DEF AlertInv, Alerts!Release
  <1>2. Alone /\ state.at = c.now /\ last <= c.previous /\ c.previous <= c.now /\ c.now \in 1..clock
    BY <1>1 DEF Stands
  <1>3. \A q \in Procs : q = p
    BY <1>2 DEF Alone
  <1>4. /\ c.now \in Nat /\ c.previous \in Nat /\ c.previous \in 0..MaxClock /\ last \in Nat
        /\ clock \in Nat /\ clock \in 0..MaxClock
    BY AlertFacts DEF AlertInv, AlertTypes, AlertCheck
  <1>5. Reverted(c) \in Headroom
    BY DEF Reverted, Headroom, AlertCheck, AlertState
  <1>6. PICK n \in AlertState : /\ n = [pct |-> Reverted(c), delivered |-> c.previous, at |-> clock]
                              /\ n.pct = Reverted(c) /\ n.delivered = c.previous /\ n.at = clock
    <2>1. [pct |-> Reverted(c), delivered |-> c.previous, at |-> clock] \in AlertState
      BY <1>4, <1>5 DEF AlertState
    <2> QED BY <2>1
  <1>7. /\ state' = n /\ memory' = [memory EXCEPT ![p] = n] /\ Alerts!Ends(p)
        /\ UNCHANGED left /\ UNCHANGED clock /\ UNCHANGED told /\ UNCHANGED last /\ UNCHANGED early
    BY <1>1, <1>2, <1>6 DEF Alerts!Release, Reverted
  <1>8. PICK m \in Poller :
           /\ monitor' = [monitor EXCEPT ![p] = m] /\ Watches(Alerts!Quiet, m)
           /\ checks' = [checks EXCEPT ![p] = Alerts!Quiet]
    BY <1>7, AlertEndsIs
  <1>9. PICK x \in AlertCheck : x = Alerts!Quiet /\ x.phase = "idle"
    BY QuietIs DEF AlertInv
  <1>10. memory' \in [Procs -> AlertState] /\ memory'[p] = n
    BY <1>6, <1>7 DEF AlertInv, AlertTypes
  <1>11. AlertTypes'
    BY <1>6, <1>7, <1>8, <1>9, <1>10, CheckIs, PollerIs DEF AlertInv, AlertTypes
  <1>12. Book(p)' = n
    BY <1>2, <1>10 DEF Book, Alone
  <1>13. Bookkeeping(p)'
    <2>1. n.delivered <= n.at /\ n.at <= clock /\ last <= n.delivered /\ n.at # 0
      BY <1>2, <1>4, <1>6
    <2> QED BY <1>2, <1>7, <1>10, <1>12, <2>1 DEF Bookkeeping, Alone
  <1>14. Exact(Reverted(c))
    BY <1>1 DEF AlertInv, Announced
  <1>15. checks'[p] = x /\ monitor'[p] = m /\ Watches(x, m)
    BY <1>8, <1>9, CheckIs, PollerIs DEF AlertInv
  <1>16. Stands(p, x)' /\ Exact(Announced(p, x))' /\ Watches(x, m)'
    <2>1. Stands(p, x)'
      BY <1>9 DEF Stands
    <2>2. Exact(n.pct)'
      BY <1>6, <1>7, <1>14 DEF Exact
    <2>3. Exact(Announced(p, x))'
      BY <1>9, <1>12, <2>2 DEF Announced, Exact
    <2> QED BY <1>15, <2>1, <2>3 DEF Watches
  <1>17. /\ Bookkeeping(p)' /\ Stands(p, checks[p])' /\ Watches(checks[p], monitor[p])'
         /\ Exact(Announced(p, checks[p]))'
    BY <1>13, <1>15, <1>16
  <1>18. OneLooks'
    BY <1>2 DEF OneLooks, Alone
  <1>19. \A q \in Procs : /\ Bookkeeping(q)' /\ Stands(q, checks[q])' /\ Watches(checks[q], monitor[q])'
                          /\ Exact(Announced(q, checks[q]))'
    BY <1>3, <1>17
  <1> QED BY <1>11, <1>18, <1>19 DEF AlertInv

\* What the processes have is as it was.
LEMMA WorldStep ==
  ASSUME AlertConstants, AlertInv, UNCHANGED state, UNCHANGED memory, UNCHANGED checks, UNCHANGED told,
         UNCHANGED last, UNCHANGED early, UNCHANGED monitor,
         clock' \in 1..MaxClock, clock <= clock', left' \in [Accounts -> [Windows -> 0..Top]]
  PROVE  AlertInv'
  <1>1. AlertTypes'
    BY DEF AlertInv, AlertTypes
  <1>2. OneLooks'
    BY DEF AlertInv, OneLooks
  <1>3. ASSUME NEW q \in Procs
        PROVE  /\ Bookkeeping(q)' /\ Stands(q, checks[q])' /\ Watches(checks[q], monitor[q])'
               /\ Exact(Announced(q, checks[q]))'
    <2>1. clock \in Nat /\ clock' \in Nat /\ Book(q) \in AlertState /\ Book(q).at \in Nat
      BY AlertFacts DEF AlertInv
    <2>2. PICK y \in AlertCheck :
            y = checks[q] /\ y = checks'[q] /\ Stands(q, y) /\ Exact(Announced(q, y)) /\ Watches(y, monitor[q])
      BY AlertFacts DEF AlertInv
    <2>3. Bookkeeping(q)'
      <3>1. Book(q).at <= clock'
        BY <2>1 DEF AlertInv, Bookkeeping
      <3> QED BY <3>1 DEF AlertInv, Bookkeeping, Book
    <2>4. Stands(q, y)'
      <3>1. y.now \in 1..clock => y.now \in 1..clock'
        BY <2>1
      <3> QED BY <2>2, <3>1 DEF Stands, Book
    <2>5. Exact(Announced(q, y))'
      BY <2>2 DEF Announced, Exact, Book, Reverted
    <2>6. Watches(checks[q], monitor[q])'
      BY <2>2 DEF Watches
    <2> QED BY <2>2, <2>3, <2>4, <2>5, <2>6
  <1> QED BY <1>1, <1>2, <1>3 DEF AlertInv

LEMMA WorldIs ==
  ASSUME AlertConstants, AlertInv,
         \/ \E a \in Accounts, w \in Windows : Alerts!Use(a, w) \/ Alerts!Reset(a, w)
         \/ Alerts!Tick \/ UNCHANGED Alerts!vars
  PROVE  AlertInv'
  <1>1. clock \in 1..MaxClock /\ clock <= clock /\ left \in [Accounts -> [Windows -> 0..Top]]
        /\ clock \in Nat /\ MaxClock \in Nat
    <2>1. clock \in 1..MaxClock /\ left \in [Accounts -> [Windows -> 0..Top]]
      BY DEF AlertInv, AlertTypes
    <2>2. clock \in Nat /\ MaxClock \in Nat
      BY AlertFacts DEF AlertInv
    <2> QED BY <2>1, <2>2
  <1>2. CASE \E a \in Accounts, w \in Windows : Alerts!Use(a, w) \/ Alerts!Reset(a, w)
    <2>1. PICK a \in Accounts, w \in Windows : Alerts!Use(a, w) \/ Alerts!Reset(a, w)
      BY <1>2
    <2>2. PICK l \in 0..Top : left' = [left EXCEPT ![a][w] = l]
      <3>1. PICK old \in 0..Top : old = left[a][w]
        BY <1>1
      <3>2. CASE Alerts!Use(a, w)
        <4>1. old - 1 \in 0..Top /\ left' = [left EXCEPT ![a][w] = old - 1]
          BY <3>1, <3>2 DEF AlertConstants, Alerts!Use
        <4> QED BY <4>1
      <3>3. CASE Alerts!Reset(a, w)
        <4>1. Top \in 0..Top /\ left' = [left EXCEPT ![a][w] = Top]
          BY <3>3 DEF AlertConstants, Alerts!Reset
        <4> QED BY <4>1
      <3> QED BY <2>1, <3>2, <3>3
    <2>3. left' \in [Accounts -> [Windows -> 0..Top]]
      BY <1>1, <2>2
    <2>4. /\ UNCHANGED clock /\ UNCHANGED state /\ UNCHANGED memory /\ UNCHANGED checks /\ UNCHANGED told
          /\ UNCHANGED last /\ UNCHANGED early /\ UNCHANGED monitor
      BY <2>1 DEF Alerts!Use, Alerts!Reset
    <2> QED BY <1>1, <2>3, <2>4, WorldStep
  <1>3. CASE Alerts!Tick
    <2>1. /\ clock' = clock + 1 /\ clock < MaxClock
          /\ UNCHANGED left /\ UNCHANGED state /\ UNCHANGED memory /\ UNCHANGED checks /\ UNCHANGED told
          /\ UNCHANGED last /\ UNCHANGED early /\ UNCHANGED monitor
      BY <1>3 DEF Alerts!Tick
    <2>2. clock' \in 1..MaxClock /\ clock <= clock'
      BY <1>1, <2>1
    <2> QED BY <1>1, <2>1, <2>2, WorldStep
  <1>4. CASE UNCHANGED Alerts!vars
    <2>1. /\ UNCHANGED left /\ UNCHANGED clock /\ UNCHANGED state /\ UNCHANGED memory /\ UNCHANGED checks
          /\ UNCHANGED told /\ UNCHANGED last /\ UNCHANGED early /\ UNCHANGED monitor
      BY <1>4 DEF Alerts!vars
    <2> QED BY <1>1, <2>1, WorldStep
  <1> QED BY <1>2, <1>3, <1>4

LEMMA DisposeIs ==
  ASSUME AlertConstants, AlertInv, NEW p \in Procs, Alerts!Dispose(p)
  PROVE  AlertInv'
  <1>1. /\ UNCHANGED left /\ UNCHANGED clock /\ UNCHANGED state /\ UNCHANGED memory /\ UNCHANGED checks
        /\ UNCHANGED told /\ UNCHANGED last /\ UNCHANGED early
    BY DEF Alerts!Dispose
  <1>2. PICK m \in Poller : m = [timer |-> FALSE, disposed |-> TRUE] /\ m.disposed = TRUE
    <2>1. [timer |-> FALSE, disposed |-> TRUE] \in Poller
      BY DEF Poller
    <2> QED BY <2>1
  <1>3. monitor' = [monitor EXCEPT ![p] = m]
    BY <1>2 DEF Alerts!Dispose
  <1>4. PICK c \in AlertCheck : c = checks[p] /\ Stands(p, c) /\ Exact(Announced(p, c))
    BY AlertFacts DEF AlertInv
  <1>5. Watches(c, m)
    <2>1. ~Alone => c.phase \notin {"seen", "claimed"}
      BY <1>4 DEF Alerts!Dispose, AlertConstants
    <2> QED BY <1>2, <2>1 DEF Watches
  <1>6. AlertTypes'
    BY <1>1, <1>3, PollerIs DEF AlertInv, AlertTypes
  <1>7. OneLooks'
    BY <1>1 DEF AlertInv, OneLooks
  <1>8. ASSUME NEW q \in Procs
        PROVE  /\ Bookkeeping(q)' /\ Stands(q, checks[q])' /\ Watches(checks[q], monitor[q])'
               /\ Exact(Announced(q, checks[q]))'
    <2>1. PICK y \in AlertCheck, o \in Poller :
            /\ y = checks[q] /\ y = checks'[q] /\ o = monitor'[q]
            /\ Stands(q, y) /\ Exact(Announced(q, y)) /\ Watches(y, o)
      <3>1. CASE q = p BY <1>1, <1>3, <1>4, <1>5, <3>1, PollerIs DEF AlertInv
      <3>2. CASE q # p
        <4>1. monitor'[q] = monitor[q] /\ monitor[q] \in Poller /\ checks[q] \in AlertCheck
          BY <1>3, <3>2, PollerIs, AlertFacts DEF AlertInv
        <4> QED BY <1>1, <4>1 DEF AlertInv
      <3> QED BY <3>1, <3>2
    <2>2. Bookkeeping(q)'
      BY <1>1 DEF AlertInv, Bookkeeping, Book
    <2>3. Stands(q, y)'
      BY <1>1, <2>1 DEF Stands, Book
    <2>4. Exact(Announced(q, y))'
      BY <1>1, <2>1 DEF Announced, Exact, Book, Reverted
    <2>5. Watches(y, o)'
      BY <2>1 DEF Watches
    <2> QED BY <2>1, <2>2, <2>3, <2>4, <2>5
  <1> QED BY <1>6, <1>7, <1>8 DEF AlertInv

\* What a lost file said is remembered, when the process is alone.
LEMMA StateLostIs ==
  ASSUME AlertConstants, AlertInv, Alerts!StateLost
  PROVE  AlertInv'
  <1>1. /\ UNCHANGED left /\ UNCHANGED clock /\ UNCHANGED memory /\ UNCHANGED monitor /\ UNCHANGED checks
        /\ UNCHANGED told /\ UNCHANGED last /\ UNCHANGED early /\ state' = Alerts!NoState
        /\ \A q \in Procs : checks[q].phase \in {"idle", "polling", "probing"}
    BY DEF Alerts!StateLost
  <1>2. Alone
    BY DEF Alerts!StateLost, AlertConstants
  <1>3. AlertTypes'
    BY <1>1, AlertFacts DEF AlertInv, AlertTypes
  <1>4. OneLooks'
    BY <1>2 DEF OneLooks, Alone
  <1>5. \A q \in Procs : Book(q)' = Book(q)
    BY <1>1, <1>2 DEF Book, Alone
  <1>6. ASSUME NEW q \in Procs
        PROVE  /\ Bookkeeping(q)' /\ Stands(q, checks[q])' /\ Watches(checks[q], monitor[q])'
               /\ Exact(Announced(q, checks[q]))'
    <2>1. PICK y \in AlertCheck :
            /\ y = checks[q] /\ y = checks'[q] /\ y.phase \in {"idle", "polling", "probing"}
            /\ Exact(Announced(q, y)) /\ Watches(y, monitor[q])
      BY <1>1, AlertFacts DEF AlertInv
    <2>2. Bookkeeping(q)'
      BY <1>1, <1>2, <1>5 DEF AlertInv, Bookkeeping, Alone, Alerts!NoState
    <2>3. Stands(q, y)'
      BY <1>2, <2>1 DEF Stands, Alone
    <2>4. Exact(Announced(q, y))'
      BY <1>1, <1>5, <2>1 DEF Announced, Exact
    <2>5. Watches(checks[q], monitor[q])'
      BY <1>1, <2>1 DEF Watches
    <2> QED BY <2>1, <2>2, <2>3, <2>4, <2>5
  <1> QED BY <1>3, <1>4, <1>6 DEF AlertInv

LEMMA AlertsStart ==
  ASSUME AlertConstants, Alerts!Init
  PROVE  AlertInv
  <1>1. Top \in Nat /\ MaxClock \in Nat \ {0} /\ 0 \in 0..MaxClock /\ 1 \in 1..MaxClock /\ Top \in 0..Top
        /\ Top + 1 \in 0..Top + 1
    BY DEF AlertConstants
  <1>2. /\ Alerts!NoState \in AlertState /\ Alerts!NoState.at = 0 /\ Alerts!NoState.delivered = 0
        /\ Alerts!NoState.pct \in Headroom /\ \A w \in Windows : Alerts!NoState.pct[w] = Top + 1
    BY <1>1 DEF Alerts!NoState, Alerts!Unseen, AlertState, Headroom
  <1>3. Alerts!Quiet \in AlertCheck /\ Alerts!Quiet.phase = "idle"
    BY <1>1, <1>2 DEF Alerts!Quiet, AlertCheck
  <1>4. /\ left = [a \in Accounts |-> [w \in Windows |-> Top]] /\ clock = 1
        /\ state = Alerts!NoState /\ memory = [p \in Procs |-> Alerts!NoState]
        /\ monitor = [p \in Procs |-> [timer |-> TRUE, disposed |-> FALSE]]
        /\ checks = [p \in Procs |-> Alerts!Quiet]
        /\ told = [w \in Windows |-> [t \in Thresholds |-> 0]] /\ last = 0 /\ early = FALSE
    BY DEF Alerts!Init
  <1>5. PICK m \in Poller : m = [timer |-> TRUE, disposed |-> FALSE] /\ m.timer = TRUE /\ m.disposed = FALSE
    <2>1. [timer |-> TRUE, disposed |-> FALSE] \in Poller
      BY DEF Poller
    <2> QED BY <2>1
  <1>6. AlertTypes
    <2>1. left \in [Accounts -> [Windows -> 0..Top]] /\ clock \in 1..MaxClock
      BY <1>1, <1>4
    <2>2. state \in AlertState /\ memory \in [Procs -> AlertState] /\ checks \in [Procs -> AlertCheck]
      BY <1>2, <1>3, <1>4
    <2>3. monitor \in [Procs -> Poller]
      BY <1>4, <1>5
    <2>4. told \in [Windows -> [Thresholds -> {0, 1, 3}]] /\ last \in 0..MaxClock /\ early = FALSE
      BY <1>1, <1>4
    <2> QED BY <2>1, <2>2, <2>3, <2>4 DEF AlertTypes
  <1>7. OneLooks
    BY <1>3, <1>4 DEF OneLooks
  <1>8. ASSUME NEW p \in Procs
        PROVE  /\ Bookkeeping(p) /\ Stands(p, checks[p]) /\ Watches(checks[p], monitor[p])
               /\ Exact(Announced(p, checks[p]))
    <2>1. checks[p] = Alerts!Quiet /\ monitor[p] = m /\ memory[p] = Alerts!NoState /\ Book(p) = Alerts!NoState
      BY <1>4, <1>5 DEF Book
    <2>2. Bookkeeping(p)
      BY <1>2, <1>4, <2>1 DEF Bookkeeping
    <2>3. Stands(p, checks[p])
      BY <1>3, <2>1 DEF Stands
    <2>4. Watches(checks[p], monitor[p])
      BY <1>3, <1>5, <2>1 DEF Watches
    <2>5. Exact(Alerts!NoState.pct)
      <3> SUFFICES ASSUME NEW w \in Windows, NEW t \in Thresholds
                   PROVE  told[w][t] \in IF Alerts!NoState.pct[w] <= t THEN {1, 3} ELSE {0}
        BY DEF Exact
      <3>1. t \in 0..Top
        BY DEF AlertConstants
      <3>2. ~(Top + 1 <= t)
        BY <1>1, <3>1
      <3> QED BY <1>2, <1>4, <3>2
    <2> QED BY <1>3, <2>1, <2>2, <2>3, <2>4, <2>5 DEF Announced
  <1> QED BY <1>6, <1>7, <1>8 DEF AlertInv

LEMMA AlertSteps ==
  ASSUME AlertConstants, AlertInv, [Alerts!Next]_(Alerts!vars)
  PROVE  AlertInv'
  <1>1. CASE \/ \E a \in Accounts, w \in Windows : Alerts!Use(a, w) \/ Alerts!Reset(a, w)
             \/ Alerts!Tick \/ UNCHANGED Alerts!vars
    BY <1>1, WorldIs
  <1>2. CASE Alerts!StateLost BY <1>2, StateLostIs
  <1>3. ASSUME NEW p \in Procs,
               \/ Alerts!Dispose(p) \/ Alerts!Poll(p) \/ Alerts!Probe(p) \/ Alerts!Probed(p)
               \/ Alerts!Unanswered(p) \/ Alerts!Look(p) \/ Alerts!Claim(p) \/ Alerts!ClaimRefused(p)
               \/ Alerts!Deliver(p) \/ Alerts!Undelivered(p) \/ Alerts!Release(p)
               \/ Alerts!ReleaseFails(p)
        PROVE  AlertInv'
    <2>1. CASE Alerts!Dispose(p) BY <2>1, DisposeIs
    <2>2. CASE Alerts!Poll(p) BY <2>2, PollIs, WorldIs
    <2>3. CASE Alerts!Probe(p) BY <2>3, ProbeIs
    <2>4. CASE Alerts!Probed(p) \/ Alerts!Unanswered(p) \/ Alerts!ClaimRefused(p)
      <3>1. /\ Alerts!Ends(p) /\ checks[p].phase # "releasing"
            /\ UNCHANGED left /\ UNCHANGED clock /\ UNCHANGED state /\ UNCHANGED memory
            /\ UNCHANGED told /\ UNCHANGED last /\ UNCHANGED early
        BY <2>4 DEF Alerts!Probed, Alerts!Unanswered, Alerts!ClaimRefused
      <3> QED BY <3>1, DroppedIs
    <2>5. CASE Alerts!Look(p) BY <2>5, LookIs
    <2>6. CASE Alerts!Claim(p) BY <2>6, AlertClaimIs
    <2>7. CASE Alerts!Deliver(p) BY <2>7, DeliverIs
    <2>8. CASE Alerts!Undelivered(p) BY <2>8, UndeliveredIs
    <2>9. CASE Alerts!Release(p) BY <2>9, ReleaseIs
    <2>10. CASE Alerts!ReleaseFails(p) BY <2>10, ReleaseFailsIs
    <2> QED BY <1>3, <2>1, <2>2, <2>3, <2>4, <2>5, <2>6, <2>7, <2>8, <2>9, <2>10
  <1> QED BY <1>1, <1>2, <1>3 DEF Alerts!Next

LEMMA AlertSound ==
  ASSUME AlertConstants, AlertInv
  PROVE  Alerts!TypeOK /\ Alerts!NotifySafe
  <1>1. Alerts!TypeOK
    <2>1. \A p \in Procs : checks[p].phase \in {"idle", "polling", "probing", "seen", "claimed", "releasing"}
      BY AlertFacts DEF AlertInv, AlertCheck
    <2> QED
      BY <2>1 DEF AlertInv, AlertTypes, Alerts!TypeOK, Alerts!States, Alerts!Levels, Alerts!Unseen,
        AlertState, Headroom
  <1>2. Alerts!AnnouncedOnce
    <2>1. \A w \in Windows, t \in Thresholds : told[w][t] \in {0, 1, 3}
      BY DEF AlertInv, AlertTypes
    <2> QED BY <2>1 DEF Alerts!AnnouncedOnce
  <1>3. Alerts!NothingForgotten
    <2> SUFFICES ASSUME NEW p \in Procs, NEW w \in Windows, NEW t \in Thresholds,
                        checks[p].phase \notin {"claimed", "releasing"}, Alerts!Baseline(p).pct[w] <= t
                 PROVE  told[w][t] # 0
      BY DEF Alerts!NothingForgotten
    <2>1. Exact(Book(p).pct) /\ Alerts!Baseline(p) = Book(p)
      BY BookIs DEF AlertInv, Announced
    <2>2. told[w][t] \in {1, 3}
      BY <2>1 DEF Exact
    <2> QED BY <2>2
  <1>4. Alerts!Spaced
    BY DEF AlertInv, AlertTypes, Alerts!Spaced
  <1>5. Alerts!KeepsPolling
    <2> SUFFICES ASSUME NEW p \in Procs
                 PROVE  monitor[p].disposed \/ monitor[p].timer \/ checks[p].phase \notin {"idle", "probing"}
      BY DEF Alerts!KeepsPolling
    <2>1. Watches(checks[p], monitor[p])
      BY DEF AlertInv
    <2> QED BY <2>1 DEF Watches
  <1> QED BY <1>1, <1>2, <1>3, <1>4, <1>5 DEF Alerts!NotifySafe

(***************************************************************************)
(* A process alone with whatever may fail, or any number of processes of   *)
(* which none fails: a threshold is announced once until the window was    *)
(* seen above it again, a failed delivery is forgotten only when giving    *)
(* its claim back failed too, a message without a crossing keeps its       *)
(* interval, and every monitor goes on polling (quota-notifications.ts:    *)
(* the claim under the lease, releaseUndeliveredClaim, the timer's tick).  *)
(***************************************************************************)
THEOREM AlertsStaySafe ==
  ASSUME AlertConstants
  PROVE  Alerts!Spec => [](Alerts!TypeOK /\ Alerts!NotifySafe)
  <1>1. Alerts!Init => AlertInv
    BY AlertsStart
  <1>2. AlertInv /\ [Alerts!Next]_(Alerts!vars) => AlertInv'
    BY AlertSteps
  <1>3. AlertInv => Alerts!TypeOK /\ Alerts!NotifySafe
    BY AlertSound
  <1> QED BY <1>1, <1>2, <1>3, PTL DEF Alerts!Spec

=============================================================================
