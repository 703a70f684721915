--------------------------- MODULE RequestProofs ---------------------------
(***************************************************************************)
(* Safety of a request on its way: the walk over the pool, the order in    *)
(* which accounts are taken, what an answer says of its account, how its   *)
(* body is read, and the recovery of a session that broke; and of what is  *)
(* read and shown of the accounts meanwhile, in the terminals' lines and   *)
(* by a custom policy.                                                     *)
(* Requests, accounts, answers, calls, terminals and bounds are parameters *)
(* of the theorems.                                                        *)
(***************************************************************************)
EXTENDS RequestPipeline, SequenceTheorems, FiniteSetTheorems, NaturalsInduction,
        WellFoundedInduction, TLAPS

CONSTANTS
  Strategies, Cap, Best, Hazards,                         \* the order of the accounts
  Calls, Kinds, Unnamed, MaxParts, Resume, Shift, Faults, \* the recovery
  Windows, Length, Off, Causes, Retries, Bare, MaxInFlight, MaxClock  \* and the verdicts

VARIABLES
  strategy, pool, cursor, current, bucket, score, recent, held, own, passed,
  parts, newest, call, processing, answers,
  clock, quota, echo, inFlight, limited, exhausted, backoff, last, spentUntil

Turn == INSTANCE Rotation WITH health <- score
Hook == INSTANCE RecoveryHook
Verdict == INSTANCE ErrorVerdict

(***************************************************************************)
(* Why no account is switched off unless the provider refused it: each     *)
(* login's counter of failures never runs ahead of the refusals the        *)
(* provider really gave, whatever the fetches do, in any number and under  *)
(* any plan.                                                               *)
(***************************************************************************)

\* A fetch works on an account of the pool.
Accountable ==
  /\ DOMAIN req = Requests
  /\ \A r \in Requests : "account" \in DOMAIN req[r] /\ Account(r) \in Accounts

CounterTypes ==
  /\ enabled \in [Accounts -> BOOLEAN]
  /\ failures \in [Logins -> 0..MaxAuthFailures]
  /\ evidence \in [refusals : [Logins -> 0..MaxAuthFailures], deactivated : SUBSET Accounts]

CountsRefusals == \A l \in Logins : failures[l] <= evidence.refusals[l]

RefusalInv == Accountable /\ CounterTypes /\ CountsRefusals

Justified ==
  \A a \in Accounts :
    enabled[a] /\ ~enabled'[a] =>
      \/ evidence'.refusals[Login[a]] = MaxAuthFailures
      \/ a \in evidence'.deactivated

Safe == RefusalInv' /\ Justified

-----------------------------------------------------------------------------
(* The fetch keeps its account, takes one of the pool, or gives it up.     *)

LEMMA SetKeepsAccount ==
  ASSUME NEW r \in Requests, NEW fields, Set(r, fields), Accountable,
         "account" \in DOMAIN fields => fields["account"] \in Accounts
  PROVE  Accountable'
<1>1. DOMAIN req' = Requests
  BY DEF Set, Accountable
<1>2. req'[r] = Updated(req[r], fields)
  BY DEF Set, Accountable
<1>3. "account" \in DOMAIN req'[r] /\ req'[r]["account"] \in Accounts
  BY <1>2 DEF Accountable, Account, Updated
<1> QED BY <1>1, <1>3 DEF Set, Accountable, Account

LEMMA AnswerKeepsAccount ==
  ASSUME NEW r \in Requests, NEW answer, Answer(r, answer), Accountable
  PROVE  Accountable'
<1>1. "account" \in DOMAIN Idle(answer) /\ Idle(answer).account \in Accounts
  BY PipelineAssumption DEF Idle
<1> QED BY <1>1 DEF Answer, Accountable, Account

LEMMA OthersKeepAccount ==
  ASSUME Accountable, UNCHANGED req
  PROVE  Accountable'
  BY DEF Accountable, Account

-----------------------------------------------------------------------------
(* The four things a step may do to the counters.                          *)

LEMMA QuietIsSafe ==
  ASSUME RefusalInv, Accountable', UNCHANGED <<enabled, failures, evidence>>
  PROVE  Safe
  BY DEF RefusalInv, CounterTypes, CountsRefusals, Safe, Justified

\* A counted refusal is a refusal, so a counter at its limit has as many behind it.
LEMMA CountedIsSafe ==
  ASSUME RefusalInv, Accountable', NEW a \in Accounts, CountAuthFailure(a), Refused(a)
  PROVE  Safe
<1> DEFINE l == Login[a]
<1>0. l \in Logins /\ MaxAuthFailures \in Nat \ {0}
  BY PipelineAssumption
<1>1. /\ failures \in [Logins -> 0..MaxAuthFailures]
      /\ evidence \in [refusals : [Logins -> 0..MaxAuthFailures], deactivated : SUBSET Accounts]
      /\ enabled \in [Accounts -> BOOLEAN]
  BY DEF RefusalInv, CounterTypes
<1> DEFINE count == IF failures[l] < MaxAuthFailures THEN failures[l] + 1 ELSE MaxAuthFailures
           refusals == IF evidence.refusals[l] < MaxAuthFailures
                         THEN evidence.refusals[l] + 1 ELSE evidence.refusals[l]
<1>2. failures' = [failures EXCEPT ![l] = count]
  BY DEF CountAuthFailure
<1>3. evidence' = [evidence EXCEPT !.refusals = [evidence.refusals EXCEPT ![l] = refusals]]
  BY <1>1 DEF Refused
<1>4. /\ failures[l] \in 0..MaxAuthFailures /\ evidence.refusals[l] \in 0..MaxAuthFailures
      /\ failures[l] <= evidence.refusals[l]
  BY <1>0, <1>1 DEF RefusalInv, CountsRefusals
<1>5. count \in 0..MaxAuthFailures /\ refusals \in 0..MaxAuthFailures /\ count <= refusals
  BY <1>0, <1>4
<1>6. evidence'.refusals = [evidence.refusals EXCEPT ![l] = refusals]
      /\ evidence'.deactivated = evidence.deactivated
  BY <1>1, <1>3
<1> HIDE DEF count, refusals
<1>7. CounterTypes'
  <2>1. enabled' \in [Accounts -> BOOLEAN]
    BY <1>1 DEF CountAuthFailure, Disable
  <2>2. failures' \in [Logins -> 0..MaxAuthFailures]
    BY <1>0, <1>1, <1>2, <1>5
  <2>3. evidence' \in [refusals : [Logins -> 0..MaxAuthFailures], deactivated : SUBSET Accounts]
    BY <1>0, <1>1, <1>3, <1>5
  <2> QED BY <2>1, <2>2, <2>3 DEF CounterTypes
<1>8. CountsRefusals'
  BY <1>0, <1>1, <1>2, <1>4, <1>5, <1>6 DEF RefusalInv, CountsRefusals
<1>9. Justified
  <2> SUFFICES ASSUME NEW b \in Accounts, enabled[b], ~enabled'[b]
               PROVE  evidence'.refusals[Login[b]] = MaxAuthFailures
    BY DEF Justified
  <2>1. b \in Group(a) /\ count = MaxAuthFailures
    BY <1>1 DEF CountAuthFailure, Disable, count
  <2>2. Login[b] = l
    BY <2>1 DEF Group
  <2>3. refusals = MaxAuthFailures
    BY <1>0, <1>5, <2>1
  <2> QED BY <1>0, <1>1, <1>6, <2>2, <2>3
<1> QED BY <1>7, <1>8, <1>9 DEF Safe, RefusalInv

LEMMA ProvedIsSafe ==
  ASSUME RefusalInv, Accountable', NEW a \in Accounts,
         ClearAuthFailures(a), Proved(a), UNCHANGED enabled
  PROVE  Safe
<1>0. Login[a] \in Logins /\ MaxAuthFailures \in Nat \ {0}
  BY PipelineAssumption
<1>1. /\ failures \in [Logins -> 0..MaxAuthFailures]
      /\ evidence \in [refusals : [Logins -> 0..MaxAuthFailures], deactivated : SUBSET Accounts]
      /\ enabled \in [Accounts -> BOOLEAN]
  BY DEF RefusalInv, CounterTypes
<1>2. evidence' = [evidence EXCEPT !.refusals = [evidence.refusals EXCEPT ![Login[a]] = 0]]
  BY <1>1 DEF Proved
<1>3. failures' = [failures EXCEPT ![Login[a]] = 0]
  BY DEF ClearAuthFailures
<1>4. CounterTypes' /\ CountsRefusals'
  BY <1>0, <1>1, <1>2, <1>3 DEF RefusalInv, CounterTypes, CountsRefusals
<1> QED BY <1>1, <1>4 DEF Safe, RefusalInv, Justified

LEMMA DeactivatedIsSafe ==
  ASSUME RefusalInv, Accountable', NEW r \in Requests, Deactivated(r)
  PROVE  Safe
<1> DEFINE a == Account(r)
<1>1. /\ a \in Accounts
      /\ enabled \in [Accounts -> BOOLEAN]
      /\ evidence \in [refusals : [Logins -> 0..MaxAuthFailures], deactivated : SUBSET Accounts]
  BY DEF RefusalInv, CounterTypes, Accountable
<1>2. evidence' = [evidence EXCEPT !.deactivated = @ \cup {a}] /\ UNCHANGED failures
  BY DEF Deactivated
<1>3. UNCHANGED enabled \/ enabled' = [b \in Accounts |-> enabled[b] /\ b \notin {a}]
  BY DEF Deactivated, Disable
<1>4. CounterTypes' /\ CountsRefusals'
  BY <1>1, <1>2, <1>3 DEF RefusalInv, CounterTypes, CountsRefusals
<1>5. Justified
  BY <1>1, <1>2, <1>3 DEF Justified
<1> QED BY <1>4, <1>5 DEF Safe, RefusalInv

LEMMA ReenableIsSafe ==
  ASSUME RefusalInv, Accountable', NEW a \in Accounts, Reenable(a)
  PROVE  Safe
  BY DEF Reenable, RefusalInv, CounterTypes, CountsRefusals, Safe, Justified

-----------------------------------------------------------------------------
(* Every step is one of them.                                              *)

\* The steps that leave the counters alone.
LEMMA QuietSteps ==
  ASSUME RefusalInv, NEW r \in Requests,
         \/ Start(r) \/ Select(r) \/ SelectOnCredits(r) \/ SkipLastResort(r)
         \/ TokenFresh(r) \/ Unroutable(r) \/ RefreshBudgetSpent(r) \/ RefreshUnavailable(r)
         \/ Depleted(r) \/ Send(r) \/ Reissue(r)
         \/ Aborted(r) \/ NetworkError(r) \/ Returned(r) \/ Unsupported(r)
         \/ ServerError(r) \/ StreamFailed(r) \/ Empty(r)
         \/ \E spent, turnedDown, short \in BOOLEAN : RateLimited(r, spent, turnedDown, short)
         \/ DegradeOnQuota(r) \/ WaitForPool(r) \/ Waited(r) \/ GiveUp(r)
  PROVE  Safe
<1>1. Accountable
  BY DEF RefusalInv
<1>2. CASE Start(r)
  <2>1. Accountable'
    BY <1>1, <1>2, SetKeepsAccount DEF Start
  <2>2. UNCHANGED <<enabled, failures, evidence>>
    BY <1>2 DEF Start, health
  <2> QED BY <2>1, <2>2, QuietIsSafe
<1>3. CASE Select(r)
  <2>1. Accountable'
    BY <1>1, <1>3, SetKeepsAccount DEF Select, Take, Candidates
  <2>2. UNCHANGED <<enabled, failures, evidence>>
    BY <1>3 DEF Select, health
  <2> QED BY <2>1, <2>2, QuietIsSafe
<1>4. CASE SelectOnCredits(r)
  <2>1. Accountable'
    BY <1>1, <1>4, SetKeepsAccount, OthersKeepAccount DEF SelectOnCredits, Take, OnCredits
  <2>2. UNCHANGED <<enabled, failures, evidence>>
    BY <1>4 DEF SelectOnCredits, health
  <2> QED BY <2>1, <2>2, QuietIsSafe
<1>5. CASE SkipLastResort(r)
  <2>1. Accountable'
    BY <1>1, <1>5, SetKeepsAccount DEF SkipLastResort
  <2>2. UNCHANGED <<enabled, failures, evidence>>
    BY <1>5 DEF SkipLastResort, health
  <2> QED BY <2>1, <2>2, QuietIsSafe
<1>6. CASE TokenFresh(r)
  <2>1. Accountable'
    BY <1>1, <1>6, SetKeepsAccount DEF TokenFresh
  <2>2. UNCHANGED <<enabled, failures, evidence>>
    BY <1>6 DEF TokenFresh, health
  <2> QED BY <2>1, <2>2, QuietIsSafe
<1>7. CASE Unroutable(r)
  <2>1. Accountable'
    BY <1>1, <1>7, SetKeepsAccount DEF Unroutable, Rotate
  <2>2. UNCHANGED <<enabled, failures, evidence>>
    BY <1>7 DEF Unroutable, health
  <2> QED BY <2>1, <2>2, QuietIsSafe
<1>8. CASE RefreshBudgetSpent(r)
  <2>1. Accountable'
    BY <1>1, <1>8, AnswerKeepsAccount DEF RefreshBudgetSpent
  <2>2. UNCHANGED <<enabled, failures, evidence>>
    BY <1>8 DEF RefreshBudgetSpent, health
  <2> QED BY <2>1, <2>2, QuietIsSafe
<1>9. CASE RefreshUnavailable(r)
  <2>1. Accountable'
    BY <1>1, <1>9, SetKeepsAccount DEF RefreshUnavailable, SpendRefresh
  <2>2. UNCHANGED <<enabled, failures, evidence>>
    BY <1>9 DEF RefreshUnavailable, health
  <2> QED BY <2>1, <2>2, QuietIsSafe
<1>10. CASE Depleted(r)
  <2>1. Accountable'
    BY <1>1, <1>10, SetKeepsAccount DEF Depleted, Rotate
  <2>2. UNCHANGED <<enabled, failures, evidence>>
    BY <1>10 DEF Depleted, health
  <2> QED BY <2>1, <2>2, QuietIsSafe
<1>11. CASE Send(r)
  <2>1. Accountable'
    BY <1>1, <1>11, SetKeepsAccount DEF Send, PassGate, Rotate
  <2>2. UNCHANGED <<enabled, failures, evidence>>
    BY <1>11 DEF Send, health
  <2> QED BY <2>1, <2>2, QuietIsSafe
<1>12. CASE Reissue(r)
  <2>1. Accountable'
    BY <1>1, <1>12, SetKeepsAccount DEF Reissue, PassGate, Rotate
  <2>2. UNCHANGED <<enabled, failures, evidence>>
    BY <1>12 DEF Reissue, health
  <2> QED BY <2>1, <2>2, QuietIsSafe
<1>13. CASE Aborted(r)
  <2>1. Accountable'
    BY <1>1, <1>13, AnswerKeepsAccount DEF Aborted
  <2>2. UNCHANGED <<enabled, failures, evidence>>
    BY <1>13 DEF Aborted, health
  <2> QED BY <2>1, <2>2, QuietIsSafe
<1>14. CASE NetworkError(r)
  <2>1. Accountable'
    BY <1>1, <1>14, SetKeepsAccount, AnswerKeepsAccount DEF NetworkError
  <2>2. UNCHANGED <<enabled, failures, evidence>>
    BY <1>14 DEF NetworkError, health
  <2> QED BY <2>1, <2>2, QuietIsSafe
<1>15. CASE Returned(r)
  <2>1. Accountable'
    BY <1>1, <1>15, AnswerKeepsAccount DEF Returned
  <2>2. UNCHANGED <<enabled, failures, evidence>>
    BY <1>15 DEF Returned, health
  <2> QED BY <2>1, <2>2, QuietIsSafe
<1>16. CASE Unsupported(r)
  <2>1. Accountable'
    BY <1>1, <1>16, SetKeepsAccount, AnswerKeepsAccount DEF Unsupported, Rotate, Degrade
  <2>2. UNCHANGED <<enabled, failures, evidence>>
    BY <1>16 DEF Unsupported, health
  <2> QED BY <2>1, <2>2, QuietIsSafe
<1>17. CASE ServerError(r)
  <2>1. Accountable'
    BY <1>1, <1>17, SetKeepsAccount, AnswerKeepsAccount DEF ServerError
  <2>2. UNCHANGED <<enabled, failures, evidence>>
    BY <1>17 DEF ServerError, health
  <2> QED BY <2>1, <2>2, QuietIsSafe
<1>18. CASE StreamFailed(r)
  <2>1. Accountable'
    BY <1>1, <1>18, SetKeepsAccount DEF StreamFailed
  <2>2. UNCHANGED <<enabled, failures, evidence>>
    BY <1>18 DEF StreamFailed, health
  <2> QED BY <2>1, <2>2, QuietIsSafe
<1>19. CASE Empty(r)
  <2>1. Accountable'
    BY <1>1, <1>19, SetKeepsAccount DEF Empty
  <2>2. UNCHANGED <<enabled, failures, evidence>>
    BY <1>19 DEF Empty, health
  <2> QED BY <2>1, <2>2, QuietIsSafe
<1>20. CASE \E spent, turnedDown, short \in BOOLEAN :
             RateLimited(r, spent, turnedDown, short)
  <2>1. Accountable'
    BY <1>1, <1>20, SetKeepsAccount DEF RateLimited, Rotate
  <2>2. UNCHANGED <<enabled, failures, evidence>>
    BY <1>20 DEF RateLimited, health
  <2> QED BY <2>1, <2>2, QuietIsSafe
<1>21. CASE DegradeOnQuota(r)
  <2>1. Accountable'
    BY <1>1, <1>21, SetKeepsAccount DEF DegradeOnQuota, Degrade
  <2>2. UNCHANGED <<enabled, failures, evidence>>
    BY <1>21 DEF DegradeOnQuota, health
  <2> QED BY <2>1, <2>2, QuietIsSafe
<1>22. CASE WaitForPool(r)
  <2>1. Accountable'
    BY <1>1, <1>22, SetKeepsAccount DEF WaitForPool, ChargeWait
  <2>2. UNCHANGED <<enabled, failures, evidence>>
    BY <1>22 DEF WaitForPool, health
  <2> QED BY <2>1, <2>2, QuietIsSafe
<1>23. CASE Waited(r)
  <2>1. Accountable'
    BY <1>1, <1>23, SetKeepsAccount DEF Waited
  <2>2. UNCHANGED <<enabled, failures, evidence>>
    BY <1>23 DEF Waited, health
  <2> QED BY <2>1, <2>2, QuietIsSafe
<1>24. CASE GiveUp(r)
  <2>1. Accountable'
    BY <1>1, <1>24, AnswerKeepsAccount DEF GiveUp
  <2>2. UNCHANGED <<enabled, failures, evidence>>
    BY <1>24 DEF GiveUp, health
  <2> QED BY <2>1, <2>2, QuietIsSafe
<1> QED BY <1>2, <1>3, <1>4, <1>5, <1>6, <1>7, <1>8, <1>9, <1>10, <1>11, <1>12, <1>13, <1>14,
     <1>15, <1>16, <1>17, <1>18, <1>19, <1>20, <1>21, <1>22, <1>23, <1>24

\* The steps that speak of a login.
LEMMA LoginSteps ==
  ASSUME RefusalInv, ~HostStoreFails, NEW r \in Requests,
         \/ TokenRefreshed(r) \/ RefreshRejected(r) \/ HostRefusesLogin(r)
         \/ Deactivated(r) \/ Invalidated(r) \/ Served(r)
  PROVE  Safe
<1>1. Accountable /\ Account(r) \in Accounts
  BY DEF RefusalInv, Accountable
<1>2. CASE TokenRefreshed(r)
  <2>1. Accountable'
    BY <1>1, <1>2, SetKeepsAccount DEF TokenRefreshed
  <2> QED BY <1>1, <1>2, <2>1, ProvedIsSafe DEF TokenRefreshed
<1>3. CASE RefreshRejected(r)
  <2>1. Accountable'
    BY <1>1, <1>3, SetKeepsAccount DEF RefreshRejected, SpendRefresh
  <2> QED BY <1>1, <1>3, <2>1, CountedIsSafe DEF RefreshRejected
<1>4. CASE HostRefusesLogin(r) BY <1>4 DEF HostRefusesLogin
<1>5. CASE Deactivated(r)
  <2>1. Accountable'
    BY <1>1, <1>5, SetKeepsAccount DEF Deactivated, Rotate
  <2> QED BY <1>5, <2>1, DeactivatedIsSafe
<1>6. CASE Invalidated(r)
  <2>1. Accountable'
    BY <1>1, <1>6, SetKeepsAccount DEF Invalidated, Rotate
  <2> QED BY <1>1, <1>6, <2>1, CountedIsSafe DEF Invalidated
<1>7. CASE Served(r)
  <2>1. Accountable'
    BY <1>1, <1>7, AnswerKeepsAccount DEF Served
  <2> QED BY <1>1, <1>7, <2>1, ProvedIsSafe DEF Served
<1> QED BY <1>2, <1>3, <1>4, <1>5, <1>6, <1>7

\* Time, and the operator, who only ever enables.
LEMMA OtherSteps ==
  ASSUME RefusalInv, NEW a \in Accounts, Lapse(a) \/ Refill(a) \/ Cool(a) \/ Reenable(a)
  PROVE  Safe
<1>1. Accountable'
  BY OthersKeepAccount DEF RefusalInv, Lapse, Refill, Cool, Reenable
<1>2. CASE Lapse(a) \/ Refill(a) \/ Cool(a)
  <2>1. UNCHANGED <<enabled, failures, evidence>>
    BY <1>2 DEF Lapse, Refill, Cool
  <2> QED BY <1>1, <2>1, QuietIsSafe
<1>3. CASE Reenable(a) BY <1>1, <1>3, ReenableIsSafe
<1> QED BY <1>2, <1>3

LEMMA StepIsSafe ==
  ASSUME RefusalInv, ~HostStoreFails, [Next]_vars
  PROVE  Safe
<1>1. CASE UNCHANGED vars
  <2>1. Accountable'
    BY <1>1, OthersKeepAccount DEF vars, RefusalInv
  <2> QED BY <1>1, <2>1, QuietIsSafe DEF vars
<1>2. CASE \E r \in Requests : Start(r) \/ Step(r)
  <2>1. PICK r \in Requests : Start(r) \/ Step(r)
    BY <1>2
  <2> QED BY <2>1, QuietSteps, LoginSteps DEF Step
<1>3. CASE \E a \in Accounts : Lapse(a) \/ Refill(a) \/ Cool(a) \/ Reenable(a)
  BY <1>3, OtherSteps
<1> QED BY <1>1, <1>2, <1>3 DEF Next

LEMMA InitIsSafe == Init => RefusalInv
<1> SUFFICES ASSUME Init
             PROVE  RefusalInv
  OBVIOUS
<1>1. Accountable
  BY PipelineAssumption DEF Init, Accountable, Account, Idle
<1>2. CounterTypes /\ CountsRefusals
  BY PipelineAssumption DEF Init, CounterTypes, CountsRefusals
<1> QED BY <1>1, <1>2 DEF RefusalInv

\* Accounts are switched off on the provider's word only (AutoDisableJustified), for
\* every pool, every number of fetches and every plan, as long as the host stores
\* what it is given.
THEOREM DisabledOnRefusal ==
  ASSUME ~HostStoreFails
  PROVE  Spec => AutoDisableJustified
<1>1. RefusalInv /\ [Next]_vars => RefusalInv' /\ [Justified]_vars
  BY StepIsSafe DEF Safe
<1> QED BY <1>1, InitIsSafe, PTL DEF Spec, AutoDisableJustified, Justified

-----------------------------------------------------------------------------
(* Why "all accounts failed" is the truth: only GiveUp says so, and it     *)
(* does when no candidate is left or when as many accounts were attempted  *)
(* as there are, which then are all of them.                               *)

\* A fetch that goes on has not answered, and attempts accounts of the pool.
Unanswered(r) ==
  /\ {"stage", "account", "attempted", "answer"} \subseteq DOMAIN req[r]
  /\ Account(r) \in Accounts /\ req[r].attempted \subseteq Accounts
  /\ At(r, "idle") \/ req[r].answer # "pool"

TraversalInv ==
  /\ DOMAIN req = Requests
  /\ \A r \in Requests : Unanswered(r)

Tried ==
  \A r \in Requests : ~At(r, "idle") /\ req'[r].answer = "pool" => Candidates(r) = {}

Honest == TraversalInv' /\ Tried

-----------------------------------------------------------------------------
(* What a step does to the request it is of.                               *)

LEMMA SetIsHonest ==
  ASSUME TraversalInv, NEW r \in Requests, NEW fields, Set(r, fields),
         ~At(r, "idle") \/ req[r].answer = "none", "answer" \notin DOMAIN fields,
         "account" \in DOMAIN fields => fields["account"] \in Accounts,
         "attempted" \in DOMAIN fields => fields["attempted"] \subseteq Accounts
  PROVE  Honest
<1>1. DOMAIN req' = Requests /\ \A q \in Requests \ {r} : req'[q] = req[q]
  BY DEF Set, TraversalInv
<1>2. req'[r] = Updated(req[r], fields)
  BY DEF Set, TraversalInv
<1>3. req[r].answer # "pool" /\ Unanswered(r)
  BY DEF TraversalInv, Unanswered
<1>4. /\ {"stage", "account", "attempted", "answer"} \subseteq DOMAIN req'[r]
      /\ req'[r]["account"] \in Accounts /\ req'[r]["attempted"] \subseteq Accounts
      /\ req'[r]["answer"] # "pool"
  BY <1>2, <1>3 DEF Unanswered, Account, Updated
<1>5. TraversalInv'
  BY <1>1, <1>4 DEF TraversalInv, Unanswered, Account, At
<1>6. Tried
  BY <1>1, <1>4 DEF TraversalInv, Tried, Unanswered
<1> QED BY <1>5, <1>6 DEF Honest

\* An answer ends the fetch, whatever it is.
LEMMA AnswerKeepsInv ==
  ASSUME TraversalInv, NEW r \in Requests, NEW answer, Answer(r, answer)
  PROVE  /\ TraversalInv'
         /\ req'[r].answer = answer
         /\ \A q \in Requests \ {r} : req'[q] = req[q]
<1>1. DOMAIN req' = Requests /\ \A q \in Requests \ {r} : req'[q] = req[q]
  BY DEF Answer, TraversalInv
<1>2. req'[r] = Idle(answer)
  BY DEF Answer, TraversalInv
<1>3. /\ {"stage", "account", "attempted", "answer"} \subseteq DOMAIN Idle(answer)
      /\ Idle(answer).account \in Accounts /\ Idle(answer).attempted \subseteq Accounts
      /\ Idle(answer).answer = answer /\ Idle(answer).stage = "idle"
  BY PipelineAssumption DEF Idle
<1> QED BY <1>1, <1>2, <1>3 DEF TraversalInv, Unanswered, Account, At

LEMMA AnswerIsHonest ==
  ASSUME TraversalInv, NEW r \in Requests, NEW answer, Answer(r, answer), answer # "pool"
  PROVE  Honest
<1>1. Tried
  BY AnswerKeepsInv DEF TraversalInv, Tried, Unanswered
<1> QED BY <1>1, AnswerKeepsInv DEF Honest

LEMMA OthersAreHonest ==
  ASSUME TraversalInv, UNCHANGED req
  PROVE  Honest
  BY DEF TraversalInv, Honest, Tried, Unanswered, Account, At

\* As many accounts attempted as there are, all attempted.
LEMMA AllAttempted ==
  ASSUME TraversalInv, NEW r \in Requests, ~MoreToTry(r)
  PROVE  Candidates(r) = {}
<1>1. req[r].attempted \subseteq Accounts /\ IsFiniteSet(Accounts)
  BY PipelineAssumption DEF TraversalInv, Unanswered
<1>2. /\ IsFiniteSet(req[r].attempted)
      /\ Cardinality(req[r].attempted) \in Nat /\ Cardinality(Accounts) \in Nat
      /\ Cardinality(req[r].attempted) <= Cardinality(Accounts)
      /\ Cardinality(req[r].attempted) = Cardinality(Accounts) => req[r].attempted = Accounts
  BY <1>1, FS_Subset, FS_CardinalityType
<1>3. req[r].attempted = Accounts
  BY <1>2 DEF MoreToTry
<1> QED BY <1>3 DEF Candidates

LEMMA GiveUpIsHonest ==
  ASSUME TraversalInv, NEW r \in Requests, GiveUp(r)
  PROVE  Honest
<1>1. Candidates(r) = {}
  BY AllAttempted DEF GiveUp, Exhausted
<1>2. TraversalInv' /\ \A q \in Requests \ {r} : req'[q] = req[q]
  BY AnswerKeepsInv DEF GiveUp
<1> QED BY <1>1, <1>2 DEF Honest, Tried, TraversalInv, Unanswered

-----------------------------------------------------------------------------
(* Every step is one of them.                                              *)

\* Before the request goes out.
LEMMA SelectionSteps ==
  ASSUME TraversalInv, NEW r \in Requests,
         \/ Start(r) \/ Select(r) \/ SelectOnCredits(r) \/ SkipLastResort(r)
         \/ TokenFresh(r) \/ TokenRefreshed(r) \/ Unroutable(r) \/ RefreshBudgetSpent(r)
         \/ RefreshUnavailable(r) \/ RefreshRejected(r) \/ HostRefusesLogin(r)
         \/ Depleted(r) \/ Send(r) \/ Reissue(r)
  PROVE  Honest
<1>1. req[r].attempted \subseteq Accounts
  BY DEF TraversalInv, Unanswered
<1>2. CASE Start(r) BY <1>1, <1>2, SetIsHonest DEF Start, At
<1>3. CASE Select(r)
  BY <1>1, <1>3, SetIsHonest DEF Select, Take, Candidates, At
<1>4. CASE SelectOnCredits(r)
  BY <1>1, <1>4, SetIsHonest, OthersAreHonest DEF SelectOnCredits, Take, OnCredits, At
<1>5. CASE SkipLastResort(r)
  BY <1>1, <1>5, SetIsHonest DEF SkipLastResort, LastResorts, At
<1>6. CASE TokenFresh(r) BY <1>1, <1>6, SetIsHonest DEF TokenFresh, At
<1>7. CASE TokenRefreshed(r) BY <1>1, <1>7, SetIsHonest DEF TokenRefreshed, At
<1>8. CASE Unroutable(r) BY <1>1, <1>8, SetIsHonest DEF Unroutable, Rotate, At
<1>9. CASE RefreshBudgetSpent(r) BY <1>9, AnswerIsHonest DEF RefreshBudgetSpent
<1>10. CASE RefreshUnavailable(r)
  BY <1>1, <1>10, SetIsHonest DEF RefreshUnavailable, SpendRefresh, At
<1>11. CASE RefreshRejected(r)
  BY <1>1, <1>11, SetIsHonest DEF RefreshRejected, SpendRefresh, At
<1>12. CASE HostRefusesLogin(r)
  BY <1>1, <1>12, SetIsHonest DEF HostRefusesLogin, SpendRefresh, At
<1>13. CASE Depleted(r) BY <1>1, <1>13, SetIsHonest DEF Depleted, Rotate, At
<1>14. CASE Send(r) BY <1>1, <1>14, SetIsHonest DEF Send, PassGate, Rotate, At
<1>15. CASE Reissue(r)
  BY <1>1, <1>15, SetIsHonest DEF Reissue, PassGate, Rotate, At
<1> QED BY <1>2, <1>3, <1>4, <1>5, <1>6, <1>7, <1>8, <1>9, <1>10, <1>11, <1>12, <1>13,
     <1>14, <1>15

\* What comes back.
LEMMA AnswerSteps ==
  ASSUME TraversalInv, NEW r \in Requests,
         \/ Aborted(r) \/ NetworkError(r) \/ Returned(r) \/ Deactivated(r)
         \/ Unsupported(r) \/ ServerError(r)
         \/ \E spent, turnedDown, short \in BOOLEAN : RateLimited(r, spent, turnedDown, short)
         \/ Invalidated(r) \/ StreamFailed(r) \/ Empty(r) \/ Served(r)
  PROVE  Honest
<1>1. req[r].attempted \subseteq Accounts
  BY DEF TraversalInv, Unanswered
<1>2. CASE Aborted(r) BY <1>2, AnswerIsHonest DEF Aborted
<1>3. CASE NetworkError(r)
  BY <1>1, <1>3, SetIsHonest, AnswerIsHonest DEF NetworkError, At
<1>4. CASE Returned(r) BY <1>4, AnswerIsHonest DEF Returned
<1>5. CASE Deactivated(r)
  BY <1>1, <1>5, SetIsHonest DEF Deactivated, Rotate, At
<1>6. CASE Unsupported(r)
  BY <1>1, <1>6, SetIsHonest, AnswerIsHonest DEF Unsupported, Rotate, Degrade, At
<1>7. CASE ServerError(r)
  BY <1>1, <1>7, SetIsHonest, AnswerIsHonest DEF ServerError, At
<1>8. CASE \E spent, turnedDown, short \in BOOLEAN :
             RateLimited(r, spent, turnedDown, short)
  BY <1>1, <1>8, SetIsHonest DEF RateLimited, Rotate, At
<1>9. CASE Invalidated(r)
  BY <1>1, <1>9, SetIsHonest DEF Invalidated, Rotate, At
<1>10. CASE StreamFailed(r) BY <1>1, <1>10, SetIsHonest DEF StreamFailed, At
<1>11. CASE Empty(r) BY <1>1, <1>11, SetIsHonest DEF Empty, At
<1>12. CASE Served(r) BY <1>12, AnswerIsHonest DEF Served
<1> QED BY <1>2, <1>3, <1>4, <1>5, <1>6, <1>7, <1>8, <1>9, <1>10, <1>11, <1>12

\* The pool is exhausted.
LEMMA PoolSteps ==
  ASSUME TraversalInv, NEW r \in Requests,
         \/ DegradeOnQuota(r) \/ WaitForPool(r) \/ Waited(r) \/ GiveUp(r)
  PROVE  Honest
<1>1. req[r].attempted \subseteq Accounts
  BY DEF TraversalInv, Unanswered
<1>2. CASE DegradeOnQuota(r)
  BY <1>1, <1>2, SetIsHonest DEF DegradeOnQuota, Exhausted, Degrade, At
<1>3. CASE WaitForPool(r)
  BY <1>1, <1>3, SetIsHonest DEF WaitForPool, Exhausted, ChargeWait, At
<1>4. CASE Waited(r) BY <1>1, <1>4, SetIsHonest DEF Waited, At
<1>5. CASE GiveUp(r) BY <1>5, GiveUpIsHonest
<1> QED BY <1>2, <1>3, <1>4, <1>5

LEMMA StepIsHonest ==
  ASSUME TraversalInv, [Next]_vars
  PROVE  Honest
<1>1. CASE UNCHANGED req BY <1>1, OthersAreHonest
<1>2. CASE \E r \in Requests : Start(r) \/ Step(r)
  <2>1. PICK r \in Requests : Start(r) \/ Step(r)
    BY <1>2
  <2> QED BY <2>1, SelectionSteps, AnswerSteps, PoolSteps DEF Step
<1>3. CASE \E a \in Accounts : Lapse(a) \/ Refill(a) \/ Cool(a) \/ Reenable(a)
  BY <1>1, <1>3 DEF Lapse, Refill, Cool, Reenable
<1> QED BY <1>1, <1>2, <1>3 DEF Next, vars

LEMMA InitIsHonest == Init => TraversalInv
  BY PipelineAssumption DEF Init, TraversalInv, Unanswered, Account, At, Idle

\* The pool's answer means the pool was tried (PoolAnswerMeansPoolTried): for every
\* pool, every number of fetches that change each other's accounts, every plan.
THEOREM PoolAnswerIsHonest == Spec => PoolAnswerMeansPoolTried
<1>1. TraversalInv /\ [Next]_vars => TraversalInv' /\ [Tried]_vars
  BY StepIsHonest DEF Honest
<1> QED BY <1>1, InitIsHonest, PTL DEF Spec, PoolAnswerMeansPoolTried, Tried

-----------------------------------------------------------------------------
(***************************************************************************)
(* The order of the accounts: nobody is passed over for more than a round, *)
(* and an account keeps its own bucket and health however the list shifts. *)
(***************************************************************************)
TurnConstants ==
  /\ IsFiniteSet(Accounts) /\ Accounts # {} /\ "none" \notin Accounts
  /\ Cap \in Nat /\ Best \in Nat
  /\ Strategies \subseteq {"round-robin", "sticky", "custom", "hybrid"}

All == Cardinality(Accounts)

\* A list of different accounts.
Listed(p) ==
  /\ p \in Seq(Accounts) /\ Len(p) >= 1
  /\ \A i, j \in 1 .. Len(p) : p[i] = p[j] => i = j

TurnTypes ==
  /\ strategy \in Strategies
  /\ Listed(pool) /\ Len(pool) <= All
  /\ cursor \in 1 .. Len(pool) /\ current \in 0 .. Len(pool)
  /\ bucket \in [1 .. All -> 0 .. Cap] /\ score \in [1 .. All -> 0 .. Best]

Holding ==
  [account : Accounts \cup {"none"}, index : 0 .. All, paid : BOOLEAN, tried : SUBSET (1 .. All)]

TurnHolds ==
  /\ held \in [Requests -> Holding]
  /\ \A r \in Requests : /\ held[r].account # "none" => held[r].index \in 1 .. All
                         /\ held[r].paid => held[r].account # "none"

\* How far the position i lies ahead of the cursor.
Gap(c, n, i) == IF i >= c THEN i - c ELSE i - c + n

\* An account has been passed over by those between it and the cursor at most.
InTurn ==
  /\ passed \in [Accounts -> Nat]
  /\ strategy # "round-robin" => \A a \in Accounts : passed[a] = 0
  /\ \A a \in Accounts : (\A i \in 1 .. Len(pool) : pool[i] # a) => passed[a] = 0
  /\ \A i \in 1 .. Len(pool) : passed[pool[i]] + Gap(cursor, Len(pool), i) < All

\* A request's object points at its account, and what is behind the list is fresh.
Tracked ==
  /\ own \in [Accounts -> [bucket : 0 .. Cap, health : 0 .. Best]]
  /\ \A i \in 1 .. Len(pool) : own[pool[i]] = [bucket |-> bucket[i], health |-> score[i]]
  /\ \A i \in 1 .. All : i > Len(pool) => bucket[i] = Cap /\ score[i] = Best
  /\ \A a \in Accounts : (\A i \in 1 .. Len(pool) : pool[i] # a) =>
       own[a] = [bucket |-> Cap, health |-> Best]
  /\ \A r \in Requests : held[r].account # "none" =>
       held[r].index \in 1 .. Len(pool) /\ pool[held[r].index] = held[r].account

TurnInv == TurnTypes /\ TurnHolds /\ InTurn

TrackInv == TurnInv /\ Tracked

-----------------------------------------------------------------------------
(* The list.                                                               *)

LEMMA SameTurnCount == \A S : Turn!Cardinality(S) = Cardinality(S)
  BY DEF Turn!Cardinality, Cardinality

LEMMA AllIsNat ==
  ASSUME TurnConstants
  PROVE  All \in Nat /\ All >= 1
  <1>0. IsFiniteSet(Accounts)
    BY DEF TurnConstants
  <1>1. All \in Nat /\ (All = 0 <=> Accounts = {})
    BY <1>0, FS_CardinalityType, FS_EmptySet, Zenon DEF All
  <1>2. Accounts # {}
    BY DEF TurnConstants
  <1>3. All # 0
    BY <1>1, <1>2
  <1> QED BY <1>1, <1>3

LEMMA GapIsShort ==
  ASSUME NEW n \in Nat, NEW c \in 1 .. n, NEW i \in 1 .. n
  PROVE  Gap(c, n, i) \in 0 .. n - 1
  BY DEF Gap

LEMMA ListIsShort ==
  ASSUME TurnConstants, NEW p, Listed(p)
  PROVE  Len(p) \in Nat /\ Len(p) <= All
  <1>1. Len(p) \in Nat /\ p \in [1 .. Len(p) -> Accounts]
    BY DEF Listed
  <1>2. p \in Injection(1 .. Len(p), Accounts)
    BY <1>1 DEF Listed, Injection, IsInjective
  <1>3. Cardinality(1 .. Len(p)) <= All
    BY <1>2, FS_Injection DEF TurnConstants, All
  <1>4. Cardinality(1 .. Len(p)) = Len(p)
    BY <1>1, FS_Interval
  <1> QED BY <1>1, <1>3, <1>4

LEMMA FirstList ==
  ASSUME TurnConstants
  PROVE  Listed(Turn!SetToSeq(Accounts))
  <1> DEFINE Lists == {f \in [1 .. All -> Accounts] : Turn!IsInjective(f)}
  <1>1. PICK f \in Bijection(1 .. All, Accounts) : TRUE
    BY FS_CardinalityType DEF TurnConstants, All, ExistsBijection
  <1>2. f \in [1 .. All -> Accounts] /\ Turn!IsInjective(f)
    BY <1>1 DEF Bijection, Injection, IsInjective, Turn!IsInjective
  <1>3. Turn!SetToSeq(Accounts) \in [1 .. All -> Accounts]
        /\ Turn!IsInjective(Turn!SetToSeq(Accounts))
    <2>1. Turn!Cardinality(Accounts) = All
      BY SameTurnCount DEF All
    <2> QED BY <1>2, <2>1, Zenon DEF Turn!SetToSeq
  <1>4. All \in Nat /\ All >= 1
    BY AllIsNat
  <1> HIDE DEF Lists
  <1>5. Turn!SetToSeq(Accounts) \in Seq(Accounts) /\ Len(Turn!SetToSeq(Accounts)) = All
    BY <1>3, <1>4
  <1> QED BY <1>3, <1>4, <1>5 DEF Listed, Turn!IsInjective

LEMMA LongerList ==
  ASSUME NEW p, Listed(p), NEW a \in Accounts, \A i \in 1 .. Len(p) : p[i] # a
  PROVE  LET q == Append(p, a) IN
         /\ Listed(q) /\ Len(q) = Len(p) + 1 /\ q[Len(p) + 1] = a
         /\ \A i \in 1 .. Len(p) : q[i] = p[i]
  BY DEF Listed

LEMMA ShorterList ==
  ASSUME NEW p, Listed(p), Len(p) > 1, NEW k \in 1 .. Len(p)
  PROVE  LET q == Turn!RemoveAt(p, k) IN
         /\ Listed(q) /\ Len(q) = Len(p) - 1
         /\ \A i \in 1 .. Len(p) - 1 : q[i] = IF i < k THEN p[i] ELSE p[i + 1]
  <1> DEFINE a == SubSeq(p, 1, k - 1)
             b == SubSeq(p, k + 1, Len(p))
             q == Turn!RemoveAt(p, k)
  <1>1. /\ k \in Nat /\ 1 <= k /\ k <= Len(p) /\ Len(p) \in Nat
        /\ \A i \in 1 .. Len(p) : p[i] \in Accounts
    BY DEF Listed
  <1>2. a \in Seq(Accounts) /\ Len(a) = k - 1 /\ \A i \in 1 .. k - 1 : a[i] = p[i]
    BY <1>1 DEF Listed
  <1>3. b \in Seq(Accounts) /\ Len(b) = Len(p) - k /\ \A i \in 1 .. Len(p) - k : b[i] = p[k + i]
    BY <1>1 DEF Listed
  <1>4. q = a \o b
    BY DEF Turn!RemoveAt
  <1> HIDE DEF a, b, q
  <1>5. /\ q \in Seq(Accounts) /\ Len(q) = Len(p) - 1
        /\ \A i \in 1 .. Len(q) : q[i] = IF i <= Len(a) THEN a[i] ELSE b[i - Len(a)]
    BY <1>1, <1>2, <1>3, <1>4
  <1>6. \A i \in 1 .. Len(p) - 1 : q[i] = IF i < k THEN p[i] ELSE p[i + 1]
    <2> SUFFICES ASSUME NEW i \in 1 .. Len(p) - 1
                 PROVE  q[i] = IF i < k THEN p[i] ELSE p[i + 1]
      OBVIOUS
    <2>1. CASE i < k BY <2>1, <1>1, <1>2, <1>5
    <2>2. CASE ~(i < k)
      <3>1. i - (k - 1) \in 1 .. Len(p) - k /\ k + (i - (k - 1)) = i + 1
        BY <2>2, <1>1
      <3>2. i \in 1 .. Len(q) /\ ~(i <= Len(a)) /\ i - Len(a) = i - (k - 1)
        BY <2>2, <1>1, <1>2, <1>5
      <3>3. q[i] = b[i - (k - 1)]
        BY <3>2, <1>5
      <3>4. b[i - (k - 1)] = p[i + 1]
        BY <3>1, <1>3
      <3> QED BY <2>2, <3>3, <3>4
    <2> QED BY <2>1, <2>2
  <1>7. \A i, j \in 1 .. Len(q) : q[i] = q[j] => i = j
    <2> SUFFICES ASSUME NEW i \in 1 .. Len(q), NEW j \in 1 .. Len(q), q[i] = q[j]
                 PROVE  i = j
      OBVIOUS
    <2> DEFINE from(x) == IF x < k THEN x ELSE x + 1
    <2>1. from(i) \in 1 .. Len(p) /\ from(j) \in 1 .. Len(p)
      BY <1>1, <1>5
    <2>2. p[from(i)] = q[i] /\ p[from(j)] = q[j]
      BY <1>1, <1>5, <1>6
    <2>3. from(i) = from(j)
      BY <2>1, <2>2 DEF Listed
    <2> QED BY <2>3, <1>1, <1>5
  <1>8. Listed(q)
    BY <1>1, <1>5, <1>7 DEF Listed
  <1>9. Len(q) = Len(p) - 1
    BY <1>5
  <1> QED BY <1>6, <1>8, <1>9, Zenon DEF q

-----------------------------------------------------------------------------
(* The choice.                                                             *)

LEMMA Smallest ==
  ASSUME NEW S, S \subseteq Nat, S # {}
  PROVE  \E x \in S : \A y \in S : x <= y
  <1> DEFINE R == OpToRel(<, Nat)
  <1>1. PICK x \in S : \A y \in S : ~(<<y, x>> \in R)
    <2>1. IsWellFoundedOn(R, Nat)
      BY NatLessThanWellFounded
    <2> HIDE DEF R
    <2> QED BY <2>1, WFMin
  <1>2. \A y \in S : x <= y
    <2> SUFFICES ASSUME NEW y \in S, y < x  PROVE FALSE
      OBVIOUS
    <2>1. <<y, x>> \in Nat \X Nat /\ <<y, x>>[1] < <<y, x>>[2]
      OBVIOUS
    <2>2. <<y, x>> \in R
      BY <2>1 DEF OpToRel
    <2> QED BY <1>1, <2>2
  <1> QED BY <1>2

LEMMA RoundTheList ==
  ASSUME TurnTypes, NEW i \in 1 .. Len(pool)
  PROVE  /\ Turn!After(i) = IF i < Len(pool) THEN i + 1 ELSE 1
         /\ Turn!Ahead(i) = Gap(cursor, Len(pool), i)
         /\ Turn!Ahead(i) \in 0 .. Len(pool) - 1
  <1> DEFINE n == Len(pool)
             d == i - cursor + n
  <1>1. /\ n \in Nat /\ n >= 1 /\ i \in Nat /\ 1 <= i /\ i <= n
        /\ cursor \in Nat /\ 1 <= cursor /\ cursor <= n
    BY DEF TurnTypes, Listed
  <1>2. Turn!After(i) = (i % n) + 1 /\ Turn!Ahead(i) = d % n
    BY DEF Turn!After, Turn!Ahead
  <1> HIDE DEF n
  <1>3. i % n = IF i < n THEN i ELSE 0
    BY <1>1
  <1>4. d \in Nat /\ d < 2 * n
    BY <1>1
  <1>5. d % n = IF d < n THEN d ELSE d - n
    <2> HIDE DEF d
    <2> QED BY <1>1, <1>4
  <1>6. d % n = Gap(cursor, n, i)
    BY <1>1, <1>5 DEF Gap
  <1>7. Gap(cursor, n, i) \in 0 .. n - 1
    BY <1>1 DEF Gap
  <1> QED BY <1>1, <1>2, <1>3, <1>6, <1>7 DEF n

LEMMA CandidatesListed == \A r : Turn!Candidates(r) \subseteq DOMAIN pool
  BY DEF Turn!Candidates

LEMMA PickIsCandidate ==
  ASSUME TurnConstants, TurnTypes, NEW r, NEW i \in Turn!Picks(r)
  PROVE  /\ i \in Turn!Candidates(r) /\ i \in 1 .. Len(pool)
         /\ strategy = "round-robin" => \A j \in Turn!Candidates(r) : Turn!Ahead(i) <= Turn!Ahead(j)
  <1> DEFINE C == Turn!Candidates(r)
  <1>1. DOMAIN pool = 1 .. Len(pool) /\ C \subseteq 1 .. Len(pool)
    BY CandidatesListed DEF TurnTypes, Listed
  <1>2. strategy \in {"round-robin", "sticky", "custom", "hybrid"}
    BY DEF TurnConstants, TurnTypes
  <1> HIDE DEF C
  <1>3. C # {}
    BY DEF Turn!Picks, C
  <1>4. Turn!Nearest(C) \in C /\ \A j \in C : Turn!Ahead(Turn!Nearest(C)) <= Turn!Ahead(j)
    <2> DEFINE D == {Turn!Ahead(j) : j \in C}
    <2>1. D \subseteq Nat /\ D # {}
      <3>1. \A j \in C : Turn!Ahead(j) \in 0 .. Len(pool) - 1
        BY <1>1, RoundTheList
      <3>2. \A j \in C : Turn!Ahead(j) \in Nat
        BY <3>1
      <3> QED BY <1>3, <3>2
    <2>2. PICK d \in D : \A e \in D : d <= e
      <3> HIDE DEF D
      <3> QED BY <2>1, Smallest
    <2>3. \E k \in C : \A j \in C : Turn!Ahead(k) <= Turn!Ahead(j)
      BY <2>2
    <2> QED BY <2>3, Zenon DEF Turn!Nearest
  <1>5. Turn!Lowest(C) \in C
    <2>1. C \subseteq Nat
      BY <1>1
    <2>2. \E k \in C : \A j \in C : k <= j
      BY <2>1, <1>3, Smallest
    <2> QED BY <2>2, Zenon DEF Turn!Lowest
  <1>6. Turn!Bests(C) \subseteq C
    BY DEF Turn!Bests
  <1>7. Turn!Stays(r) => current \in C
    BY DEF Turn!Stays, C
  <1>8. CASE strategy = "round-robin"
    <2>1. i = Turn!Nearest(C)
      BY <1>3, <1>8 DEF Turn!Picks, C
    <2> QED BY <2>1, <1>1, <1>4 DEF C
  <1>9. CASE strategy = "custom"
    <2>1. i = Turn!Lowest(C)
      BY <1>3, <1>9 DEF Turn!Picks, C
    <2> QED BY <2>1, <1>1, <1>5, <1>9 DEF C
  <1>10. CASE strategy = "sticky"
    <2>1. i = Turn!Lowest(C) \/ i \in C
      BY <1>3, <1>7, <1>10 DEF Turn!Picks, C
    <2> QED BY <2>1, <1>1, <1>5, <1>10 DEF C
  <1>11. CASE strategy = "hybrid"
    <2>1. i \in Turn!Bests(C) \/ i \in C
      BY <1>3, <1>7, <1>11 DEF Turn!Picks, C
    <2> QED BY <2>1, <1>1, <1>6, <1>11 DEF C
  <1> QED BY <1>2, <1>8, <1>9, <1>10, <1>11

-----------------------------------------------------------------------------
(* What the steps do to the list, the objects and the records.             *)

LEMMA PositionsAreAll == Turn!Positions = 1 .. All
  BY SameTurnCount DEF Turn!Positions, All

LEMMA Triable ==
  ASSUME NEW h \in Holding, NEW T
  PROVE  [h EXCEPT !.tried = T] =
           [account |-> h.account, index |-> h.index, paid |-> h.paid, tried |-> T]
  BY DEF Holding

LEMMA IdleHolds ==
  ASSUME TurnConstants, NEW T \in SUBSET (1 .. All)
  PROVE  [Turn!Idle EXCEPT !.tried = T] \in Holding /\ Turn!Idle \in Holding
         /\ [Turn!Idle EXCEPT !.tried = T].account = "none"
         /\ ~[Turn!Idle EXCEPT !.tried = T].paid
         /\ Turn!Idle.account = "none" /\ ~Turn!Idle.paid
  <1>1. Turn!Idle = [account |-> "none", index |-> 0, paid |-> FALSE, tried |-> {}]
    BY DEF Turn!Idle
  <1>2. 0 \in 0 .. All
    BY AllIsNat
  <1>3. Turn!Idle \in Holding
    BY <1>1, <1>2 DEF Holding
  <1> DEFINE h == Turn!Idle
  <1>4. [Turn!Idle EXCEPT !.tried = T] =
          [account |-> h.account, index |-> h.index, paid |-> h.paid, tried |-> T]
    BY <1>3, Triable, Zenon
  <1>5. [Turn!Idle EXCEPT !.tried = T] = [account |-> "none", index |-> 0, paid |-> FALSE, tried |-> T]
    BY <1>1, <1>4, Zenon
  <1> QED BY <1>1, <1>2, <1>3, <1>5 DEF Holding

LEMMA TurnInit ==
  ASSUME TurnConstants, Turn!Init
  PROVE  TrackInv
  <1>1. All \in Nat /\ All >= 1
    BY AllIsNat
  <1>2. Listed(pool) /\ Len(pool) <= All /\ Len(pool) \in Nat /\ Len(pool) >= 1
    BY FirstList, ListIsShort DEF Turn!Init, Listed
  <1>3. bucket = [i \in 1 .. All |-> Cap] /\ score = [i \in 1 .. All |-> Best]
    BY PositionsAreAll DEF Turn!Init
  <1>4. TurnTypes
    <2>1. strategy \in Strategies /\ cursor = 1 /\ current = 1
      BY DEF Turn!Init
    <2>2. Cap \in 0 .. Cap /\ Best \in 0 .. Best
      BY DEF TurnConstants
    <2> QED BY <1>2, <1>3, <2>1, <2>2 DEF TurnTypes
  <1>5. TurnHolds
    BY IdleHolds DEF TurnHolds, Turn!Init
  <1>6. \A i \in 1 .. Len(pool) : pool[i] \in Accounts
    BY <1>2 DEF Listed
  <1>7. InTurn
    BY <1>1, <1>2, <1>6 DEF InTurn, Turn!Init, Gap
  <1>8. Tracked
    <2>1. own = [a \in Accounts |-> [bucket |-> Cap, health |-> Best]]
      BY DEF Turn!Init, Turn!Fresh
    <2>2. Cap \in 0 .. Cap /\ Best \in 0 .. Best
      BY DEF TurnConstants
    <2>3. \A r \in Requests : held[r].account = "none"
      BY IdleHolds DEF Turn!Init
    <2>4. \A i \in 1 .. Len(pool) : i \in 1 .. All
      BY <1>1, <1>2
    <2> QED BY <1>3, <1>6, <2>1, <2>2, <2>3, <2>4 DEF Tracked
  <1> QED BY <1>4, <1>5, <1>7, <1>8 DEF TurnInv, TrackInv

\* An account is chosen: those ahead of it wait one turn more and are one nearer.
LEMMA PickKeeps ==
  ASSUME TurnConstants, TurnInv, NEW r \in Requests, Turn!Pick(r)
  PROVE  TurnInv' /\ (Tracked => Tracked')
  <1>1. PICK i \in Turn!Picks(r) :
          /\ Turn!Take(r, i)
          /\ IF strategy = "round-robin" THEN Turn!Passing(r, i) ELSE UNCHANGED passed
    BY DEF Turn!Pick
  <1>2. UNCHANGED <<strategy, pool, blocked, bucket, score, own>>
    BY DEF Turn!Pick
  <1>3. /\ i \in Turn!Candidates(r) /\ i \in 1 .. Len(pool)
        /\ strategy = "round-robin" => \A j \in Turn!Candidates(r) : Turn!Ahead(i) <= Turn!Ahead(j)
    BY PickIsCandidate DEF TurnInv
  <1>4. /\ Len(pool) \in Nat /\ All \in Nat /\ Len(pool) <= All /\ cursor \in 1 .. Len(pool)
        /\ \A j \in 1 .. Len(pool) : pool[j] \in Accounts
    BY AllIsNat DEF TurnInv, TurnTypes, Listed
  <1>5. Turn!After(i) = IF i < Len(pool) THEN i + 1 ELSE 1
    BY <1>3, RoundTheList DEF TurnInv
  <1>6. cursor' \in 1 .. Len(pool) /\ current' = i
    BY <1>1, <1>3, <1>4, <1>5 DEF Turn!Take
  <1>7. TurnTypes'
    BY <1>2, <1>3, <1>4, <1>6 DEF TurnInv, TurnTypes, Listed
  <1>8. /\ held' \in [Requests -> Holding] /\ held'[r].account = pool[i] /\ held'[r].index = i
        /\ ~held'[r].paid /\ \A q \in Requests \ {r} : held'[q] = held[q]
    <2>1. held \in [Requests -> Holding] /\ held[r] \in Holding
      BY DEF TurnInv, TurnHolds
    <2> DEFINE h == [account |-> pool[i], index |-> i, paid |-> FALSE, tried |-> held[r].tried]
    <2>3. held' = [held EXCEPT ![r] = h]
      BY <1>1 DEF Turn!Take
    <2>4. h \in Holding /\ i \in 0 .. All
      BY <1>3, <1>4, <2>1 DEF Holding
    <2> QED BY <2>1, <2>3, <2>4
  <1>9. TurnHolds'
    <2>1. i \in 1 .. All
      BY <1>3, <1>4
    <2>2. \A q \in Requests : held'[q] = held[q] \/ q = r
      BY <1>8
    <2> QED BY <1>8, <2>1, <2>2 DEF TurnInv, TurnHolds
  <1>10. InTurn'
    <2>1. CASE strategy # "round-robin"
      <3>1. UNCHANGED passed /\ \A a \in Accounts : passed[a] = 0
        BY <1>1, <2>1 DEF TurnInv, InTurn
      <3> QED BY <1>2, <1>4, <1>6, <2>1, <3>1 DEF TurnInv, InTurn, Gap
    <2>2. CASE strategy = "round-robin"
      <3>1. /\ passed' = [a \in Accounts |->
               IF \E j \in Turn!Candidates(r) : j # i /\ pool[j] = a THEN passed[a] + 1 ELSE 0]
            /\ cursor' = Turn!After(i)
        BY <1>1, <2>2 DEF Turn!Passing, Turn!Take
      <3>2. passed' \in [Accounts -> Nat]
        BY <3>1 DEF TurnInv, InTurn
      <3>3. \A a \in Accounts : (\A j \in 1 .. Len(pool) : pool[j] # a) => passed'[a] = 0
        BY <3>1, CandidatesListed DEF TurnInv, TurnTypes, Listed
      <3>4. ASSUME NEW j \in 1 .. Len(pool)
            PROVE  passed'[pool[j]] + Gap(cursor', Len(pool), j) < All
        <4>1. passed[pool[j]] + Gap(cursor, Len(pool), j) < All /\ passed[pool[j]] \in Nat
          BY <1>4 DEF TurnInv, InTurn
        <4>2. CASE j \in Turn!Candidates(r) /\ j # i
          <5>1. passed'[pool[j]] = passed[pool[j]] + 1
            BY <1>4, <3>1, <4>2
          <5>2. Gap(cursor, Len(pool), i) <= Gap(cursor, Len(pool), j)
            BY <1>3, <2>2, <4>2, RoundTheList DEF TurnInv
          <5>3. Gap(cursor', Len(pool), j) + 1 <= Gap(cursor, Len(pool), j)
            BY <1>3, <1>4, <1>5, <3>1, <4>2, <5>2 DEF Gap
          <5>4. Gap(cursor', Len(pool), j) \in Int /\ Gap(cursor, Len(pool), j) \in Int
            BY <1>4, <1>6 DEF Gap
          <5> QED BY <1>4, <4>1, <5>1, <5>3, <5>4
        <4>3. CASE ~(j \in Turn!Candidates(r) /\ j # i)
          <5>1. ~\E k \in Turn!Candidates(r) : k # i /\ pool[k] = pool[j]
            BY <4>3, CandidatesListed DEF TurnInv, TurnTypes, Listed
          <5>2. passed'[pool[j]] = 0
            BY <1>4, <3>1, <5>1
          <5>3. Gap(cursor', Len(pool), j) \in 0 .. Len(pool) - 1
            BY <1>4, <1>6, GapIsShort
          <5>4. Gap(cursor', Len(pool), j) < All
            BY <1>4, <5>3
          <5> QED BY <5>2, <5>3, <5>4
        <4> QED BY <4>2, <4>3
      <3> QED BY <1>2, <2>2, <3>2, <3>3, <3>4 DEF InTurn
    <2> QED BY <2>1, <2>2
  <1>11. Tracked => Tracked'
    BY <1>2, <1>3, <1>8 DEF Tracked
  <1> QED BY <1>7, <1>9, <1>10, <1>11 DEF TurnInv

-----------------------------------------------------------------------------
(* What a request does to its object and to the records of its account.    *)

LEMMA Payable ==
  ASSUME NEW h \in Holding, NEW p \in BOOLEAN
  PROVE  [h EXCEPT !.paid = p] =
           [account |-> h.account, index |-> h.index, paid |-> p, tried |-> h.tried]
  BY DEF Holding

LEMMA ObjectChanges ==
  ASSUME TurnHolds, NEW r \in Requests, NEW h \in Holding, held' = [held EXCEPT ![r] = h],
         h.account # "none" => h.index \in 1 .. All,
         h.paid => h.account # "none"
  PROVE  TurnHolds'
  <1>1. held' \in [Requests -> Holding] /\ held'[r] = h
    BY DEF TurnHolds
  <1>2. \A q \in Requests : held'[q] = held[q] \/ q = r
    BY DEF TurnHolds
  <1> QED BY <1>1, <1>2 DEF TurnHolds

\* A step of a request that touches no record.
LEMMA ObjectKeeps ==
  ASSUME TurnConstants, TurnInv, UNCHANGED <<strategy, pool, bucket, score, own, passed>>,
         cursor' \in 1 .. Len(pool), cursor' = cursor \/ strategy # "round-robin",
         current' \in 0 .. Len(pool),
         NEW r \in Requests, NEW h \in Holding, held' = [held EXCEPT ![r] = h],
         h.account = "none", ~h.paid
  PROVE  TurnInv' /\ (Tracked => Tracked')
  <1>1. TurnTypes'
    BY DEF TurnInv, TurnTypes, Listed
  <1>2. TurnHolds'
    BY ObjectChanges DEF TurnInv
  <1>3. /\ Len(pool) \in Nat /\ All \in Nat /\ Len(pool) <= All
        /\ \A j \in 1 .. Len(pool) : pool[j] \in Accounts
    BY AllIsNat DEF TurnInv, TurnTypes, Listed
  <1>4. InTurn'
    BY <1>3 DEF TurnInv, InTurn, Gap
  <1>5. \A q \in Requests : held'[q] = held[q] \/ held'[q].account = "none"
    BY DEF TurnInv, TurnHolds
  <1>6. Tracked => Tracked'
    BY <1>5 DEF Tracked
  <1> QED BY <1>1, <1>2, <1>4, <1>6 DEF TurnInv

\* What is recorded where the object points is recorded for the account.
LEMMA RecordKeeps ==
  ASSUME TurnConstants, TurnInv, UNCHANGED <<strategy, pool, cursor, current, passed>>,
         NEW r \in Requests, held[r].account # "none", NEW b \in 0 .. Cap, NEW k \in 0 .. Best,
         bucket' = [bucket EXCEPT ![held[r].index] = b],
         score' = [score EXCEPT ![held[r].index] = k],
         Tracked => own' = [own EXCEPT ![held[r].account] = [bucket |-> b, health |-> k]],
         NEW h \in Holding, held' = [held EXCEPT ![r] = h],
         h.account # "none" => h.account = held[r].account /\ h.index = held[r].index,
         h.paid => h.account # "none"
  PROVE  TurnInv' /\ (Tracked => Tracked')
  <1>1. held[r].index \in 1 .. All /\ held[r].account \in Accounts
    BY DEF TurnInv, TurnHolds, Holding
  <1>2. TurnTypes'
    BY <1>1 DEF TurnInv, TurnTypes, Listed
  <1>3. TurnHolds'
    BY <1>1, ObjectChanges DEF TurnInv
  <1>4. InTurn'
    BY DEF TurnInv, InTurn
  <1>5. ASSUME Tracked
        PROVE  Tracked'
    <2> DEFINE i == held[r].index
               a == held[r].account
    <2>1. i \in 1 .. Len(pool) /\ pool[i] = a
      BY <1>5 DEF Tracked
    <2>2. own' \in [Accounts -> [bucket : 0 .. Cap, health : 0 .. Best]]
      <3> DEFINE x == [bucket |-> b, health |-> k]
                 R == [bucket : 0 .. Cap, health : 0 .. Best]
      <3>1. x \in R
        OBVIOUS
      <3>2. own \in [Accounts -> R] /\ own' = [own EXCEPT ![a] = x]
        BY <1>5 DEF Tracked
      <3> HIDE DEF x, R
      <3>3. own' \in [Accounts -> R]
        BY <3>1, <3>2
      <3> QED BY <3>3 DEF R
    <2>3. /\ own'[a] = [bucket |-> b, health |-> k]
          /\ \A c \in Accounts : c # a => own'[c] = own[c]
      BY <1>1, <1>5 DEF Tracked
    <2>4. /\ bucket'[i] = b /\ score'[i] = k
          /\ \A j \in 1 .. All : j # i => bucket'[j] = bucket[j] /\ score'[j] = score[j]
      BY <1>1 DEF TurnInv, TurnTypes
    <2>5. /\ Len(pool) \in Nat /\ All \in Nat /\ Len(pool) <= All
          /\ \A j \in 1 .. Len(pool) : pool[j] \in Accounts /\ j \in 1 .. All
          /\ \A j \in 1 .. Len(pool) : j # i => pool[j] # a
      BY <2>1, AllIsNat DEF TurnInv, TurnTypes, Listed
    <2> HIDE DEF i, a
    <2>6. \A j \in 1 .. Len(pool) : own'[pool[j]] = [bucket |-> bucket'[j], health |-> score'[j]]
      BY <1>5, <2>1, <2>3, <2>4, <2>5 DEF Tracked
    <2>7. \A j \in 1 .. All : j > Len(pool) => bucket'[j] = Cap /\ score'[j] = Best
      BY <1>5, <2>1, <2>4, <2>5 DEF Tracked
    <2>8. \A c \in Accounts : (\A j \in 1 .. Len(pool) : pool[j] # c) =>
             own'[c] = [bucket |-> Cap, health |-> Best]
      BY <1>5, <2>1, <2>3 DEF Tracked
    <2>9. \A q \in Requests : held'[q].account # "none" =>
            held'[q].index \in 1 .. Len(pool) /\ pool[held'[q].index] = held'[q].account
      <3>1. \A q \in Requests : held'[q] = held[q] \/ (q = r /\ held'[q] = h)
        BY DEF TurnInv, TurnHolds
      <3> QED BY <1>5, <3>1, <2>1 DEF Tracked, i, a
    <2> QED BY <2>2, <2>6, <2>7, <2>8, <2>9 DEF Tracked
  <1> QED BY <1>2, <1>3, <1>4, <1>5 DEF TurnInv

\* The objects a step of a request leaves behind.
LEMMA EndsWith ==
  ASSUME TurnConstants, TurnInv, NEW r \in Requests, Turn!Ends(r) \/ Turn!GoesOn(r),
         held[r].account # "none"
  PROVE  \E h \in Holding : held' = [held EXCEPT ![r] = h] /\ h.account = "none" /\ ~h.paid
  <1>1. held[r].tried \cup {held[r].index} \in SUBSET (1 .. All)
    BY DEF TurnInv, TurnHolds, Holding
  <1>2. CASE Turn!Ends(r) BY <1>2, <1>1, IdleHolds DEF Turn!Ends
  <1>3. CASE Turn!GoesOn(r) BY <1>3, <1>1, IdleHolds DEF Turn!GoesOn
  <1> QED BY <1>2, <1>3

LEMMA BlockedKeeps ==
  ASSUME TurnConstants, TurnInv, NEW r \in Requests, Turn!PickBlocked(r)
  PROVE  TurnInv' /\ (Tracked => Tracked')
  <1>1. PICK i \in Turn!Oldest(DOMAIN pool \ held[r].tried) :
          /\ current' = i /\ cursor' = Turn!After(i)
          /\ held' = [held EXCEPT ![r].tried = @ \cup {i}]
    BY DEF Turn!PickBlocked
  <1>2. i \in 1 .. Len(pool) /\ Len(pool) \in Nat /\ Len(pool) <= All /\ All \in Nat
    BY AllIsNat DEF Turn!Oldest, TurnInv, TurnTypes, Listed
  <1>3. cursor' \in 1 .. Len(pool) /\ current' \in 0 .. Len(pool)
    BY <1>1, <1>2, RoundTheList DEF TurnInv
  <1>4. held[r] \in Holding /\ held[r].account = "none" /\ ~held[r].paid
    BY DEF Turn!PickBlocked, TurnInv, TurnHolds
  <1> DEFINE T == held[r].tried \cup {i}
             h == [held[r] EXCEPT !.tried = T]
  <1>5. T \in SUBSET (1 .. All)
    BY <1>2, <1>4 DEF Holding
  <1>6. held' = [held EXCEPT ![r] = h]
    BY <1>1
  <1> HIDE DEF T
  <1>7. h = [account |-> held[r].account, index |-> held[r].index, paid |-> held[r].paid, tried |-> T]
    BY <1>4, Triable, Zenon
  <1>8. h \in Holding /\ h.account = "none" /\ ~h.paid
    BY <1>4, <1>5, <1>7 DEF Holding
  <1>9. UNCHANGED <<strategy, pool, bucket, score, own, passed>> /\ strategy # "round-robin"
    BY DEF Turn!PickBlocked
  <1> HIDE DEF h
  <1> QED BY <1>3, <1>6, <1>8, <1>9, ObjectKeeps

LEMMA ExhaustKeeps ==
  ASSUME TurnConstants, TurnInv, NEW r \in Requests, Turn!Exhaust(r)
  PROVE  TurnInv' /\ (Tracked => Tracked')
  <1>1. /\ held' = [held EXCEPT ![r] = Turn!Idle]
        /\ UNCHANGED <<strategy, pool, cursor, current, bucket, score, own, passed>>
    BY DEF Turn!Exhaust, Turn!Ends
  <1>2. Turn!Idle \in Holding /\ Turn!Idle.account = "none" /\ ~Turn!Idle.paid
    BY IdleHolds
  <1>3. cursor' \in 1 .. Len(pool) /\ current' \in 0 .. Len(pool)
    BY <1>1 DEF TurnInv, TurnTypes
  <1> QED BY <1>1, <1>2, <1>3, ObjectKeeps

\* Where a request's records go, whatever is recorded there.
LEMMA RecordedAt ==
  ASSUME TurnConstants, TurnInv, NEW r \in Requests, held[r].account # "none"
  PROVE  /\ held[r].index \in 1 .. All /\ held[r].account \in Accounts
         /\ bucket[held[r].index] \in 0 .. Cap /\ score[held[r].index] \in 0 .. Best
         /\ Tracked => own[held[r].account] =
               [bucket |-> bucket[held[r].index], health |-> score[held[r].index]]
  BY DEF TurnInv, TurnHolds, TurnTypes, Holding, Tracked

LEMMA InBounds ==
  ASSUME TurnConstants
  PROVE  /\ \A b \in 0 .. Cap : {Turn!Less(b), Turn!More(b), Turn!Drained(b), Turn!Same(b)} \subseteq 0 .. Cap
         /\ \A k \in 0 .. Best : {Turn!Worse(k), Turn!Better(k), Turn!Same(k)} \subseteq 0 .. Best
  <1>1. Cap \in Nat /\ Best \in Nat
    BY DEF TurnConstants
  <1> QED BY <1>1 DEF Turn!Less, Turn!More, Turn!Drained, Turn!Same, Turn!Worse, Turn!Better

LEMMA ConsumeKeeps ==
  ASSUME TurnConstants, TurnInv, NEW r \in Requests, Turn!Consume(r)
  PROVE  TurnInv' /\ (Tracked => Tracked')
  <1>1. /\ UNCHANGED <<strategy, pool, cursor, current, passed>>
        /\ held[r].account # "none"
    BY DEF Turn!Consume
  <1>2. CASE bucket[held[r].index] >= 1
    <2> DEFINE i == held[r].index
               a == held[r].account
               b == Turn!Less(bucket[i])
               h == [held[r] EXCEPT !.paid = TRUE]
    <2>1. Turn!Records(r, Turn!Less, Turn!Same) /\ held' = [held EXCEPT ![r] = h]
      BY <1>2 DEF Turn!Consume
    <2>2. /\ bucket' = [bucket EXCEPT ![i] = b] /\ score' = [score EXCEPT ![i] = score[i]]
          /\ own' = [own EXCEPT ![a] = [bucket |-> Turn!Less(own[a].bucket), health |-> own[a].health]]
      BY <2>1 DEF Turn!Records, Turn!Same
    <2> HIDE DEF b
    <2>0. /\ bucket[i] \in 0 .. Cap /\ score[i] \in 0 .. Best
          /\ Tracked => own[a] = [bucket |-> bucket[i], health |-> score[i]]
      BY <1>1, RecordedAt
    <2>3. b \in 0 .. Cap /\ score[i] \in 0 .. Best
      BY <2>0, InBounds DEF b
    <2>4. Tracked => own' = [own EXCEPT ![a] = [bucket |-> b, health |-> score[i]]]
      <3> SUFFICES ASSUME Tracked  PROVE own' = [own EXCEPT ![a] = [bucket |-> b, health |-> score[i]]]
        OBVIOUS
      <3>1. own[a].bucket = bucket[i] /\ own[a].health = score[i]
        BY <2>0
      <3> QED BY <2>2, <3>1, Zenon DEF b
    <2>5. held[r] \in Holding
      BY DEF TurnInv, TurnHolds
    <2>6. h = [account |-> held[r].account, index |-> held[r].index, paid |-> TRUE, tried |-> held[r].tried]
      BY <2>5, Payable, Zenon
    <2>7. h \in Holding /\ h.account = held[r].account /\ h.index = held[r].index
      BY <2>5, <2>6 DEF Holding
    <2> HIDE DEF h, b
    <2> QED BY <1>1, <2>1, <2>2, <2>3, <2>4, <2>7, RecordKeeps
  <1>3. CASE ~(bucket[held[r].index] >= 1)
    <2>1. Turn!GoesOn(r) /\ UNCHANGED <<bucket, score, own>>
      BY <1>3 DEF Turn!Consume, Turn!GoesOn
    <2>2. PICK h \in Holding : held' = [held EXCEPT ![r] = h] /\ h.account = "none" /\ ~h.paid
      BY <1>1, <2>1, EndsWith
    <2>3. cursor' \in 1 .. Len(pool) /\ current' \in 0 .. Len(pool)
      BY <1>1 DEF TurnInv, TurnTypes
    <2> QED BY <1>1, <2>1, <2>2, <2>3, ObjectKeeps
  <1> QED BY <1>2, <1>3

LEMMA ServeKeeps ==
  ASSUME TurnConstants, TurnInv, NEW r \in Requests, Turn!Serve(r)
  PROVE  TurnInv' /\ (Tracked => Tracked')
  <1> DEFINE i == held[r].index
             a == held[r].account
  <1>1. /\ UNCHANGED <<strategy, pool, cursor, current, passed>>
        /\ held[r].account # "none"
    BY DEF Turn!Serve, TurnInv, TurnHolds
  <1>2. PICK h \in Holding : held' = [held EXCEPT ![r] = h] /\ h.account = "none" /\ ~h.paid
    BY <1>1, EndsWith DEF Turn!Serve
  <1>3. /\ bucket[i] \in 0 .. Cap /\ score[i] \in 0 .. Best
        /\ Tracked => own[a] = [bucket |-> bucket[i], health |-> score[i]]
    BY <1>1, RecordedAt
  <1>4. ASSUME Turn!Records(r, Turn!Same, Turn!Better)
        PROVE  TurnInv' /\ (Tracked => Tracked')
    <2> DEFINE b == Turn!Same(bucket[i])
               k == Turn!Better(score[i])
    <2>1. /\ bucket' = [bucket EXCEPT ![i] = b] /\ score' = [score EXCEPT ![i] = k]
          /\ own' = [own EXCEPT ![a] = [bucket |-> Turn!Same(own[a].bucket), health |-> Turn!Better(own[a].health)]]
      BY <1>4 DEF Turn!Records
    <2> HIDE DEF b, k
    <2>2. b \in 0 .. Cap /\ k \in 0 .. Best
      BY <1>3, InBounds DEF b, k
    <2>3. Tracked => own' = [own EXCEPT ![a] = [bucket |-> b, health |-> k]]
      <3> SUFFICES ASSUME Tracked  PROVE own' = [own EXCEPT ![a] = [bucket |-> b, health |-> k]]
        OBVIOUS
      <3>1. own[a].bucket = bucket[i] /\ own[a].health = score[i]
        BY <1>3
      <3> QED BY <2>1, <3>1, Zenon DEF b, k
    <2> QED BY <1>1, <1>2, <2>1, <2>2, <2>3, RecordKeeps
  <1> QED BY <1>4 DEF Turn!Serve

LEMMA FailKeeps ==
  ASSUME TurnConstants, TurnInv, NEW r \in Requests, Turn!Fail(r)
  PROVE  TurnInv' /\ (Tracked => Tracked')
  <1> DEFINE i == held[r].index
             a == held[r].account
  <1>1. /\ UNCHANGED <<strategy, pool, cursor, current, passed>>
        /\ held[r].account # "none"
    BY DEF Turn!Fail, TurnInv, TurnHolds
  <1>2. PICK h \in Holding : held' = [held EXCEPT ![r] = h] /\ h.account = "none" /\ ~h.paid
    BY <1>1, EndsWith DEF Turn!Fail
  <1>3. /\ bucket[i] \in 0 .. Cap /\ score[i] \in 0 .. Best
        /\ Tracked => own[a] = [bucket |-> bucket[i], health |-> score[i]]
    BY <1>1, RecordedAt
  <1>4. ASSUME Turn!Records(r, Turn!More, Turn!Worse)
        PROVE  TurnInv' /\ (Tracked => Tracked')
    <2> DEFINE b == Turn!More(bucket[i])
               k == Turn!Worse(score[i])
    <2>1. /\ bucket' = [bucket EXCEPT ![i] = b] /\ score' = [score EXCEPT ![i] = k]
          /\ own' = [own EXCEPT ![a] = [bucket |-> Turn!More(own[a].bucket), health |-> Turn!Worse(own[a].health)]]
      BY <1>4 DEF Turn!Records
    <2> HIDE DEF b, k
    <2>2. b \in 0 .. Cap /\ k \in 0 .. Best
      BY <1>3, InBounds DEF b, k
    <2>3. Tracked => own' = [own EXCEPT ![a] = [bucket |-> b, health |-> k]]
      <3> SUFFICES ASSUME Tracked  PROVE own' = [own EXCEPT ![a] = [bucket |-> b, health |-> k]]
        OBVIOUS
      <3>1. own[a].bucket = bucket[i] /\ own[a].health = score[i]
        BY <1>3
      <3> QED BY <2>1, <3>1, Zenon DEF b, k
    <2> QED BY <1>1, <1>2, <2>1, <2>2, <2>3, RecordKeeps
  <1>5. ASSUME Turn!Records(r, Turn!Same, Turn!Worse)
        PROVE  TurnInv' /\ (Tracked => Tracked')
    <2> DEFINE b == Turn!Same(bucket[i])
               k == Turn!Worse(score[i])
    <2>1. /\ bucket' = [bucket EXCEPT ![i] = b] /\ score' = [score EXCEPT ![i] = k]
          /\ own' = [own EXCEPT ![a] = [bucket |-> Turn!Same(own[a].bucket), health |-> Turn!Worse(own[a].health)]]
      BY <1>5 DEF Turn!Records
    <2> HIDE DEF b, k
    <2>2. b \in 0 .. Cap /\ k \in 0 .. Best
      BY <1>3, InBounds DEF b, k
    <2>3. Tracked => own' = [own EXCEPT ![a] = [bucket |-> b, health |-> k]]
      <3> SUFFICES ASSUME Tracked  PROVE own' = [own EXCEPT ![a] = [bucket |-> b, health |-> k]]
        OBVIOUS
      <3>1. own[a].bucket = bucket[i] /\ own[a].health = score[i]
        BY <1>3
      <3> QED BY <2>1, <3>1, Zenon DEF b, k
    <2> QED BY <1>1, <1>2, <2>1, <2>2, <2>3, RecordKeeps
  <1> QED BY <1>4, <1>5 DEF Turn!Fail

LEMMA LimitKeeps ==
  ASSUME TurnConstants, TurnInv, NEW r \in Requests, Turn!Limit(r)
  PROVE  TurnInv' /\ (Tracked => Tracked')
  <1> DEFINE i == held[r].index
             a == held[r].account
  <1>1. /\ UNCHANGED <<strategy, pool, cursor, current, passed>>
        /\ held[r].account # "none"
    BY DEF Turn!Limit, TurnInv, TurnHolds
  <1>2. PICK h \in Holding : held' = [held EXCEPT ![r] = h] /\ h.account = "none" /\ ~h.paid
    BY <1>1, EndsWith DEF Turn!Limit
  <1>3. /\ bucket[i] \in 0 .. Cap /\ score[i] \in 0 .. Best
        /\ Tracked => own[a] = [bucket |-> bucket[i], health |-> score[i]]
    BY <1>1, RecordedAt
  <1>4. ASSUME Turn!Records(r, Turn!Drained, Turn!Worse)
        PROVE  TurnInv' /\ (Tracked => Tracked')
    <2> DEFINE b == Turn!Drained(bucket[i])
               k == Turn!Worse(score[i])
    <2>1. /\ bucket' = [bucket EXCEPT ![i] = b] /\ score' = [score EXCEPT ![i] = k]
          /\ own' = [own EXCEPT ![a] = [bucket |-> Turn!Drained(own[a].bucket), health |-> Turn!Worse(own[a].health)]]
      BY <1>4 DEF Turn!Records
    <2> HIDE DEF b, k
    <2>2. b \in 0 .. Cap /\ k \in 0 .. Best
      BY <1>3, InBounds DEF b, k
    <2>3. Tracked => own' = [own EXCEPT ![a] = [bucket |-> b, health |-> k]]
      <3> SUFFICES ASSUME Tracked  PROVE own' = [own EXCEPT ![a] = [bucket |-> b, health |-> k]]
        OBVIOUS
      <3>1. own[a].bucket = bucket[i] /\ own[a].health = score[i]
        BY <1>3
      <3> QED BY <2>1, <3>1, Zenon DEF b, k
    <2> QED BY <1>1, <1>2, <2>1, <2>2, <2>3, RecordKeeps
  <1> QED BY <1>4 DEF Turn!Limit

-----------------------------------------------------------------------------
(* Time, the user and other processes.                                     *)

\* An account in the list recovers with its position; behind it nothing has to.
LEMMA RefillKeeps ==
  ASSUME TurnConstants, TurnInv, NEW i \in 1 .. All, Turn!Refill(i)
  PROVE  TurnInv' /\ (Tracked => Tracked')
  <1> DEFINE b == Turn!More(bucket[i])
             k == Turn!Better(score[i])
             x == [bucket |-> b, health |-> k]
  <1>1. /\ bucket' = [bucket EXCEPT ![i] = b] /\ score' = [score EXCEPT ![i] = k]
        /\ UNCHANGED <<strategy, pool, cursor, current, held, passed>>
        /\ bucket[i] < Cap \/ score[i] < Best
    BY DEF Turn!Refill, Turn!Recovers
  <1>2. i \in 1 .. Len(pool) =>
          own' = [own EXCEPT ![pool[i]] = [bucket |-> Turn!More(own[pool[i]].bucket),
                                           health |-> Turn!Better(own[pool[i]].health)]]
    <2>1. DOMAIN pool = 1 .. Len(pool)
      BY DEF TurnInv, TurnTypes, Listed
    <2>2. i \in DOMAIN pool =>
            own' = [own EXCEPT ![pool[i]] = [bucket |-> Turn!More(own[pool[i]].bucket),
                                             health |-> Turn!Better(own[pool[i]].health)]]
      BY Zenon DEF Turn!Refill, Turn!Recovers
    <2> QED BY <2>1, <2>2, Zenon
  <1>3. bucket[i] \in 0 .. Cap /\ score[i] \in 0 .. Best
    BY DEF TurnInv, TurnTypes
  <1> HIDE DEF b, k
  <1>4. b \in 0 .. Cap /\ k \in 0 .. Best
    BY <1>3, InBounds DEF b, k
  <1>5. /\ bucket' \in [1 .. All -> 0 .. Cap] /\ score' \in [1 .. All -> 0 .. Best]
        /\ bucket'[i] = b /\ score'[i] = k
        /\ \A j \in 1 .. All : j # i => bucket'[j] = bucket[j] /\ score'[j] = score[j]
    BY <1>1, <1>4 DEF TurnInv, TurnTypes
  <1>6. TurnTypes' /\ TurnHolds' /\ InTurn'
    BY <1>1, <1>5 DEF TurnInv, TurnTypes, TurnHolds, InTurn, Listed
  <1>7. ASSUME Tracked
        PROVE  Tracked'
    <2>1. /\ Len(pool) \in Nat /\ All \in Nat /\ Len(pool) <= All /\ Cap \in Nat /\ Best \in Nat
          /\ \A j \in 1 .. Len(pool) : pool[j] \in Accounts /\ j \in 1 .. All
      BY AllIsNat DEF TurnInv, TurnTypes, Listed, TurnConstants
    <2>2. i \in 1 .. Len(pool)
      BY <1>1, <1>7, <2>1 DEF Tracked
    <2>3. own[pool[i]] = [bucket |-> bucket[i], health |-> score[i]]
      BY <1>7, <2>2 DEF Tracked
    <2>4. own' = [own EXCEPT ![pool[i]] = x]
      <3>1. own[pool[i]].bucket = bucket[i] /\ own[pool[i]].health = score[i]
        BY <2>3
      <3> QED BY <1>2, <2>2, <3>1, Zenon DEF b, k
    <2>5. x \in [bucket : 0 .. Cap, health : 0 .. Best]
      BY <1>4
    <2> DEFINE R == [bucket : 0 .. Cap, health : 0 .. Best]
    <2>6. own \in [Accounts -> R] /\ x \in R
      BY <1>7, <2>5 DEF Tracked
    <2>7. \A j \in 1 .. Len(pool) : j # i => pool[j] # pool[i]
      BY <2>2 DEF TurnInv, TurnTypes, Listed
    <2>8. x = [bucket |-> bucket'[i], health |-> score'[i]]
      BY <1>5
    <2> HIDE DEF x, R
    <2>9. /\ own' \in [Accounts -> R] /\ own'[pool[i]] = x
          /\ \A c \in Accounts : c # pool[i] => own'[c] = own[c]
      BY <2>1, <2>2, <2>4, <2>6
    <2>10. \A j \in 1 .. Len(pool) : own'[pool[j]] = [bucket |-> bucket'[j], health |-> score'[j]]
      <3>1. \A j \in 1 .. Len(pool) : j # i => own'[pool[j]] = own[pool[j]] /\ j \in 1 .. All
        BY <2>1, <2>7, <2>9
      <3>2. \A j \in 1 .. Len(pool) : j # i => own'[pool[j]] = [bucket |-> bucket'[j], health |-> score'[j]]
        BY <1>5, <1>7, <3>1 DEF Tracked
      <3> QED BY <2>8, <2>9, <3>2
    <2>11. \A j \in 1 .. All : j > Len(pool) => bucket'[j] = Cap /\ score'[j] = Best
      <3>1. \A j \in 1 .. All : j > Len(pool) => j # i
        BY <2>1, <2>2
      <3> QED BY <1>5, <1>7, <3>1 DEF Tracked
    <2>12. \A c \in Accounts : (\A j \in 1 .. Len(pool) : pool[j] # c) =>
             own'[c] = [bucket |-> Cap, health |-> Best]
      BY <1>7, <2>2, <2>9 DEF Tracked
    <2>13. \A q \in Requests : held[q].account # "none" =>
             held[q].index \in 1 .. Len(pool) /\ pool[held[q].index] = held[q].account
      BY <1>7 DEF Tracked
    <2> QED BY <1>1, <2>9, <2>10, <2>11, <2>12, <2>13 DEF Tracked, R
  <1> QED BY <1>6, <1>7 DEF TurnInv

LEMMA UnblockKeeps ==
  ASSUME TurnInv, NEW a, Turn!Unblock(a)
  PROVE  TurnInv' /\ (Tracked => Tracked')
  BY DEF Turn!Unblock, TurnInv, TurnTypes, TurnHolds, InTurn, Tracked, Listed

LEMMA SetActiveKeeps ==
  ASSUME TurnConstants, TurnInv, NEW i, Turn!SetActive(i)
  PROVE  TurnInv' /\ (Tracked => Tracked')
  <1>1. /\ i \in 1 .. Len(pool) /\ cursor' = i /\ current' = i
        /\ passed' = [a \in Accounts |-> 0]
        /\ UNCHANGED <<strategy, pool, bucket, score, held, own>>
    BY DEF Turn!SetActive, TurnInv, TurnTypes, Listed
  <1>2. /\ Len(pool) \in Nat /\ All \in Nat /\ Len(pool) <= All
        /\ \A j \in 1 .. Len(pool) : pool[j] \in Accounts
    BY AllIsNat DEF TurnInv, TurnTypes, Listed
  <1>3. TurnTypes' /\ TurnHolds'
    BY <1>1, <1>2 DEF TurnInv, TurnTypes, TurnHolds, Listed
  <1>4. InTurn'
    BY <1>1, <1>2 DEF InTurn, Gap
  <1>5. Tracked => Tracked'
    BY <1>1 DEF Tracked
  <1> QED BY <1>3, <1>4, <1>5 DEF TurnInv

\* The list is loaded again: the turns begin anew, the objects stay.
LEMMA ReloadKeeps ==
  ASSUME TurnConstants, TurnInv, NEW new, Listed(new), Turn!Reload(new)
  PROVE  /\ TurnInv'
         /\ \A r \in Requests : held'[r].account = held[r].account /\ held'[r].index = held[r].index
  <1>1. /\ pool' = new /\ cursor' = 1 /\ current' = 1
        /\ held' = [r \in Requests |-> [held[r] EXCEPT !.tried = {}]]
        /\ passed' = [a \in Accounts |-> 0]
        /\ UNCHANGED <<strategy, bucket, score>>
    BY DEF Turn!Reload
  <1>2. /\ Len(new) \in Nat /\ All \in Nat /\ Len(new) <= All /\ Len(new) >= 1
        /\ \A j \in 1 .. Len(new) : new[j] \in Accounts
    BY AllIsNat, ListIsShort DEF Listed
  <1>3. TurnTypes'
    BY <1>1, <1>2 DEF TurnInv, TurnTypes, Listed
  <1>4. ASSUME NEW r \in Requests
        PROVE  held'[r] = [account |-> held[r].account, index |-> held[r].index,
                           paid |-> held[r].paid, tried |-> {}]
    <2>1. held[r] \in Holding
      BY DEF TurnInv, TurnHolds
    <2> QED BY <1>1, <2>1, Triable, Zenon
  <1>5. \A r \in Requests : held[r] \in Holding
    BY DEF TurnInv, TurnHolds
  <1>6. \A r \in Requests : held'[r] \in Holding
    <2> SUFFICES ASSUME NEW r \in Requests  PROVE held'[r] \in Holding
      OBVIOUS
    <2> DEFINE h == held[r]
    <2>1. h \in Holding
      BY <1>5
    <2>2. held'[r] = [account |-> h.account, index |-> h.index, paid |-> h.paid, tried |-> {}]
      BY <1>4
    <2> HIDE DEF h
    <2> QED BY <2>1, <2>2 DEF Holding
  <1>7. TurnHolds'
    <2>1. held' \in [Requests -> Holding]
      BY <1>1, <1>6
    <2> QED BY <1>4, <2>1 DEF TurnInv, TurnHolds
  <1>8. InTurn'
    BY <1>1, <1>2 DEF InTurn, Gap
  <1>9. ASSUME NEW r \in Requests
        PROVE  held'[r].account = held[r].account /\ held'[r].index = held[r].index
    <2> DEFINE h == held[r]
    <2>1. held'[r] = [account |-> h.account, index |-> h.index, paid |-> h.paid, tried |-> {}]
      BY <1>4
    <2> HIDE DEF h
    <2>2. held'[r].account = h.account /\ held'[r].index = h.index
      BY <2>1
    <2> QED BY <2>2 DEF h
  <1> QED BY <1>3, <1>7, <1>8, <1>9 DEF TurnInv

LEMMA LoginKeeps ==
  ASSUME TurnConstants, TurnInv, NEW a \in Accounts, Turn!LoginElsewhere(a)
  PROVE  TurnInv' /\ (Tracked => Tracked')
  <1> DEFINE n == Len(pool)
             new == Append(pool, a)
  <1>1. Listed(pool) /\ n \in Nat /\ \A i \in 1 .. n : pool[i] # a
    BY DEF Turn!LoginElsewhere, Turn!InPool, Turn!ToSet, TurnInv, TurnTypes, Listed
  <1>2. /\ Listed(new) /\ Len(new) = n + 1 /\ new[n + 1] = a
        /\ \A i \in 1 .. n : new[i] = pool[i]
    BY <1>1, LongerList
  <1>3. Turn!Reload(new)
    BY DEF Turn!LoginElsewhere
  <1>4. n + 1 <= All /\ All \in Nat
    BY <1>2, AllIsNat, ListIsShort
  <1>5. pool' = new /\ UNCHANGED <<bucket, score, own>>
    BY <1>3 DEF Turn!Reload
  <1> HIDE DEF n, new
  <1>6. /\ TurnInv'
        /\ \A r \in Requests : held'[r].account = held[r].account /\ held'[r].index = held[r].index
    BY <1>2, <1>3, ReloadKeeps
  <1>7. ASSUME Tracked
        PROVE  Tracked'
    <2>1. own[a] = [bucket |-> Cap, health |-> Best]
      BY <1>1, <1>7 DEF Tracked, n
    <2>2. n + 1 \in 1 .. All /\ bucket[n + 1] = Cap /\ score[n + 1] = Best
      <3>1. n + 1 \in 1 .. All /\ n + 1 > n
        BY <1>1, <1>4
      <3> QED BY <1>7, <3>1 DEF Tracked, n
    <2>3. \A i \in 1 .. n + 1 : own[new[i]] = [bucket |-> bucket[i], health |-> score[i]]
      <3> SUFFICES ASSUME NEW i \in 1 .. n + 1
                   PROVE  own[new[i]] = [bucket |-> bucket[i], health |-> score[i]]
        OBVIOUS
      <3>1. CASE i = n + 1 BY <1>2, <2>1, <2>2, <3>1
      <3>2. CASE i \in 1 .. n BY <1>2, <1>7, <3>2 DEF Tracked, n
      <3> QED BY <1>1, <3>1, <3>2
    <2>4. \A i \in 1 .. All : i > n + 1 => bucket[i] = Cap /\ score[i] = Best
      BY <1>1, <1>7 DEF Tracked, n
    <2>5. \A c \in Accounts : (\A i \in 1 .. n + 1 : new[i] # c) =>
            own[c] = [bucket |-> Cap, health |-> Best]
      <3> SUFFICES ASSUME NEW c \in Accounts, \A i \in 1 .. n + 1 : new[i] # c
                   PROVE  own[c] = [bucket |-> Cap, health |-> Best]
        OBVIOUS
      <3>1. \A i \in 1 .. n : i \in 1 .. n + 1
        BY <1>1
      <3>2. \A i \in 1 .. n : pool[i] # c
        BY <1>2, <3>1
      <3> QED BY <1>7, <3>2 DEF Tracked, n
    <2>6. \A r \in Requests : held'[r].account # "none" =>
            held'[r].index \in 1 .. n + 1 /\ new[held'[r].index] = held'[r].account
      <3>1. \A i \in 1 .. n : i \in 1 .. n + 1
        BY <1>1
      <3> QED BY <1>2, <1>6, <1>7, <3>1 DEF Tracked, n
    <2> QED BY <1>2, <1>5, <1>7, <2>3, <2>4, <2>5, <2>6 DEF Tracked
  <1> QED BY <1>6, <1>7

LEMMA RemovedElsewhereKeeps ==
  ASSUME TurnConstants, TurnInv, NEW i, Turn!RemovedElsewhere(i)
  PROVE  TurnInv'
  <1>1. /\ Listed(pool) /\ DOMAIN pool = 1 .. Len(pool)
        /\ i \in DOMAIN pool /\ Len(pool) > 1 /\ Turn!Reload(Turn!RemoveAt(pool, i))
    <2>1. Listed(pool) /\ DOMAIN pool = 1 .. Len(pool)
      BY DEF TurnInv, TurnTypes, Listed
    <2>2. i \in DOMAIN pool /\ Len(pool) > 1 /\ Turn!Reload(Turn!RemoveAt(pool, i))
      BY Zenon DEF Turn!RemovedElsewhere
    <2> QED BY <2>1, <2>2
  <1>2. Listed(Turn!RemoveAt(pool, i))
    BY <1>1, ShorterList
  <1> QED BY <1>1, <1>2, ReloadKeeps

LEMMA Movable ==
  ASSUME NEW h \in Holding, NEW i
  PROVE  [h EXCEPT !.index = i] =
           [account |-> h.account, index |-> i, paid |-> h.paid, tried |-> h.tried]
  BY DEF Holding

\* The objects after the removal of the account at i.
LEMMA ObjectsMove ==
  ASSUME TurnConstants, TurnInv, NEW i \in 1 .. All, Turn!RemoveAccount(i)
  PROVE  /\ TurnHolds'
         /\ \A r \in Requests :
              /\ held'[r].account = held[r].account
              /\ held'[r].index = IF held[r].index > i /\ Turn!InPool(held[r].account)
                                  THEN held[r].index - 1 ELSE held[r].index
  <1> DEFINE to(r) == IF held[r].index > i /\ Turn!InPool(held[r].account)
                      THEN held[r].index - 1 ELSE held[r].index
  <1>1. held' = [r \in Requests |-> [held[r] EXCEPT !.index = to(r), !.tried = {}]]
    BY DEF Turn!RemoveAccount
  <1>2. ASSUME NEW r \in Requests
        PROVE  /\ held'[r] \in Holding
               /\ held'[r].account = held[r].account /\ held'[r].index = to(r)
               /\ held'[r].paid = held[r].paid
               /\ held[r].account # "none" => to(r) \in 1 .. All
    <2> DEFINE h == held[r]
               g == [h EXCEPT !.index = to(r)]
    <2>1. h \in Holding /\ (h.account # "none" => h.index \in 1 .. All)
      BY DEF TurnInv, TurnHolds
    <2>2. to(r) \in 0 .. All /\ (h.account # "none" => to(r) \in 1 .. All)
      <3>1. h.index \in 0 .. All /\ All \in Nat /\ i \in 1 .. All
        BY <2>1, AllIsNat DEF Holding
      <3> QED BY <2>1, <3>1
    <2>3. held'[r] = [[h EXCEPT !.index = to(r)] EXCEPT !.tried = {}]
      BY <1>1
    <2> HIDE DEF to, h
    <2>4. g = [account |-> h.account, index |-> to(r), paid |-> h.paid, tried |-> h.tried]
      BY <2>1, Movable, Zenon
    <2> HIDE DEF g
    <2>5. g \in Holding /\ g.account = h.account /\ g.index = to(r) /\ g.paid = h.paid
      BY <2>1, <2>2, <2>4 DEF Holding
    <2>6. held'[r] = [account |-> g.account, index |-> g.index, paid |-> g.paid, tried |-> {}]
      BY <2>3, <2>5, Triable, Zenon DEF g
    <2>7. /\ held'[r] \in Holding
          /\ held'[r].account = g.account /\ held'[r].index = g.index /\ held'[r].paid = g.paid
      BY <2>5, <2>6 DEF Holding
    <2> QED BY <2>2, <2>5, <2>7 DEF h
  <1> HIDE DEF to
  <1>3. held' \in [Requests -> Holding]
    BY <1>1, <1>2
  <1>4. TurnHolds'
    BY <1>2, <1>3 DEF TurnInv, TurnHolds
  <1> QED BY <1>2, <1>4 DEF to

LEMMA RemoveKeeps ==
  ASSUME TurnConstants, TurnInv, NEW i \in 1 .. All, Turn!RemoveAccount(i)
  PROVE  TurnInv' /\ (Tracked /\ "late" \notin Hazards => Tracked')
  <1> DEFINE n == Len(pool)
             q == Turn!RemoveAt(pool, i)
             from(j) == IF j < i THEN j ELSE j + 1
  <1>1. /\ Listed(pool) /\ n \in Nat /\ n <= All /\ All \in Nat /\ n > 1
        /\ i \in 1 .. n /\ cursor \in 1 .. n /\ current \in 0 .. n
        /\ \A j \in 1 .. n : pool[j] \in Accounts
    <2>1. Listed(pool) /\ DOMAIN pool = 1 .. n /\ n \in Nat /\ n <= All
          /\ cursor \in 1 .. n /\ current \in 0 .. n
      BY DEF TurnInv, TurnTypes, Listed
    <2>2. i \in DOMAIN pool /\ n > 1
      BY Zenon DEF Turn!RemoveAccount
    <2> QED BY <2>1, <2>2, AllIsNat DEF Listed
  <1>2. /\ Listed(q) /\ Len(q) = n - 1
        /\ \A j \in 1 .. n - 1 : q[j] = pool[from(j)] /\ from(j) \in 1 .. n
    <2>1. /\ Listed(q) /\ Len(q) = n - 1
          /\ \A j \in 1 .. n - 1 : q[j] = IF j < i THEN pool[j] ELSE pool[j + 1]
      <3> HIDE DEF q
      <3> QED BY <1>1, ShorterList DEF q
    <2> HIDE DEF q, n
    <2> QED BY <1>1, <2>1
  <1>3. /\ pool' = q
        /\ cursor' = Turn!CursorAfter(i)
        /\ own' = [own EXCEPT ![pool[i]] = Turn!Fresh]
        /\ passed' = [passed EXCEPT ![pool[i]] = 0]
        /\ strategy' = strategy
        /\ "late" \in Hazards \/ \A r \in Requests : held[r].account # pool[i]
    BY Zenon DEF Turn!RemoveAccount
  <1>4. current' = LET c == IF current > i THEN current - 1 ELSE current
                   IN IF c > n - 1 THEN 0 ELSE c
    BY Zenon DEF Turn!RemoveAccount
  <1>5. /\ bucket' = [j \in 1 .. All |-> IF j < i THEN bucket[j]
                                         ELSE IF j + 1 \in 1 .. All THEN bucket[j + 1] ELSE Cap]
        /\ score' = [j \in 1 .. All |-> IF j < i THEN score[j]
                                        ELSE IF j + 1 \in 1 .. All THEN score[j + 1] ELSE Best]
    <2>1. bucket' = Turn!Remapped(bucket, i, Cap) /\ score' = Turn!Remapped(score, i, Best)
      BY Zenon DEF Turn!RemoveAccount
    <2> QED BY <2>1, PositionsAreAll, Zenon DEF Turn!Remapped
  <1>6. cursor' = LET c == IF cursor > i THEN cursor - 1 ELSE cursor
                  IN IF c > n - 1 THEN 1 ELSE c
    BY <1>3, Zenon DEF Turn!CursorAfter
  <1> HIDE DEF n, q
  <1>7. cursor' \in 1 .. n - 1 /\ current' \in 0 .. n - 1
    BY <1>1, <1>4, <1>6
  <1>8. bucket' \in [1 .. All -> 0 .. Cap] /\ score' \in [1 .. All -> 0 .. Best]
    <2>1. Cap \in 0 .. Cap /\ Best \in 0 .. Best
      BY DEF TurnConstants
    <2>2. bucket \in [1 .. All -> 0 .. Cap] /\ score \in [1 .. All -> 0 .. Best]
      BY DEF TurnInv, TurnTypes
    <2>3. \A j \in 1 .. All : j < i \/ j + 1 \notin 1 .. All \/ j + 1 \in 1 .. All
      OBVIOUS
    <2> QED BY <1>5, <2>1, <2>2
  <1>9. TurnTypes'
    <2>1. Listed(pool') /\ Len(pool') = n - 1 /\ strategy' \in Strategies
      BY <1>2, <1>3 DEF TurnInv, TurnTypes
    <2>2. n - 1 <= All
      BY <1>1
    <2> QED BY <1>7, <1>8, <2>1, <2>2 DEF TurnTypes
  <1>10. TurnHolds'
    BY ObjectsMove
  <1>11. ASSUME NEW j \in 1 .. n - 1
         PROVE  /\ q[j] \in Accounts /\ q[j] # pool[i]
                /\ Gap(cursor', n - 1, j) <= Gap(cursor, n, from(j))
                /\ Gap(cursor', n - 1, j) \in Int /\ Gap(cursor, n, from(j)) \in Int
    <2>1. from(j) \in 1 .. n /\ from(j) # i
      BY <1>1
    <2>2. q[j] \in Accounts /\ q[j] # pool[i]
      BY <1>1, <1>2, <2>1 DEF Listed, n
    <2>3. Gap(cursor', n - 1, j) <= Gap(cursor, n, from(j))
      BY <1>1, <1>6, <2>1 DEF Gap
    <2>4. Gap(cursor', n - 1, j) \in Int /\ Gap(cursor, n, from(j)) \in Int
      BY <1>1, <1>7 DEF Gap
    <2> QED BY <2>2, <2>3, <2>4
  \* Who is in the new list was in the old one, and the other way round but for one.
  <1>12. \A a \in Accounts : (\A j \in 1 .. n - 1 : q[j] # a) =>
           a = pool[i] \/ \A j \in 1 .. n : pool[j] # a
    <2> SUFFICES ASSUME NEW a \in Accounts, \A j \in 1 .. n - 1 : q[j] # a,
                        NEW j \in 1 .. n, pool[j] = a
                 PROVE  a = pool[i]
      BY Zenon
    <2>1. CASE j < i
      <3>1. j \in 1 .. n - 1 /\ from(j) = j
        BY <1>1, <2>1
      <3> QED BY <1>2, <3>1
    <2>2. CASE j > i
      <3>1. j - 1 \in 1 .. n - 1 /\ from(j - 1) = j
        BY <1>1, <2>2
      <3> QED BY <1>2, <3>1
    <2>3. CASE j = i BY <2>3
    <2> QED BY <1>1, <2>1, <2>2, <2>3
  <1>13. InTurn'
    <2>1. /\ passed \in [Accounts -> Nat] /\ pool[i] \in Accounts
          /\ strategy # "round-robin" => \A a \in Accounts : passed[a] = 0
          /\ \A a \in Accounts : (\A j \in 1 .. n : pool[j] # a) => passed[a] = 0
          /\ \A j \in 1 .. n : passed[pool[j]] + Gap(cursor, n, j) < All
      BY <1>1 DEF TurnInv, InTurn, n
    <2>2. /\ passed' \in [Accounts -> Nat] /\ passed'[pool[i]] = 0
          /\ \A a \in Accounts : a # pool[i] => passed'[a] = passed[a]
      BY <1>3, <2>1
    <2>3. strategy' # "round-robin" => \A a \in Accounts : passed'[a] = 0
      BY <1>3, <2>1, <2>2
    <2>4. \A a \in Accounts : (\A j \in 1 .. n - 1 : q[j] # a) => passed'[a] = 0
      BY <1>12, <2>1, <2>2
    <2>5. \A j \in 1 .. n - 1 : passed'[q[j]] + Gap(cursor', n - 1, j) < All
      <3> SUFFICES ASSUME NEW j \in 1 .. n - 1
                   PROVE  passed'[q[j]] + Gap(cursor', n - 1, j) < All
        OBVIOUS
      <3>1. passed'[q[j]] = passed[pool[from(j)]] /\ passed[pool[from(j)]] \in Nat
        BY <1>2, <1>11, <2>1, <2>2
      <3>2. passed[pool[from(j)]] + Gap(cursor, n, from(j)) < All
        BY <1>2, <2>1
      <3> HIDE DEF from
      <3> QED BY <1>1, <1>11, <3>1, <3>2
    <2> QED BY <1>2, <1>3, <2>2, <2>3, <2>4, <2>5 DEF InTurn
  <1>14. ASSUME Tracked, "late" \notin Hazards
         PROVE  Tracked'
    <2> DEFINE R == [bucket : 0 .. Cap, health : 0 .. Best]
               x == [bucket |-> Cap, health |-> Best]
    <2>1. /\ own \in [Accounts -> R]
          /\ \A j \in 1 .. n : own[pool[j]] = [bucket |-> bucket[j], health |-> score[j]]
          /\ \A j \in 1 .. All : j > n => bucket[j] = Cap /\ score[j] = Best
          /\ \A a \in Accounts : (\A j \in 1 .. n : pool[j] # a) => own[a] = x
          /\ \A r \in Requests : held[r].account # "none" =>
               held[r].index \in 1 .. n /\ pool[held[r].index] = held[r].account
      BY <1>14 DEF Tracked, n
    <2>2. x \in R
      BY DEF TurnConstants
    <2>3. own' = [own EXCEPT ![pool[i]] = x]
      BY <1>3, Zenon DEF Turn!Fresh
    <2> HIDE DEF R, x
    <2>4. /\ own' \in [Accounts -> R] /\ own'[pool[i]] = x
          /\ \A a \in Accounts : a # pool[i] => own'[a] = own[a]
      BY <1>1, <2>1, <2>2, <2>3
    <2>5. \A j \in 1 .. n - 1 : own'[q[j]] = [bucket |-> bucket'[j], health |-> score'[j]]
      <3> SUFFICES ASSUME NEW j \in 1 .. n - 1
                   PROVE  own'[q[j]] = [bucket |-> bucket'[j], health |-> score'[j]]
        OBVIOUS
      <3>1. own'[q[j]] = own[pool[from(j)]] /\ from(j) \in 1 .. n
        BY <1>2, <1>11, <2>4
      <3>2. j \in 1 .. All /\ (~(j < i) => j + 1 \in 1 .. All)
        BY <1>1
      <3>3. bucket'[j] = bucket[from(j)] /\ score'[j] = score[from(j)]
        BY <1>5, <3>2
      <3> HIDE DEF from
      <3> QED BY <2>1, <3>1, <3>3
    <2>6. \A j \in 1 .. All : j > n - 1 => bucket'[j] = Cap /\ score'[j] = Best
      <3> SUFFICES ASSUME NEW j \in 1 .. All, j > n - 1
                   PROVE  bucket'[j] = Cap /\ score'[j] = Best
        OBVIOUS
      <3>1. ~(j < i) /\ j + 1 > n
        BY <1>1
      <3> QED BY <1>5, <2>1, <3>1
    <2>7. \A a \in Accounts : (\A j \in 1 .. n - 1 : q[j] # a) => own'[a] = x
      BY <1>12, <2>1, <2>4
    <2>8. ASSUME NEW r \in Requests, held'[r].account # "none"
          PROVE  held'[r].index \in 1 .. n - 1 /\ q[held'[r].index] = held'[r].account
      <3> DEFINE k == held[r].index
      <3>1. /\ held'[r].account = held[r].account
            /\ held'[r].index = IF k > i /\ Turn!InPool(held[r].account) THEN k - 1 ELSE k
        BY ObjectsMove
      <3>2. k \in 1 .. n /\ pool[k] = held[r].account /\ k # i
        BY <1>3, <1>14, <2>1, <2>8, <3>1
      <3>3. Turn!InPool(held[r].account)
        BY <1>1, <3>2 DEF Turn!InPool, Turn!ToSet, n, Listed
      <3> HIDE DEF k
      <3>4. CASE k > i
        <4>1. held'[r].index = k - 1 /\ k - 1 \in 1 .. n - 1 /\ from(k - 1) = k
          BY <1>1, <3>1, <3>2, <3>3, <3>4
        <4> HIDE DEF from
        <4> QED BY <1>2, <3>1, <3>2, <4>1
      <3>5. CASE ~(k > i)
        <4>1. held'[r].index = k /\ k \in 1 .. n - 1 /\ from(k) = k
          BY <1>1, <3>1, <3>2, <3>5
        <4> HIDE DEF from
        <4> QED BY <1>2, <3>1, <3>2, <4>1
      <3> QED BY <3>4, <3>5
    <2> HIDE DEF from
    <2> QED BY <1>2, <1>3, <2>4, <2>5, <2>6, <2>7, <2>8 DEF Tracked, R, x
  <1> QED BY <1>9, <1>10, <1>13, <1>14 DEF TurnInv

-----------------------------------------------------------------------------
\* Every step keeps the turns, and the records where no object outlives its account.
LEMMA TurnNext ==
  ASSUME TurnConstants, TurnInv, [Turn!Next]_Turn!vars
  PROVE  TurnInv' /\ (Tracked /\ Hazards = {} => Tracked')
  <1>1. CASE UNCHANGED Turn!vars
    BY <1>1 DEF Turn!vars, TurnInv, TurnTypes, TurnHolds, InTurn, Tracked, Listed
  <1>2. ASSUME NEW r \in Requests,
               \/ Turn!Pick(r) \/ Turn!PickBlocked(r) \/ Turn!Consume(r) \/ Turn!Serve(r)
               \/ Turn!Fail(r) \/ Turn!Limit(r) \/ Turn!Exhaust(r)
        PROVE  TurnInv' /\ (Tracked => Tracked')
    BY <1>2, PickKeeps, BlockedKeeps, ConsumeKeeps, ServeKeeps, FailKeeps, LimitKeeps,
       ExhaustKeeps
  <1>3. ASSUME NEW i \in 1 .. All, Turn!Refill(i)
        PROVE  TurnInv' /\ (Tracked => Tracked')
    BY <1>3, RefillKeeps
  <1>4. ASSUME NEW i \in 1 .. All, Turn!SetActive(i)
        PROVE  TurnInv' /\ (Tracked => Tracked')
    BY <1>4, SetActiveKeeps
  <1>5. ASSUME NEW i \in 1 .. All, Turn!RemoveAccount(i)
        PROVE  TurnInv' /\ (Tracked /\ Hazards = {} => Tracked')
    <2>1. Hazards = {} => "late" \notin Hazards
      OBVIOUS
    <2> QED BY <1>5, <2>1, RemoveKeeps
  <1>6. ASSUME NEW i \in 1 .. All, Turn!RemovedElsewhere(i)
        PROVE  TurnInv' /\ (Tracked /\ Hazards = {} => Tracked')
    <2>1. "dropped elsewhere" \in Hazards
      BY <1>6, Zenon DEF Turn!RemovedElsewhere
    <2> QED BY <1>6, <2>1, RemovedElsewhereKeeps
  <1>7. ASSUME NEW a \in Accounts, Turn!Unblock(a) \/ Turn!LoginElsewhere(a)
        PROVE  TurnInv' /\ (Tracked => Tracked')
    BY <1>7, UnblockKeeps, LoginKeeps
  <1>8. CASE Turn!Next
    BY <1>2, <1>3, <1>4, <1>5, <1>6, <1>7, <1>8, PositionsAreAll, Zenon DEF Turn!Next
  <1> QED BY <1>1, <1>8

LEMMA TurnImplies ==
  ASSUME TurnConstants, TurnInv
  PROVE  Turn!TypeOK /\ Turn!NoOneSkipped
  <1>1. /\ Listed(pool) /\ DOMAIN pool = 1 .. Len(pool) /\ Len(pool) \in Nat /\ All \in Nat
    BY AllIsNat DEF TurnInv, TurnTypes, Listed
  <1>2. pool # <<>> /\ Turn!IsInjective(pool) /\ Turn!ToSet(pool) \subseteq Accounts
    BY <1>1 DEF Listed, Turn!IsInjective, Turn!ToSet
  <1>3. /\ \A i \in 1 .. All : bucket[i] \in 0 .. Cap /\ score[i] \in 0 .. Best
        /\ cursor \in DOMAIN pool /\ current \in {0} \cup DOMAIN pool
    BY <1>1 DEF TurnInv, TurnTypes
  <1>4. \A r \in Requests : held[r].tried \subseteq 1 .. All
    BY DEF TurnInv, TurnHolds, Holding
  <1>5. Turn!TypeOK
    BY <1>2, <1>3, <1>4, PositionsAreAll DEF Turn!TypeOK
  <1>6. ASSUME NEW a \in Accounts
        PROVE  passed[a] < All
    <2>1. CASE \A i \in 1 .. Len(pool) : pool[i] # a
      <3>1. passed[a] = 0
        BY <2>1 DEF TurnInv, InTurn
      <3> QED BY <3>1, AllIsNat
    <2>2. CASE \E i \in 1 .. Len(pool) : pool[i] = a
      <3>1. PICK i \in 1 .. Len(pool) : pool[i] = a
        BY <2>2
      <3>2. passed[a] + Gap(cursor, Len(pool), i) < All /\ passed[a] \in Nat
        BY <3>1 DEF TurnInv, InTurn
      <3>3. Gap(cursor, Len(pool), i) \in Nat
        BY <1>1, <1>3 DEF Gap
      <3> QED BY <1>1, <3>2, <3>3
    <2> QED BY <2>1, <2>2
  <1>7. Turn!NoOneSkipped
    BY <1>6, SameTurnCount DEF Turn!NoOneSkipped, All
  <1> QED BY <1>5, <1>7

\* Round-robin passes no account over for more than a round, whatever is removed or
\* added on the way and by whom (rotation.ts), for any accounts and requests.
THEOREM NobodyIsSkipped ==
  ASSUME TurnConstants
  PROVE  Turn!Spec => [](Turn!TypeOK /\ Turn!NoOneSkipped)
  <1>1. Turn!Init => TurnInv
    BY TurnInit DEF TrackInv
  <1>2. TurnInv /\ [Turn!Next]_Turn!vars => TurnInv'
    BY TurnNext
  <1>3. TurnInv => Turn!TypeOK /\ Turn!NoOneSkipped
    BY TurnImplies
  <1> QED BY <1>1, <1>2, <1>3, PTL DEF Turn!Spec

\* Removals and sign-ins shift the list, and every account keeps the bucket and the
\* health it has earned (removeAccount, state.ts), as long as no request outlives its
\* account and no other process removes one.
THEOREM AccountsKeepTheirRecord ==
  ASSUME TurnConstants, Hazards = {}
  PROVE  Turn!Spec => []Turn!RotationSafe
  <1>1. Turn!Init => TrackInv
    BY TurnInit
  <1>2. TrackInv /\ [Turn!Next]_Turn!vars => TrackInv'
    BY TurnNext DEF TrackInv
  <1>3. TrackInv => Turn!RotationSafe
    <2>1. TrackInv => Turn!NoOneSkipped
      BY TurnImplies DEF TrackInv
    <2>2. TrackInv => Turn!HistoryFollows
      <3>1. TrackInv => DOMAIN pool = 1 .. Len(pool)
        BY DEF TrackInv, TurnInv, TurnTypes, Listed
      <3> QED BY <3>1 DEF TrackInv, Tracked, Turn!HistoryFollows
    <2> QED BY <2>1, <2>2 DEF Turn!RotationSafe
  <1> QED BY <1>1, <1>2, <1>3, PTL DEF Turn!Spec

-----------------------------------------------------------------------------
(***************************************************************************)
(* The recovery of a session: one repair of a message at a time, and a     *)
(* reported success is one.                                                *)
(***************************************************************************)
Stages == {"idle", "listing", "toast", "prompting", "resuming", "over", "threw"}
Named == Hook!Assistants \cup {"u"}

Handler ==
  [at : Stages, kind : Kinds \cup {"none"}, about : Named, named : BOOLEAN, target : Named,
   seen : SUBSET Hook!Part, result : BOOLEAN, cured : BOOLEAN]

\* Events name their message, the provider counts as the storage does and files can be written.
HookConstants ==
  /\ Kinds \subseteq {"tool", "order", "disabled"} /\ Resume \in BOOLEAN
  /\ Unnamed = FALSE /\ Shift = 0 /\ "write" \notin Faults

HookTypes ==
  /\ parts \in [Hook!Assistants -> SUBSET Hook!Part] /\ newest \in 3 .. 4
  /\ call \in [Calls -> Handler]
  /\ processing \subseteq Hook!Assistants /\ answers \in [Hook!Assistants -> Nat]

Holds(x) == x.at \in {"toast", "prompting", "resuming"}

\* What a handler knows: its event's message is listed, its target is that message, and
\* what it will report has been seen.
Knows(x, stored) ==
  /\ x.at # "idle" => x.about \in stored /\ x.named
  /\ Holds(x) => x.target = x.about
  /\ x.result => x.cured /\ x.at \in {"resuming", "over"}
  /\ x.at = "resuming" => x.cured

\* The marks are those of the calls that repair, each message's its own.
Marked ==
  /\ \A m \in Hook!Assistants : m \in processing <=> \E c \in Calls : Holds(call[c]) /\ call[c].target = m
  /\ \A c, d \in Calls : Holds(call[c]) /\ Holds(call[d]) /\ call[c].target = call[d].target => c = d

\* A prompt is under way for each call that waits for one.
Prompted ==
  \A m \in Hook!Assistants :
    answers[m] = IF \E c \in Calls : call[c].at = "prompting" /\ call[c].target = m THEN 1 ELSE 0

HookInv == HookTypes /\ (\A c \in Calls : Knows(call[c], Hook!Stored)) /\ Marked /\ Prompted

-----------------------------------------------------------------------------
LEMMA MessageNames ==
  /\ Hook!Messages = <<"u", "m1", "m2", "m3">>
  /\ Hook!Messages \in [1 .. 4 -> Named] /\ Len(Hook!Messages) = 4
  /\ \A m \in Named : \E i \in 1 .. 4 : Hook!Messages[i] = m
  /\ \A i \in 1 .. 4 : Hook!Messages[i] = "u" <=> i = 1
  BY DEF Hook!Messages, Named, Hook!Assistants

LEMMA StoredNames ==
  ASSUME newest \in 3 .. 4
  PROVE  Hook!Stored \subseteq Hook!Assistants
  <1>1. \A i \in 2 .. newest : i \in 1 .. 4 /\ i # 1
    OBVIOUS
  <1>2. \A i \in 2 .. newest : Hook!Messages[i] \in Hook!Assistants
    BY <1>1, MessageNames DEF Named
  <1> QED BY <1>2 DEF Hook!Stored

\* A message's place says which message it is.
LEMMA IndexIsNat ==
  ASSUME NEW m \in Named
  PROVE  Hook!IndexOf(m) \in 1 .. 4
  <1>1. \E i \in 1 .. Len(Hook!Messages) : Hook!Messages[i] = m
    BY MessageNames
  <1>2. Hook!IndexOf(m) \in 1 .. Len(Hook!Messages)
    BY <1>1, Zenon DEF Hook!IndexOf
  <1> QED BY <1>2, MessageNames

LEMMA IdleHandler ==
  /\ Hook!Idle \in Handler /\ Hook!Idle.at = "idle" /\ ~Hook!Idle.result
  BY DEF Hook!Idle, Handler, Stages, Named

LEMMA HookInit ==
  ASSUME HookConstants, Hook!Init
  PROVE  HookInv
  <1>1. parts \in [Hook!Assistants -> SUBSET Hook!Part] /\ newest \in 3 .. 4
    BY DEF Hook!Init
  <1>2. call = [c \in Calls |-> Hook!Idle] /\ processing = {} /\ answers = [m \in Hook!Assistants |-> 0]
    BY DEF Hook!Init
  <1>3. \A c \in Calls : Knows(call[c], Hook!Stored) /\ ~Holds(call[c]) /\ call[c].at # "prompting"
    BY <1>2, IdleHandler DEF Knows, Holds
  <1>4. HookTypes
    BY <1>1, <1>2, IdleHandler DEF HookTypes
  <1> QED BY <1>2, <1>3, <1>4 DEF HookInv, Marked, Prompted

-----------------------------------------------------------------------------
(* What a step of a call does to the marks.                                *)

\* The call c goes on as x.
GoesAs(c, x) == x \in Handler /\ call' = [call EXCEPT ![c] = x]

LEMMA OnlyOneMoves ==
  ASSUME HookTypes, NEW c \in Calls, NEW x, GoesAs(c, x)
  PROVE  /\ call' \in [Calls -> Handler] /\ call'[c] = x
         /\ \A d \in Calls : d # c => call'[d] = call[d]
  BY DEF HookTypes, GoesAs

LEMMA OthersKnow ==
  ASSUME HookInv, newest' \in {newest, 4}, NEW c \in Calls, NEW x, GoesAs(c, x), Knows(x, Hook!Stored')
  PROVE  \A d \in Calls : Knows(call[d], Hook!Stored)'
  <1>1. Hook!Stored \subseteq Hook!Stored'
    BY DEF Hook!Stored, HookInv, HookTypes
  <1>2. call'[c] = x /\ \A d \in Calls : d # c => call'[d] = call[d]
    BY OnlyOneMoves DEF HookInv
  <1> QED BY <1>1, <1>2 DEF HookInv, Knows, Holds

LEMMA NothingHeld ==
  ASSUME HookInv, NEW c \in Calls, NEW x, GoesAs(c, x), ~Holds(call[c]), ~Holds(x),
         UNCHANGED <<processing, answers>>
  PROVE  Marked' /\ Prompted'
  <1>1. call'[c] = x /\ \A d \in Calls : d # c => call'[d] = call[d]
    BY OnlyOneMoves DEF HookInv
  <1>2. \A d \in Calls : /\ Holds(call'[d]) <=> Holds(call[d])
                         /\ Holds(call'[d]) => call'[d].target = call[d].target
                         /\ call'[d].at = "prompting" <=> call[d].at = "prompting"
                         /\ call[d].at = "prompting" => Holds(call[d])
    BY <1>1 DEF Holds
  <1>3. Marked'
    BY <1>2 DEF HookInv, Marked
  <1>4. Prompted'
    BY <1>2 DEF HookInv, Prompted
  <1> QED BY <1>3, <1>4

LEMMA NowHeld ==
  ASSUME HookInv, NEW c \in Calls, NEW x, GoesAs(c, x), ~Holds(call[c]), x.at = "toast",
         x.target \in Hook!Assistants \ processing,
         processing' = processing \cup {x.target}, UNCHANGED answers
  PROVE  Marked' /\ Prompted'
  <1>1. call'[c] = x /\ \A d \in Calls : d # c => call'[d] = call[d]
    BY OnlyOneMoves DEF HookInv
  <1>2. Holds(x) /\ \A d \in Calls : call[d].at = "prompting" => Holds(call[d])
    BY DEF Holds
  <1>3. \A d \in Calls : Holds(call[d]) => call[d].target # x.target
    BY DEF HookInv, Marked
  <1>4. Marked'
    BY <1>1, <1>2, <1>3 DEF HookInv, Marked
  <1>5. \A d \in Calls : /\ call'[d].at = "prompting" <=> call[d].at = "prompting"
                         /\ call[d].at = "prompting" => call'[d].target = call[d].target
    BY <1>1, <1>2
  <1>6. Prompted'
    BY <1>5 DEF HookInv, Prompted
  <1> QED BY <1>4, <1>6

LEMMA StillHeld ==
  ASSUME HookInv, NEW c \in Calls, NEW x, GoesAs(c, x), Holds(call[c]), Holds(x),
         x.target = call[c].target, UNCHANGED processing, call[c].at # "prompting",
         x.target \in Hook!Assistants,
         answers' = IF x.at = "prompting" THEN [answers EXCEPT ![x.target] = @ + 1] ELSE answers
  PROVE  Marked' /\ Prompted'
  <1>1. call'[c] = x /\ \A d \in Calls : d # c => call'[d] = call[d]
    BY OnlyOneMoves DEF HookInv
  <1>2. \A d \in Calls : /\ Holds(call'[d]) <=> Holds(call[d])
                         /\ call'[d].target = call[d].target
                         /\ call[d].at = "prompting" => Holds(call[d])
    BY <1>1 DEF Holds
  <1>3. Marked'
    BY <1>2 DEF HookInv, Marked
  <1>4. \A d \in Calls : call[d].at = "prompting" => call[d].target # x.target
    BY <1>2 DEF HookInv, Marked
  <1>5. answers \in [Hook!Assistants -> Nat] /\ answers[x.target] = 0
    BY <1>4 DEF HookInv, HookTypes, Prompted
  <1>6. Prompted'
    <2> SUFFICES ASSUME NEW m \in Hook!Assistants
                 PROVE  answers'[m] = IF \E d \in Calls : call'[d].at = "prompting" /\ call'[d].target = m
                                      THEN 1 ELSE 0
      BY DEF Prompted
    <2>1. CASE x.at = "prompting" /\ m = x.target BY <1>1, <1>5, <2>1
    <2>2. CASE ~(x.at = "prompting" /\ m = x.target)
      <3>1. answers'[m] = answers[m]
        BY <1>5, <2>2
      <3>2. \A d \in Calls : (call'[d].at = "prompting" /\ call'[d].target = m)
                                <=> (call[d].at = "prompting" /\ call[d].target = m)
        BY <1>1, <2>2
      <3> QED BY <3>1, <3>2 DEF HookInv, Prompted
    <2> QED BY <2>1, <2>2
  <1> QED BY <1>3, <1>6

LEMMA LetGo ==
  ASSUME HookInv, NEW c \in Calls, NEW x, GoesAs(c, x), Holds(call[c]), ~Holds(x),
         x.target = call[c].target, call[c].target \in Hook!Assistants,
         processing' = processing \ {call[c].target},
         answers' = IF call[c].at = "prompting" THEN [answers EXCEPT ![call[c].target] = @ - 1] ELSE answers
  PROVE  Marked' /\ Prompted'
  <1> DEFINE t == call[c].target
  <1>1. call'[c] = x /\ \A d \in Calls : d # c => call'[d] = call[d]
    BY OnlyOneMoves DEF HookInv
  <1>2. /\ \A d \in Calls : /\ Holds(call[d]) /\ call[d].target = t => d = c
                            /\ call[d].at = "prompting" => Holds(call[d])
        /\ x.at # "prompting"
    BY DEF HookInv, Marked, Holds
  <1>3. Marked'
    BY <1>1, <1>2 DEF HookInv, Marked
  <1>4. answers \in [Hook!Assistants -> Nat] /\ t \in Hook!Assistants
    BY DEF HookInv, HookTypes
  <1>5. Prompted'
    <2> SUFFICES ASSUME NEW m \in Hook!Assistants
                 PROVE  answers'[m] = IF \E d \in Calls : call'[d].at = "prompting" /\ call'[d].target = m
                                      THEN 1 ELSE 0
      BY DEF Prompted
    <2>1. answers[m] = IF \E d \in Calls : call[d].at = "prompting" /\ call[d].target = m THEN 1 ELSE 0
      BY DEF HookInv, Prompted
    <2>2. CASE m = t
      <3>1. ~\E d \in Calls : call'[d].at = "prompting" /\ call'[d].target = m
        BY <1>1, <1>2, <2>2
      <3>2. CASE call[c].at = "prompting" BY <1>4, <2>1, <2>2, <3>1, <3>2
      <3>3. CASE call[c].at # "prompting" BY <1>2, <2>1, <2>2, <3>1, <3>3
      <3> QED BY <3>2, <3>3
    <2>3. CASE m # t
      <3>1. answers'[m] = answers[m]
        BY <1>4, <2>3
      <3>2. \A d \in Calls : (call'[d].at = "prompting" /\ call'[d].target = m)
                                <=> (call[d].at = "prompting" /\ call[d].target = m)
        BY <1>1, <1>2, <2>3
      <3> QED BY <2>1, <3>1, <3>2
    <2> QED BY <2>2, <2>3
  <1> QED BY <1>3, <1>5

-----------------------------------------------------------------------------
(* What the handler does to what it holds.                                 *)

LEMMA HandlerAt ==
  ASSUME HookInv, NEW c \in Calls
  PROVE  /\ call[c] \in Handler /\ Knows(call[c], Hook!Stored)
         /\ call[c].at \in {"listing", "toast", "prompting"} => ~call[c].result
         /\ Holds(call[c]) => call[c].about \in Hook!Stored /\ call[c].target = call[c].about
         /\ Hook!Stored \subseteq Hook!Assistants
  BY StoredNames DEF HookInv, HookTypes, Knows, Holds

\* A call is over: with what it says, and its mark taken away.
LEMMA OverIs ==
  ASSUME HookInv, NEW c \in Calls, Holds(call[c]),
         NEW result \in BOOLEAN, NEW cured \in BOOLEAN, result => cured,
         Hook!Over(c, result, cured), newest' = newest, parts' \in [Hook!Assistants -> SUBSET Hook!Part],
         answers' = IF call[c].at = "prompting" THEN [answers EXCEPT ![call[c].target] = @ - 1] ELSE answers
  PROVE  HookInv'
  <1> DEFINE h == call[c]
             x == [h EXCEPT !.at = "over", !.result = result, !.cured = cured]
  <1>1. /\ h \in Handler /\ h.about \in Hook!Stored /\ h.target = h.about /\ h.named
        /\ Hook!Stored \subseteq Hook!Assistants
    BY HandlerAt DEF Knows, Holds
  <1>2. call' = [call EXCEPT ![c] = x] /\ processing' = processing \ {h.target}
    BY DEF Hook!Over
  <1> HIDE DEF h
  <1>3. /\ x \in Handler /\ x.at = "over" /\ x.result = result /\ x.cured = cured
        /\ x.about = h.about /\ x.named = h.named /\ x.target = h.target
    BY <1>1 DEF Handler, Stages
  <1> HIDE DEF x
  <1>4. GoesAs(c, x) /\ ~Holds(x) /\ Hook!Stored' = Hook!Stored
    BY <1>2, <1>3 DEF GoesAs, Holds, Hook!Stored
  <1>5. Knows(x, Hook!Stored')
    BY <1>1, <1>3, <1>4 DEF Knows, Holds
  <1>6. \A d \in Calls : Knows(call[d], Hook!Stored)'
    BY <1>4, <1>5, OthersKnow
  <1>7. Marked' /\ Prompted'
    BY <1>1, <1>2, <1>3, <1>4, LetGo DEF h
  <1>8. HookTypes'
    <2>1. call' \in [Calls -> Handler]
      BY <1>4, OnlyOneMoves DEF HookInv
    <2>2. answers' \in [Hook!Assistants -> Nat]
      <3>1. answers \in [Hook!Assistants -> Nat]
        BY DEF HookInv, HookTypes
      <3>2. CASE h.at = "prompting"
        <4>1. h.target \in Hook!Assistants
          BY <1>1
        <4>2. answers[h.target] = 1
          BY <3>2, <4>1 DEF HookInv, Prompted, h
        <4> QED BY <3>1, <3>2, <4>1, <4>2 DEF h
      <3>3. CASE h.at # "prompting" BY <3>1, <3>3 DEF h
      <3> QED BY <3>2, <3>3
    <2> QED BY <1>2, <2>1, <2>2 DEF HookInv, HookTypes
  <1> QED BY <1>6, <1>7, <1>8 DEF HookInv

LEMMA ReportedKeeps ==
  ASSUME HookConstants, HookInv, NEW c \in Calls, Hook!Reported(c)
  PROVE  HookInv'
  <1> DEFINE h == call[c]
  <1>1. PICK kind \in Kinds, m \in Hook!Stored, named \in BOOLEAN :
          /\ ~named => Unnamed
          /\ call' = [call EXCEPT ![c] = [h EXCEPT !.at = "listing", !.kind = kind, !.about = m, !.named = named]]
    BY DEF Hook!Reported
  <1>2. h.at = "idle" /\ UNCHANGED <<parts, newest, processing, answers>>
    BY DEF Hook!Reported
  <1> DEFINE x == [h EXCEPT !.at = "listing", !.kind = kind, !.about = m, !.named = named]
  <1>3. h \in Handler /\ ~h.result /\ Hook!Stored \subseteq Hook!Assistants
    BY <1>2, HandlerAt DEF Knows
  <1> HIDE DEF h
  <1>4. /\ x \in Handler /\ x.at = "listing" /\ x.about = m /\ x.named = named
        /\ x.result = h.result
    <2>1. m \in Named
      BY <1>3 DEF Named
    <2> QED BY <1>3, <2>1 DEF Handler, Stages
  <1> HIDE DEF x
  <1>5. GoesAs(c, x) /\ ~Holds(x) /\ ~Holds(h) /\ Hook!Stored' = Hook!Stored
    BY <1>1, <1>2, <1>4 DEF GoesAs, Holds, Hook!Stored, x
  <1>6. Knows(x, Hook!Stored')
    BY <1>1, <1>3, <1>4, <1>5 DEF Knows, Holds, HookConstants
  <1>7. \A d \in Calls : Knows(call[d], Hook!Stored)'
    BY <1>2, <1>5, <1>6, OthersKnow
  <1>8. Marked' /\ Prompted'
    BY <1>2, <1>5, NothingHeld DEF h
  <1>9. HookTypes'
    BY <1>2, <1>5, OnlyOneMoves DEF HookInv, HookTypes
  <1> QED BY <1>7, <1>8, <1>9 DEF HookInv

LEMMA TurnTaken ==
  ASSUME HookInv, Hook!Turn
  PROVE  HookInv'
  <1>1. newest' = 4 /\ UNCHANGED <<parts, call, processing, answers>>
    BY DEF Hook!Turn
  <1>2. Hook!Stored \subseteq Hook!Stored'
    BY <1>1 DEF Hook!Stored, HookInv, HookTypes
  <1>3. \A d \in Calls : Knows(call[d], Hook!Stored)'
    BY <1>1, <1>2 DEF HookInv, Knows, Holds
  <1> QED BY <1>1, <1>3 DEF HookInv, HookTypes, Marked, Prompted

\* A call that ends before it holds anything.
LEMMA EndsEarly ==
  ASSUME HookInv, NEW c \in Calls, call[c].at = "listing", NEW at \in {"over", "threw"},
         call' = [call EXCEPT ![c].at = at], UNCHANGED <<parts, newest, processing, answers>>
  PROVE  HookInv'
  <1> DEFINE h == call[c]
             x == [h EXCEPT !.at = at]
  <1>1. h \in Handler /\ ~h.result /\ h.about \in Hook!Stored /\ h.named /\ ~Holds(h)
    BY HandlerAt DEF Knows, Holds
  <1>2. call' = [call EXCEPT ![c] = x]
    OBVIOUS
  <1> HIDE DEF h
  <1>3. /\ x \in Handler /\ x.at = at /\ x.about = h.about /\ x.named = h.named
        /\ x.result = h.result
    BY <1>1 DEF Handler, Stages
  <1> HIDE DEF x
  <1>4. GoesAs(c, x) /\ ~Holds(x) /\ Hook!Stored' = Hook!Stored
    BY <1>2, <1>3 DEF GoesAs, Holds, Hook!Stored
  <1>5. Knows(x, Hook!Stored')
    BY <1>1, <1>3, <1>4 DEF Knows, Holds
  <1>6. \A d \in Calls : Knows(call[d], Hook!Stored)'
    BY <1>4, <1>5, OthersKnow
  <1>7. Marked' /\ Prompted'
    BY <1>1, <1>4, NothingHeld DEF h
  <1>8. HookTypes'
    BY <1>4, OnlyOneMoves DEF HookInv, HookTypes
  <1> QED BY <1>6, <1>7, <1>8 DEF HookInv

LEMMA ListedKeeps ==
  ASSUME HookConstants, HookInv, NEW c \in Calls, Hook!Listed(c)
  PROVE  HookInv'
  <1> DEFINE h == call[c]
             t == Hook!Target(c)
  <1>1. h.at = "listing" /\ UNCHANGED <<parts, newest, answers>>
    BY DEF Hook!Listed
  <1>2. /\ h \in Handler /\ ~h.result /\ h.about \in Hook!Stored /\ h.named /\ ~Holds(h)
        /\ Hook!Stored \subseteq Hook!Assistants
    BY <1>1, HandlerAt DEF Knows, Holds
  <1>3. t = h.about
    BY <1>2 DEF Hook!Target
  <1>4. CASE call' = [call EXCEPT ![c].at = "over"] /\ UNCHANGED processing
    BY <1>1, <1>4, EndsEarly
  <1>5. ASSUME t \notin processing, processing' = processing \cup {t},
               NEW seen \in {{}, parts[t]},
               call' = [call EXCEPT ![c] = [h EXCEPT !.at = "toast", !.target = t, !.seen = seen]]
        PROVE  HookInv'
    <2> DEFINE x == [h EXCEPT !.at = "toast", !.target = t, !.seen = seen]
    <2> HIDE DEF h, t
    <2>1. t \in Hook!Assistants /\ t \in Named /\ seen \in SUBSET Hook!Part
      BY <1>2, <1>3, <1>5 DEF Named, HookInv, HookTypes
    <2>2. /\ x \in Handler /\ x.at = "toast" /\ x.target = t /\ x.about = h.about
          /\ x.named = h.named /\ x.result = h.result
      BY <1>2, <2>1 DEF Handler, Stages
    <2> HIDE DEF x
    <2>3. GoesAs(c, x) /\ Hook!Stored' = Hook!Stored
      BY <1>1, <1>5, <2>2 DEF GoesAs, x, Hook!Stored
    <2>4. Knows(x, Hook!Stored')
      BY <1>2, <1>3, <2>2, <2>3 DEF Knows, Holds
    <2>5. \A d \in Calls : Knows(call[d], Hook!Stored)'
      BY <1>1, <2>3, <2>4, OthersKnow
    <2>6. Marked' /\ Prompted'
      BY <1>1, <1>2, <1>5, <2>1, <2>2, <2>3, NowHeld DEF h
    <2>7. HookTypes'
      BY <1>1, <1>5, <2>1, <2>3, OnlyOneMoves DEF HookInv, HookTypes
    <2> QED BY <2>5, <2>6, <2>7 DEF HookInv
  <1>6. \/ call' = [call EXCEPT ![c].at = "over"] /\ UNCHANGED processing
        \/ /\ t \notin processing /\ processing' = processing \cup {t}
           /\ \E seen \in {{}, parts[t]} :
                call' = [call EXCEPT ![c] = [h EXCEPT !.at = "toast", !.target = t, !.seen = seen]]
    BY DEF Hook!Listed
  <1> QED BY <1>4, <1>5, <1>6

LEMMA ToolRepairKeeps ==
  ASSUME HookInv, NEW c \in Calls, Hook!ToolRepair(c)
  PROVE  HookInv'
  <1> DEFINE h == call[c]
             x == [h EXCEPT !.at = "prompting"]
  <1>1. h.at = "toast" /\ UNCHANGED <<parts, newest>>
    BY DEF Hook!ToolRepair
  <1>2. /\ h \in Handler /\ ~h.result /\ h.about \in Hook!Stored /\ h.named /\ Holds(h)
        /\ h.target = h.about /\ Hook!Stored \subseteq Hook!Assistants
    BY <1>1, HandlerAt DEF Knows, Holds
  <1>3. CASE Hook!Over(c, FALSE, FALSE) /\ UNCHANGED answers
    <2>1. parts' \in [Hook!Assistants -> SUBSET Hook!Part]
      BY <1>1 DEF HookInv, HookTypes
    <2> QED BY <1>1, <1>2, <1>3, <2>1, OverIs
  <1>4. CASE /\ call' = [call EXCEPT ![c].at = "prompting"]
             /\ answers' = [answers EXCEPT ![h.target] = @ + 1] /\ UNCHANGED processing
    <2>1. call' = [call EXCEPT ![c] = x]
      BY <1>4
    <2> HIDE DEF h
    <2>2. /\ x \in Handler /\ x.at = "prompting" /\ x.about = h.about /\ x.named = h.named
          /\ x.result = h.result /\ x.target = h.target
      BY <1>2 DEF Handler, Stages
    <2> HIDE DEF x
    <2>3. GoesAs(c, x) /\ Holds(x) /\ Hook!Stored' = Hook!Stored
      BY <1>1, <2>1, <2>2 DEF GoesAs, Holds, Hook!Stored
    <2>4. Knows(x, Hook!Stored')
      BY <1>2, <2>2, <2>3 DEF Knows, Holds
    <2>5. \A d \in Calls : Knows(call[d], Hook!Stored)'
      BY <1>1, <2>3, <2>4, OthersKnow
    <2>6. Marked' /\ Prompted'
      BY <1>1, <1>2, <1>4, <2>2, <2>3, StillHeld DEF h
    <2>7. HookTypes'
      <3>1. answers' \in [Hook!Assistants -> Nat]
        BY <1>2, <1>4 DEF HookInv, HookTypes
      <3> QED BY <1>1, <1>4, <2>3, <3>1, OnlyOneMoves DEF HookInv, HookTypes
    <2> QED BY <2>5, <2>6, <2>7 DEF HookInv
  <1> QED BY <1>3, <1>4 DEF Hook!ToolRepair

LEMMA PromptedKeeps ==
  ASSUME HookInv, NEW c \in Calls, Hook!Prompted(c)
  PROVE  HookInv'
  <1> DEFINE h == call[c]
  <1>1. /\ h.at = "prompting" /\ UNCHANGED newest
        /\ answers' = [answers EXCEPT ![h.target] = @ - 1]
    BY DEF Hook!Prompted
  <1>2. /\ h.about \in Hook!Assistants /\ h.target = h.about /\ Holds(h)
        /\ parts \in [Hook!Assistants -> SUBSET Hook!Part]
    BY <1>1, HandlerAt DEF Holds, HookInv, HookTypes
  <1>3. CASE /\ parts' = [parts EXCEPT ![h.target] = @ \ {"call"}]
             /\ Hook!Over(c, TRUE, ~("call" \in parts'[h.about]))
    <2> DEFINE cured == ~("call" \in parts'[h.about])
    <2>1. parts' \in [Hook!Assistants -> SUBSET Hook!Part]
      <3>1. parts[h.target] \ {"call"} \in SUBSET Hook!Part
        BY <1>2
      <3> QED BY <1>2, <1>3, <3>1
    <2>2. cured
      BY <1>2, <1>3
    <2>3. Hook!Over(c, TRUE, TRUE)
      BY <1>3, <2>2 DEF Hook!Over
    <2> QED BY <1>1, <1>2, <2>1, <2>3, OverIs
  <1>4. CASE Hook!Over(c, FALSE, FALSE) /\ UNCHANGED parts
    BY <1>1, <1>2, <1>4, OverIs
  <1> QED BY <1>3, <1>4 DEF Hook!Prompted

LEMMA RepairedKeeps ==
  ASSUME HookInv, NEW c \in Calls, call[c].at = "toast",
         NEW done \in BOOLEAN, NEW cured \in BOOLEAN, done => cured,
         Hook!Repaired(c, done, cured), UNCHANGED <<newest, answers>>,
         parts' \in [Hook!Assistants -> SUBSET Hook!Part]
  PROVE  HookInv'
  <1> DEFINE h == call[c]
             x == [h EXCEPT !.at = "resuming", !.result = TRUE, !.cured = cured]
  <1>1. /\ h \in Handler /\ h.about \in Hook!Stored /\ h.named /\ Holds(h)
        /\ h.target = h.about /\ Hook!Stored \subseteq Hook!Assistants
    BY HandlerAt DEF Knows, Holds
  <1>2. CASE done /\ call' = [call EXCEPT ![c] = x] /\ UNCHANGED processing
    <2> HIDE DEF h
    <2>1. /\ x \in Handler /\ x.at = "resuming" /\ x.about = h.about /\ x.named = h.named
          /\ x.result /\ x.target = h.target /\ x.cured = cured
      BY <1>1 DEF Handler, Stages
    <2> HIDE DEF x
    <2>2. GoesAs(c, x) /\ Holds(x) /\ Hook!Stored' = Hook!Stored
      BY <1>2, <2>1 DEF GoesAs, Holds, Hook!Stored
    <2>3. Knows(x, Hook!Stored')
      BY <1>1, <1>2, <2>1, <2>2 DEF Knows, Holds
    <2>4. \A d \in Calls : Knows(call[d], Hook!Stored)'
      BY <2>2, <2>3, OthersKnow
    <2>5. Marked' /\ Prompted'
      BY <1>1, <1>2, <2>1, <2>2, StillHeld DEF h
    <2>6. HookTypes'
      BY <1>2, <2>2, OnlyOneMoves DEF HookInv, HookTypes
    <2> QED BY <2>4, <2>5, <2>6 DEF HookInv
  <1>3. CASE Hook!Over(c, done, cured) BY <1>1, <1>3, OverIs
  <1> QED BY <1>2, <1>3 DEF Hook!Repaired

LEMMA OrderRepairKeeps ==
  ASSUME HookConstants, HookInv, NEW c \in Calls, Hook!OrderRepair(c)
  PROVE  HookInv'
  <1> DEFINE about == call[c].about
             written == Hook!OrderTargets(c)
             done == written # {}
             cured == ~Hook!Orphan(parts'[about])
  <1>1. /\ call[c].at = "toast" /\ UNCHANGED <<newest, answers>>
        /\ parts' = [m \in Hook!Assistants |-> IF m \in written THEN parts[m] \cup {"lead"} ELSE parts[m]]
        /\ Hook!Repaired(c, done, cured)
    <2>1. Hook!Writable(written) = {written}
      BY DEF Hook!Writable, HookConstants
    <2> HIDE DEF written
    <2> QED BY <2>1 DEF Hook!OrderRepair, written
  <1>2. /\ about \in Hook!Stored /\ about \in Named /\ Hook!Stored \subseteq Hook!Assistants
        /\ parts \in [Hook!Assistants -> SUBSET Hook!Part]
    BY <1>1, HandlerAt DEF Holds, HookInv, HookTypes, Named
  \* The index the provider gives is that of the message, and no other has it.
  <1>3. Hook!Orphan(parts[about]) => about \in written
    <2> SUFFICES ASSUME Hook!Orphan(parts[about])  PROVE about \in written
      OBVIOUS
    <2>1. about \in Hook!OrphanThinking
      BY <1>2 DEF Hook!OrphanThinking
    <2>2. Hook!IndexOf(about) - 1 + Shift + 1 = Hook!IndexOf(about)
      BY <1>2, IndexIsNat DEF HookConstants
    <2>3. about \in Hook!MessageAt(Hook!IndexOf(about) - 1 + Shift)
      BY <2>1, <2>2 DEF Hook!MessageAt
    <2> QED BY <2>3 DEF Hook!OrderTargets
  <1>4. cured
    <2>1. CASE about \in written
      <3>1. parts'[about] = parts[about] \cup {"lead"}
        BY <1>1, <1>2, <2>1
      <3> QED BY <3>1 DEF Hook!Orphan
    <2>2. CASE about \notin written
      <3>1. parts'[about] = parts[about]
        BY <1>1, <1>2, <2>2
      <3> QED BY <1>3, <2>2, <3>1
    <2> QED BY <2>1, <2>2
  <1>5. parts' \in [Hook!Assistants -> SUBSET Hook!Part]
    <2> HIDE DEF written
    <2>1. "lead" \in Hook!Part
      BY DEF Hook!Part
    <2> QED BY <1>1, <1>2, <2>1
  <1>6. Hook!Repaired(c, done, TRUE) /\ done \in BOOLEAN
    BY <1>1, <1>4 DEF Hook!Repaired, Hook!Over
  <1> HIDE DEF done
  <1> QED BY <1>1, <1>5, <1>6, RepairedKeeps

LEMMA DisabledRepairKeeps ==
  ASSUME HookConstants, HookInv, NEW c \in Calls, Hook!DisabledRepair(c)
  PROVE  HookInv'
  <1> DEFINE about == call[c].about
             written == Hook!WithThinking
             done == written # {}
             cured == parts'[about] \cap Hook!Thinking = {}
  <1>1. /\ call[c].at = "toast" /\ UNCHANGED <<newest, answers>>
        /\ parts' = [m \in Hook!Assistants |-> IF m \in written THEN parts[m] \ Hook!Thinking ELSE parts[m]]
        /\ Hook!Repaired(c, done, cured)
    <2>1. Hook!Writable(written) = {written}
      BY DEF Hook!Writable, HookConstants
    <2> HIDE DEF written
    <2> QED BY <2>1 DEF Hook!DisabledRepair, written
  <1>2. /\ about \in Hook!Stored /\ Hook!Stored \subseteq Hook!Assistants
        /\ parts \in [Hook!Assistants -> SUBSET Hook!Part]
    BY <1>1, HandlerAt DEF Holds, HookInv, HookTypes
  <1>3. cured
    <2>1. parts[about] \cap Hook!Thinking # {} => about \in written
      BY <1>2 DEF Hook!WithThinking
    <2>2. parts'[about] = IF about \in written THEN parts[about] \ Hook!Thinking ELSE parts[about]
      BY <1>1, <1>2
    <2> QED BY <2>1, <2>2
  <1>4. parts' \in [Hook!Assistants -> SUBSET Hook!Part]
    <2> HIDE DEF written
    <2> QED BY <1>1, <1>2
  <1>5. Hook!Repaired(c, done, TRUE) /\ done \in BOOLEAN
    BY <1>1, <1>3 DEF Hook!Repaired, Hook!Over
  <1> HIDE DEF done
  <1> QED BY <1>1, <1>4, <1>5, RepairedKeeps

LEMMA ResumedKeeps ==
  ASSUME HookInv, NEW c \in Calls, Hook!Resumed(c)
  PROVE  HookInv'
  <1>1. /\ call[c].at = "resuming" /\ Hook!Over(c, TRUE, call[c].cured)
        /\ UNCHANGED <<parts, newest, answers>>
    BY DEF Hook!Resumed
  <1>2. call[c].cured /\ call[c].cured \in BOOLEAN /\ Holds(call[c])
    BY <1>1, HandlerAt DEF Knows, Holds, Handler
  <1>3. parts' \in [Hook!Assistants -> SUBSET Hook!Part]
    BY <1>1 DEF HookInv, HookTypes
  <1>4. Hook!Over(c, TRUE, TRUE)
    BY <1>1, <1>2 DEF Hook!Over
  <1> QED BY <1>1, <1>2, <1>3, <1>4, OverIs

\* Every step keeps the invariant.
LEMMA HookNext ==
  ASSUME HookConstants, HookInv, [Hook!Next]_Hook!vars
  PROVE  HookInv'
  <1>1. CASE UNCHANGED Hook!vars
    BY <1>1 DEF Hook!vars, HookInv, HookTypes, Marked, Prompted, Knows, Holds, Hook!Stored
  <1>2. ASSUME NEW c \in Calls, Hook!ListingFailed(c)
        PROVE  HookInv'
    BY <1>2, EndsEarly DEF Hook!ListingFailed
  <1>3. CASE Hook!Next
    BY <1>2, <1>3, TurnTaken, ReportedKeeps, ListedKeeps, ToolRepairKeeps, PromptedKeeps,
       OrderRepairKeeps, DisabledRepairKeeps, ResumedKeeps DEF Hook!Next
  <1> QED BY <1>1, <1>3

\* No two calls repair a message together, a mark is dropped whichever way its call ends,
\* and a reported success is one (recovery.ts), for any events, faults and turns.
THEOREM RepairsStaySafe ==
  ASSUME HookConstants
  PROVE  Hook!Spec => [](Hook!TypeOK /\ Hook!RecoverySafe)
  <1>1. Hook!Init => HookInv
    BY HookInit
  <1>2. HookInv /\ [Hook!Next]_Hook!vars => HookInv'
    BY HookNext
  <1>3. ASSUME HookInv
        PROVE  Hook!TypeOK /\ Hook!RecoverySafe
    <2>1. Hook!TypeOK
      BY <1>3 DEF HookInv, HookTypes, Hook!TypeOK, Handler, Named, Stages
    <2>2. \A c \in Calls : c \in Hook!Holding <=> Holds(call[c])
      BY DEF Hook!Holding, Holds
    <2>3. Hook!Holding \subseteq Calls
      BY DEF Hook!Holding
    <2>4. \A c \in Hook!Holding : call[c].target \in Hook!Assistants
      BY <1>3, <2>2, <2>3, HandlerAt
    <2>5. processing = {call[c].target : c \in Hook!Holding}
      BY <1>3, <2>2, <2>3, <2>4 DEF HookInv, HookTypes, Marked
    <2>6. \A c, d \in Hook!Holding : call[c].target = call[d].target => c = d
      BY <1>3, <2>2, <2>3 DEF HookInv, Marked
    <2>7. \A m \in Hook!Assistants : answers[m] <= 1
      BY <1>3 DEF HookInv, Prompted
    <2>8. Hook!SuccessIsTrue
      BY <1>3 DEF HookInv, Knows, Hook!SuccessIsTrue
    <2> QED BY <2>1, <2>5, <2>6, <2>7, <2>8 DEF Hook!RecoverySafe, Hook!OneRepairAtATime
  <1> QED BY <1>1, <1>2, <1>3, PTL DEF Hook!Spec

-----------------------------------------------------------------------------
(***************************************************************************)
(* What an answer says of its account: long blocks are the provider's own, *)
(* an account it called spent stays out, and each failure gets its own.    *)
(***************************************************************************)
\* No window is longer than the horizon of the plugin, and errors carry a message.
VerdictConstants ==
  /\ Length \in [Windows -> 1 .. 8] /\ Causes \subseteq Verdict!AllCauses
  /\ Retries \subseteq Nat /\ Bare = FALSE /\ MaxClock \in Nat

\* Headers that tell the windows, none of which ends beyond the horizon.
Near(h, now) ==
  h \in [Windows -> Verdict!Window] /\ \A w \in Windows : h[w].reset <= now + 8

Reply ==
  [cause : Verdict!AllCauses, status : Nat, retry : Nat, bare : {FALSE},
   headers : {<<>>} \cup [Windows -> Verdict!Window]]

\* An answer has a status of its cause, and one about the quota the provider's own headers.
Sent(r, now) ==
  /\ r \in Reply /\ r.status \in Verdict!Statuses[r.cause]
  /\ r.cause \in Verdict!Weighed => Near(r.headers, now)

VerdictTypes ==
  /\ clock \in 0 .. MaxClock
  /\ limited \in Nat /\ exhausted \in Nat /\ spentUntil \in Nat
  /\ backoff \in [attempts : Nat, at : Nat]
  /\ last \in [cause : Verdict!AllCauses, outcome : Verdict!Outcomes, long : BOOLEAN]

VerdictInv ==
  /\ VerdictTypes
  /\ Near(quota, clock) /\ Near(echo, clock) /\ \A r \in inFlight : Sent(r, clock)
  /\ Verdict!LongBlocksAreReal /\ Verdict!SpentStaysBlocked /\ Verdict!VerdictFits

-----------------------------------------------------------------------------
(* The larger and the smaller of two, and of a set.                        *)

LEMMA LargestOf ==
  ASSUME NEW S, S \subseteq Nat, S # {}, NEW n \in Nat, \A x \in S : x <= n
  PROVE  Verdict!Max(S) \in S /\ \A y \in S : y <= Verdict!Max(S)
  <1> DEFINE T == {t \in Nat : \E x \in S : t + x = n}
  <1>1. \A x \in S : n - x \in T
    BY DEF T
  <1>2. T \subseteq Nat /\ T # {}
    BY <1>1
  <1>3. PICK t \in T : \A y \in T : t <= y
    BY <1>2, Smallest
  <1>4. PICK x \in S : t + x = n
    BY <1>3
  <1>6. \A y \in S : x >= y
    <2> HIDE DEF T
    <2> SUFFICES ASSUME NEW y \in S  PROVE x >= y
      OBVIOUS
    <2>1. t <= n - y /\ t \in Nat /\ x \in Nat /\ y \in Nat
      BY <1>1, <1>2, <1>3
    <2> QED BY <1>4, <2>1
  <1>5. Verdict!Max(S) \in S /\ \A y \in S : Verdict!Max(S) >= y
    BY <1>4, <1>6, Zenon DEF Verdict!Max
  <1> QED BY <1>5

LEMMA LargerOf ==
  ASSUME NEW a \in Int, NEW b \in Int
  PROVE  Verdict!Max({a, b}) = IF a >= b THEN a ELSE b
  BY DEF Verdict!Max

LEMMA LargestOfThree ==
  ASSUME NEW a \in Int, NEW b \in Int, NEW c \in Int
  PROVE  Verdict!Max({a, b, c}) \in {a, b, c} /\ Verdict!Max({a, b, c}) >= a
  <1> DEFINE S == {a, b, c}
  <1>1. \E x \in S : \A y \in S : x >= y
    OBVIOUS
  <1> HIDE DEF S
  <1>2. Verdict!Max(S) \in S /\ \A y \in S : Verdict!Max(S) >= y
    BY <1>1, Zenon DEF Verdict!Max
  <1> QED BY <1>2 DEF S

LEMMA SmallerOf ==
  ASSUME NEW a \in Int, NEW b \in Int
  PROVE  Verdict!Min({a, b}) = IF a <= b THEN a ELSE b
  BY DEF Verdict!Min

LEMMA SmallestOf ==
  ASSUME NEW S, S \subseteq Nat, S # {}
  PROVE  Verdict!Min(S) \in S
  <1>1. \E x \in S : \A y \in S : x <= y
    BY Smallest
  <1> QED BY <1>1, Zenon DEF Verdict!Min

-----------------------------------------------------------------------------
(* What the plugin makes of an answer, by what it is about.                *)

LEMMA StatusesOf ==
  /\ Verdict!Statuses["served"] = {200} /\ Verdict!Statuses["usage"] = {429, 404}
  /\ Verdict!Statuses["throttle"] = {429} /\ Verdict!Statuses["overload"] = {400, 429, 503}
  /\ Verdict!Statuses["plan"] = {403, 404, 429} /\ Verdict!Statuses["deactivated"] = {402}
  /\ Verdict!Statuses["unsupported"] = {400} /\ Verdict!Statuses["overflow"] = {400}
  /\ Verdict!Statuses["auth"] = {401} /\ Verdict!Statuses["server"] = {500}
  /\ Verdict!Statuses["other"] = {400, 403}
  BY DEF Verdict!Statuses

LEMMA Classified ==
  ASSUME NEW now, NEW r, Sent(r, now)
  PROVE  /\ r.cause \in Verdict!AllCauses /\ r.retry \in Nat
         /\ r.status = 200 <=> r.cause = "served"
         /\ Verdict!Authoritative(r) => r.cause \in {"usage", "throttle", "plan"}
         /\ Verdict!Believed(r) <=> r.cause \in {"usage", "throttle"}
         /\ Verdict!RateLimited(r) => r.cause \in {"usage", "throttle", "overload"}
         /\ r.cause \in {"usage", "throttle"} => Verdict!RateLimited(r)
         /\ Verdict!Settled(r) <=> r.cause \in {"deactivated", "unsupported"}
         /\ Verdict!Deactivated(r) <=> r.cause = "deactivated"
         /\ Verdict!ServerFault(r) <=> r.cause \in {"overload", "server"}
         /\ Verdict!Invalidated(r) => r.cause = "auth"
         /\ r.cause = "auth" => Verdict!Invalidated(r)
  <1>1. /\ r.cause \in Verdict!AllCauses /\ r.retry \in Nat /\ r.status \in Nat /\ r.bare = FALSE
        /\ r.status \in Verdict!Statuses[r.cause]
    BY DEF Sent, Reply
  <1>2. /\ r.cause = "served" => r.status = 200
        /\ r.cause = "usage" => r.status \in {429, 404}
        /\ r.cause = "throttle" => r.status = 429
        /\ r.cause = "overload" => r.status \in {400, 429, 503}
        /\ r.cause = "plan" => r.status \in {403, 404, 429}
        /\ r.cause = "deactivated" => r.status = 402
        /\ r.cause \in {"unsupported", "overflow"} => r.status = 400
        /\ r.cause = "auth" => r.status = 401
        /\ r.cause = "server" => r.status = 500
        /\ r.cause = "other" => r.status \in {400, 403}
    BY <1>1, StatusesOf
  <1>3. r.cause \in {"served", "usage", "throttle", "overload", "plan", "deactivated",
                     "unsupported", "overflow", "auth", "server", "other"}
    BY <1>1 DEF Verdict!AllCauses
  <1>4. r.status = 200 <=> r.cause = "served"
    BY <1>2, <1>3
  <1>5. /\ r.cause \in {"usage", "throttle"} => Verdict!Status(r) = 429
        /\ r.cause \notin {"usage", "throttle"} =>
             \/ Verdict!Status(r) = r.status
             \/ Verdict!Status(r) = 403 /\ r.cause = "plan"
    BY <1>2, <1>3 DEF Verdict!Status
  <1>6. Verdict!RetryAsServerError(r) <=> r.cause = "overload"
    BY <1>1 DEF Verdict!RetryAsServerError, Verdict!CodeKept
  <1>7. /\ Verdict!Authoritative(r) => r.cause \in {"usage", "throttle", "plan"}
        /\ r.cause \in {"usage", "throttle"} => Verdict!Authoritative(r)
    BY <1>2, <1>3, <1>5, <1>6 DEF Verdict!Authoritative
  <1>8. /\ Verdict!RateLimited(r) => r.cause \in {"usage", "throttle", "overload"}
        /\ r.cause \in {"usage", "throttle"} => Verdict!RateLimited(r)
    BY <1>2, <1>3, <1>5 DEF Verdict!RateLimited, Verdict!OverloadBody
  <1>9. Verdict!Believed(r) <=> r.cause \in {"usage", "throttle"}
    BY <1>7, <1>8 DEF Verdict!Believed
  <1>10. Verdict!Deactivated(r) <=> r.cause = "deactivated"
    BY <1>2, <1>5 DEF Verdict!Deactivated
  <1>11. Verdict!Settled(r) <=> r.cause \in {"deactivated", "unsupported"}
    BY <1>10 DEF Verdict!Settled
  <1>12. Verdict!ServerFault(r) <=> r.cause \in {"overload", "server"}
    BY <1>2, <1>3, <1>5, <1>6 DEF Verdict!ServerFault
  <1>13. Verdict!Invalidated(r) <=> r.cause = "auth"
    BY <1>2, <1>3, <1>5 DEF Verdict!Invalidated
  <1> QED BY <1>1, <1>4, <1>7, <1>8, <1>9, <1>10, <1>11, <1>12, <1>13

\* The plugin reads from the headers what the provider means by them.
LEMMA ResetsOf ==
  ASSUME clock \in Nat, NEW r, Near(r.headers, clock)
  PROVE  /\ Verdict!ExhaustedReset(r) = Verdict!TrueReset(r.headers)
         /\ Verdict!TrueReset(r.headers) \in Nat
         /\ {Verdict!ResetAt(r.headers[w]) : w \in Verdict!Reported(r)} \subseteq Nat
  <1> DEFINE h == r.headers
             A == {Verdict!ResetAt(h[w]) :
                     w \in {v \in Verdict!Reported(r) : h[v].full /\ Verdict!ResetAt(h[v]) > clock}}
             B == {h[w].reset : w \in {v \in Windows \ Off : h[v].full /\ h[v].reset > clock}}
  <1>1. /\ h \in [Windows -> Verdict!Window]
        /\ \A w \in Windows : h[w].reset \in Nat /\ h[w].reset <= clock + 8
    BY DEF Near, Verdict!Window
  <1>2. \A w \in Windows : Verdict!ResetAt(h[w]) = h[w].reset
    BY <1>1 DEF Verdict!ResetAt, Verdict!Horizon
  <1>3. Verdict!Reported(r) = Windows \ Off
    <2>1. \A w \in Windows : h # <<>>
      BY <1>1
    <2> QED BY <2>1 DEF Verdict!Reported
  <1>4. {Verdict!ResetAt(h[w]) : w \in Verdict!Reported(r)} \subseteq Nat
    BY <1>1, <1>2, <1>3
  <1>5. A = B
    BY <1>2, <1>3
  <1>6. B \subseteq Nat /\ \A x \in B : x <= clock + 8
    BY <1>1
  <1>7. Verdict!ExhaustedReset(r) = Verdict!Max({0} \cup A)
    BY DEF Verdict!ExhaustedReset
  <1>8. Verdict!TrueReset(h) = Verdict!Max({0} \cup B)
    BY DEF Verdict!TrueReset
  <1> HIDE DEF h, A, B
  <1>9. Verdict!Max({0} \cup B) \in {0} \cup B
    <2> DEFINE C == {0} \cup B
    <2>1. C \subseteq Nat /\ C # {} /\ clock + 8 \in Nat /\ \A x \in C : x <= clock + 8
      BY <1>6
    <2> HIDE DEF C
    <2>2. Verdict!Max(C) \in C
      BY <2>1, LargestOf
    <2> QED BY <2>2 DEF C
  <1>10. Verdict!Max({0} \cup B) \in Nat
    <2>1. {0} \cup B \subseteq Nat
      BY <1>6
    <2> QED BY <1>9, <2>1, Zenon
  <1>11. Verdict!ExhaustedReset(r) = Verdict!TrueReset(h) /\ Verdict!TrueReset(h) \in Nat
    BY <1>5, <1>7, <1>8, <1>10
  <1> QED BY <1>4, <1>11, Zenon DEF h

LEMMA RetriesSoon ==
  ASSUME VerdictConstants, VerdictInv, NEW r \in inFlight,
         r.cause \in {"usage", "throttle", "overload"}
  PROVE  /\ Verdict!RetryAfter(r) \in Nat
         /\ r.cause = "overload" => Verdict!RetryAfter(r) <= 3
  <1>1. clock \in Nat /\ Sent(r, clock)
    BY DEF VerdictInv, VerdictTypes, VerdictConstants
  <1>2. r.retry \in Nat /\ r.cause \in Verdict!AllCauses
    BY <1>1, Classified
  <1>3. Verdict!Min({r.retry, Verdict!RetryCap}) = IF r.retry <= 3 THEN r.retry ELSE 3
    BY <1>2, SmallerOf DEF Verdict!RetryCap
  <1>4. CASE r.cause = "overload"
    <2>1. ~Verdict!Authoritative(r)
      BY <1>1, <1>4, Classified
    <2> QED BY <1>1, <1>2, <1>3, <1>4, <2>1 DEF Verdict!RetryAfter, Verdict!DefaultDelay
  <1>5. CASE r.cause # "overload"
    <2> DEFINE resets == {Verdict!ResetAt(r.headers[w]) : w \in Verdict!Reported(r)}
               ahead == {t - clock : t \in {u \in resets : u > clock}}
    <2>1. Near(r.headers, clock)
      BY <1>1, <1>5 DEF Sent, Verdict!Weighed
    <2>2. resets \subseteq Nat /\ Verdict!ExhaustedReset(r) \in Nat
      BY <1>1, <2>1, ResetsOf
    <2> HIDE DEF resets
    <2>3. ahead \subseteq Nat
      BY <1>1, <2>2
    <2> HIDE DEF ahead
    <2>4. ahead # {} => Verdict!Min(ahead) \in Nat
      BY <2>3, SmallestOf
    <2>5. Verdict!RetryAfter(r) =
            LET spent == IF Verdict!Authoritative(r) THEN Verdict!ExhaustedReset(r) ELSE 0
            IN  IF spent > clock THEN spent - clock
                ELSE IF r.retry > 0 THEN Verdict!Min({r.retry, Verdict!RetryCap})
                ELSE IF Verdict!Authoritative(r) /\ ahead # {} THEN Verdict!Min(ahead)
                ELSE Verdict!DefaultDelay
      BY DEF Verdict!RetryAfter, ahead, resets
    <2> QED BY <1>1, <1>2, <1>3, <1>5, <2>2, <2>4, <2>5 DEF Verdict!DefaultDelay
  <1> QED BY <1>4, <1>5

LEMMA AttemptsCount ==
  ASSUME VerdictConstants, VerdictInv
  PROVE  Verdict!Attempts \in Nat /\ Verdict!Attempts >= 1
  BY DEF VerdictConstants, VerdictInv, VerdictTypes, Verdict!Attempts, Verdict!BackoffMemory

LEMMA DelaysAreNat ==
  ASSUME VerdictConstants, VerdictInv, NEW base \in Nat, NEW delay \in Verdict!Delays(base)
  PROVE  delay \in Nat
  <1> DEFINE plain == Verdict!Min({base * (2 ^ (Verdict!Attempts - 1)), Verdict!BackoffCap})
  <1>1. Verdict!Attempts - 1 \in Nat
    BY AttemptsCount
  <1>2. base * (2 ^ (Verdict!Attempts - 1)) \in Int
    BY <1>1
  <1>3. plain \in Int
    BY <1>2, SmallerOf DEF Verdict!BackoffCap
  <1>4. PICK d \in (3 * plain) \div 4 .. (5 * plain) \div 4 :
          delay = Verdict!Max({1, base, Verdict!Min({d, Verdict!BackoffCap})})
    BY DEF Verdict!Delays
  <1> HIDE DEF plain
  <1>5. d \in Int
    BY <1>3, <1>4
  <1> DEFINE m == Verdict!Min({d, Verdict!BackoffCap})
  <1>6. m \in Int
    BY <1>5, SmallerOf DEF Verdict!BackoffCap
  <1>7. delay = Verdict!Max({1, base, m})
    BY <1>4
  <1> HIDE DEF m
  <1>8. delay \in {1, base, m} /\ delay >= 1
    BY <1>6, <1>7, LargestOfThree
  <1> QED BY <1>6, <1>8

LEMMA BlocksExtend ==
  ASSUME NEW block \in Nat, NEW until \in Nat, NEW next, next = Verdict!Extended(block, until)
  PROVE  next \in Nat /\ next >= block /\ next >= until /\ (next = block \/ next = until)
  <1>1. next = IF block >= until THEN block ELSE until
    BY LargerOf DEF Verdict!Extended
  <1> QED BY <1>1

-----------------------------------------------------------------------------
(* The steps.                                                              *)

LEMMA NearLater ==
  ASSUME NEW h, NEW now \in Nat, Near(h, now)
  PROVE  Near(h, now + 1)
  BY DEF Near, Verdict!Window

\* A window that begins.
LEMMA NewWindow ==
  ASSUME NEW n \in Nat
  PROVE  /\ [full |-> FALSE, reset |-> n] \in Verdict!Window
         /\ [full |-> FALSE, reset |-> n].reset = n
  BY DEF Verdict!Window

LEMMA NewWindows ==
  ASSUME VerdictConstants, NEW now \in Nat
  PROVE  Near([w \in Windows |-> [full |-> FALSE, reset |-> now + Length[w]]], now)
  <1> DEFINE h == [w \in Windows |-> [full |-> FALSE, reset |-> now + Length[w]]]
  <1>1. \A w \in Windows : Length[w] \in Nat /\ Length[w] <= 8
    BY DEF VerdictConstants
  <1>2. \A w \in Windows : h[w] \in Verdict!Window /\ h[w].reset = now + Length[w]
    BY <1>1, NewWindow
  <1>3. h \in [Windows -> Verdict!Window]
    BY <1>2
  <1> HIDE DEF h
  <1>4. Near(h, now)
    BY <1>1, <1>2, <1>3 DEF Near
  <1> QED BY <1>4 DEF h

LEMMA VerdictInit ==
  ASSUME VerdictConstants, Verdict!Init
  PROVE  VerdictInv
  <1>1. Near(Verdict!Fresh, clock) /\ clock = 0
    <2>1. clock = 0 /\ Verdict!Fresh = [w \in Windows |-> [full |-> FALSE, reset |-> Length[w]]]
      BY DEF Verdict!Init, Verdict!Fresh
    <2>2. \A w \in Windows : 0 + Length[w] = Length[w]
      BY DEF VerdictConstants
    <2>3. Verdict!Fresh = [w \in Windows |-> [full |-> FALSE, reset |-> 0 + Length[w]]]
      BY <2>1, <2>2
    <2> QED BY <2>1, <2>3, NewWindows
  <1>2. last = [cause |-> "served", outcome |-> "return", long |-> FALSE]
    BY DEF Verdict!Init, Verdict!Idle
  <1>3. VerdictTypes
    BY <1>1, <1>2 DEF VerdictConstants, Verdict!Init, VerdictTypes, Verdict!AllCauses, Verdict!Outcomes
  <1>4. Verdict!LongBlocksAreReal /\ Verdict!SpentStaysBlocked /\ Verdict!VerdictFits
    BY <1>1, <1>2 DEF Verdict!Init, Verdict!LongBlocksAreReal, Verdict!SpentStaysBlocked,
       Verdict!VerdictFits
  <1> QED BY <1>1, <1>3, <1>4 DEF VerdictInv, Verdict!Init

\* Nothing was handled: what the last answer was is forgotten.
LEMMA Forgotten ==
  ASSUME Verdict!ForgetLast
  PROVE  /\ last' \in [cause : Verdict!AllCauses, outcome : Verdict!Outcomes, long : BOOLEAN]
         /\ Verdict!LongBlocksAreReal' /\ Verdict!VerdictFits'
  BY DEF Verdict!ForgetLast, Verdict!Idle, Verdict!AllCauses, Verdict!Outcomes,
     Verdict!LongBlocksAreReal, Verdict!VerdictFits

LEMMA TickKeeps ==
  ASSUME VerdictConstants, VerdictInv, Verdict!Tick
  PROVE  VerdictInv'
  <1>1. clock \in Nat /\ clock' = clock + 1 /\ clock' \in 0 .. MaxClock
    BY DEF VerdictInv, VerdictTypes, VerdictConstants, Verdict!Tick
  <1>2. UNCHANGED <<echo, inFlight, limited, exhausted, backoff>> /\ Verdict!ForgetLast
    BY DEF Verdict!Tick, Verdict!plugin
  <1>3. Near(quota', clock')
    <2>1. quota' = [w \in Windows |-> IF quota[w].reset > clock + 1 THEN quota[w]
                     ELSE [full |-> FALSE, reset |-> clock + 1 + Length[w]]]
      BY DEF Verdict!Tick
    <2>2. Near(quota, clock + 1)
      BY <1>1, NearLater DEF VerdictInv
    <2> DEFINE begun == [w \in Windows |-> [full |-> FALSE, reset |-> clock + 1 + Length[w]]]
    <2>3. Near(begun, clock + 1)
      BY <1>1, NewWindows
    <2>4. quota' = [w \in Windows |-> IF quota[w].reset > clock + 1 THEN quota[w] ELSE begun[w]]
      BY <2>1
    <2> HIDE DEF begun
    <2> QED BY <1>1, <2>2, <2>3, <2>4 DEF Near
  <1>4. Near(echo', clock')
    BY <1>1, <1>2, NearLater DEF VerdictInv
  <1>5. \A r \in inFlight' : Sent(r, clock')
    BY <1>1, <1>2, NearLater DEF VerdictInv, Sent
  <1>6. spentUntil' = IF spentUntil > clock + 1 THEN spentUntil ELSE 0
    BY DEF Verdict!Tick
  <1>7. VerdictTypes'
    BY <1>1, <1>2, <1>6, Forgotten DEF VerdictInv, VerdictTypes
  <1>8. Verdict!SpentStaysBlocked'
    BY <1>1, <1>2, <1>6 DEF VerdictInv, VerdictTypes, Verdict!SpentStaysBlocked
  <1> QED BY <1>2, <1>3, <1>4, <1>5, <1>7, <1>8, Forgotten DEF VerdictInv

\* The provider's windows change, or what is copied of them, or an answer goes out.
LEMMA ProviderKeeps ==
  ASSUME VerdictConstants, VerdictInv, Verdict!ForgetLast,
         UNCHANGED <<clock, spentUntil, limited, exhausted, backoff>>,
         Near(quota', clock), Near(echo', clock), \A r \in inFlight' : Sent(r, clock)
  PROVE  VerdictInv'
  <1>1. VerdictTypes' /\ Verdict!SpentStaysBlocked'
    BY Forgotten DEF VerdictInv, VerdictTypes, Verdict!SpentStaysBlocked
  <1> QED BY <1>1, Forgotten DEF VerdictInv

LEMMA WindowsKeep ==
  ASSUME VerdictConstants, VerdictInv,
         Verdict!Lift \/ Verdict!Copy \/ \E w \in Windows : Verdict!Spend(w)
  PROVE  VerdictInv'
  <1>1. clock \in Nat /\ Near(quota, clock) /\ Near(echo, clock) /\ \A r \in inFlight : Sent(r, clock)
    BY DEF VerdictInv, VerdictTypes, VerdictConstants
  <1>2. CASE Verdict!Lift
    <2>1. Near(quota', clock)
      BY <1>1, <1>2, NewWindows DEF Verdict!Lift
    <2> QED BY <1>1, <1>2, <2>1, ProviderKeeps DEF Verdict!Lift, Verdict!plugin
  <1>3. CASE Verdict!Copy
    BY <1>1, <1>3, ProviderKeeps DEF Verdict!Copy, Verdict!plugin
  <1>4. ASSUME NEW w \in Windows, Verdict!Spend(w)
        PROVE  VerdictInv'
    <2>1. quota' = [quota EXCEPT ![w].full = TRUE]
      BY <1>4 DEF Verdict!Spend
    <2>2. quota \in [Windows -> Verdict!Window] /\ \A v \in Windows : quota[v].reset <= clock + 8
      BY <1>1 DEF Near
    <2>3. \A v \in Windows : quota'[v] \in Verdict!Window /\ quota'[v].reset = quota[v].reset
      BY <2>1, <2>2 DEF Verdict!Window
    <2>4. Near(quota', clock)
      BY <2>1, <2>2, <2>3 DEF Near
    <2> QED BY <1>1, <1>4, <2>4, ProviderKeeps DEF Verdict!Spend, Verdict!plugin
  <1> QED BY <1>2, <1>3, <1>4

LEMMA AnswerSent ==
  ASSUME VerdictConstants, VerdictInv, NEW cause \in Causes, NEW status \in Verdict!Statuses[cause],
         NEW retry \in Retries, NEW bare \in {FALSE, Bare}, Verdict!Answer(cause, status, retry, bare)
  PROVE  VerdictInv'
  <1>1. clock \in Nat /\ Near(quota, clock) /\ Near(echo, clock) /\ \A r \in inFlight : Sent(r, clock)
    BY DEF VerdictInv, VerdictTypes, VerdictConstants
  <1>2. PICK headers \in IF cause \in Verdict!Weighed THEN {quota} ELSE {<<>>, echo} :
          inFlight' = inFlight \cup
            {[cause |-> cause, status |-> status, retry |-> retry, bare |-> bare, headers |-> headers]}
    BY DEF Verdict!Answer
  <1>3. cause \in Verdict!AllCauses /\ retry \in Nat /\ bare = FALSE
    BY DEF VerdictConstants
  <1>4. status \in Nat
    BY <1>3, StatusesOf DEF Verdict!AllCauses
  <1>5. /\ headers \in {<<>>} \cup [Windows -> Verdict!Window]
        /\ cause \in Verdict!Weighed => Near(headers, clock)
    BY <1>1, <1>2 DEF Near
  <1>6. Sent([cause |-> cause, status |-> status, retry |-> retry, bare |-> bare,
              headers |-> headers], clock)
    BY <1>3, <1>4, <1>5 DEF Sent, Reply
  <1> QED BY <1>1, <1>2, <1>6, ProviderKeeps DEF Verdict!Answer, Verdict!plugin

LEMMA LapseKeeps ==
  ASSUME VerdictConstants, VerdictInv, Verdict!Lapse
  PROVE  VerdictInv'
  <1>1. VerdictTypes' /\ Verdict!SpentStaysBlocked'
    BY Forgotten DEF Verdict!Lapse, VerdictInv, VerdictTypes, VerdictConstants, Verdict!SpentStaysBlocked
  <1>2. UNCHANGED <<clock, quota, echo, inFlight>> /\ Verdict!ForgetLast
    BY DEF Verdict!Lapse
  <1> QED BY <1>1, <1>2, Forgotten DEF VerdictInv

-----------------------------------------------------------------------------
(* An answer is handled.                                                   *)

Fits(cause, outcome) ==
  /\ outcome \in Verdict!Outcomes
  /\ cause \in {"served", "plan", "other"} => outcome = "return"
  /\ cause \in {"usage", "throttle"} => outcome \in {"retry", "rotate"}
  /\ cause \in {"overload", "server"} => outcome = "server"
  /\ cause = "auth" => outcome = "cool"
  /\ cause = "deactivated" => outcome = "disable"

LEMMA HandledKeeps ==
  ASSUME VerdictConstants, VerdictInv, NEW r \in inFlight, NEW outcome, Fits(r.cause, outcome),
         Verdict!Done(r, outcome), limited' \in Nat, exhausted' \in Nat, exhausted' >= exhausted,
         backoff' \in [attempts : Nat, at : Nat],
         r.cause \in Verdict!Weighed => exhausted' >= Verdict!TrueReset(r.headers),
         r.cause \notin Verdict!Weighed =>
           exhausted' = exhausted /\ (limited' = limited \/ limited' <= clock + 3)
  PROVE  VerdictInv'
  <1>1. /\ clock \in Nat /\ limited \in Nat /\ exhausted \in Nat /\ spentUntil \in Nat
        /\ Sent(r, clock) /\ UNCHANGED <<clock, quota, echo>> /\ inFlight' = inFlight \ {r}
    BY DEF VerdictInv, VerdictTypes, VerdictConstants, Verdict!Done
  <1> DEFINE long == Verdict!Long(exhausted', exhausted) \/ Verdict!Long(limited', limited)
  <1>2. last' = [cause |-> r.cause, outcome |-> outcome, long |-> long]
    BY DEF Verdict!Done
  <1>3. long \in BOOLEAN /\ (long => r.cause \in Verdict!Weighed)
    BY <1>1 DEF Verdict!Long, Verdict!RetryCap
  <1> HIDE DEF long
  <1>4. r.cause \in Verdict!AllCauses
    BY <1>1, Classified
  <1>5. last' \in [cause : Verdict!AllCauses, outcome : Verdict!Outcomes, long : BOOLEAN]
    BY <1>2, <1>3, <1>4 DEF Fits
  <1>6. Verdict!LongBlocksAreReal' /\ Verdict!VerdictFits'
    BY <1>2, <1>3 DEF Verdict!LongBlocksAreReal, Verdict!VerdictFits, Fits
  <1>7. spentUntil' \in Nat /\ Verdict!SpentStaysBlocked'
    <2>1. CASE r.cause \notin Verdict!Weighed
      <3>1. spentUntil' = spentUntil
        BY <2>1 DEF Verdict!Done
      <3> QED BY <1>1, <3>1 DEF VerdictInv, Verdict!SpentStaysBlocked
    <2>2. CASE r.cause \in Verdict!Weighed
      <3>1. spentUntil' = Verdict!Max({spentUntil, Verdict!TrueReset(r.headers)})
        BY <2>2 DEF Verdict!Done
      <3>2. Verdict!TrueReset(r.headers) \in Nat
        BY <1>1, <2>2, ResetsOf DEF Sent
      <3>3. spentUntil' = IF spentUntil >= Verdict!TrueReset(r.headers)
                          THEN spentUntil ELSE Verdict!TrueReset(r.headers)
        BY <1>1, <3>1, <3>2, LargerOf
      <3> QED BY <1>1, <2>2, <3>2, <3>3 DEF VerdictInv, Verdict!SpentStaysBlocked
    <2> QED BY <2>1, <2>2
  <1>8. VerdictTypes'
    BY <1>1, <1>5, <1>7 DEF VerdictInv, VerdictTypes
  <1>9. Near(quota', clock') /\ Near(echo', clock') /\ \A x \in inFlight' : Sent(x, clock')
    BY <1>1 DEF VerdictInv
  <1> QED BY <1>6, <1>7, <1>8, <1>9 DEF VerdictInv

\* What is believed of the headers is recorded, and nothing else.
LEMMA Recorded ==
  ASSUME VerdictConstants, VerdictInv, NEW r \in inFlight, Verdict!RecordError(r), r.status # 200
  PROVE  /\ exhausted' \in Nat /\ exhausted' >= exhausted
         /\ r.cause \in Verdict!Weighed => exhausted' >= Verdict!TrueReset(r.headers)
         /\ r.cause \notin Verdict!Weighed => exhausted' = exhausted
  <1>1. clock \in Nat /\ exhausted \in Nat /\ Sent(r, clock)
    BY DEF VerdictInv, VerdictTypes, VerdictConstants
  <1>2. r.cause \in Verdict!Weighed <=> Verdict!Believed(r)
    BY <1>1, Classified DEF Verdict!Weighed
  <1>3. CASE r.cause \notin Verdict!Weighed
    BY <1>1, <1>2, <1>3 DEF Verdict!RecordError
  <1>4. CASE r.cause \in Verdict!Weighed
    <2>1. exhausted' = Verdict!Extended(exhausted, Verdict!ExhaustedReset(r))
      BY <1>2, <1>4 DEF Verdict!RecordError, Verdict!QuotaBlock
    <2>2. /\ Verdict!ExhaustedReset(r) = Verdict!TrueReset(r.headers)
          /\ Verdict!TrueReset(r.headers) \in Nat
      BY <1>1, <1>4, ResetsOf DEF Sent
    <2>3. exhausted' = Verdict!Extended(exhausted, Verdict!TrueReset(r.headers))
      BY <2>1, <2>2
    <2>4. exhausted' \in Nat /\ exhausted' >= exhausted /\ exhausted' >= Verdict!TrueReset(r.headers)
      BY <1>1, <2>2, <2>3, BlocksExtend
    <2> QED BY <1>4, <2>4
  <1> QED BY <1>3, <1>4

LEMMA ServedKeeps ==
  ASSUME VerdictConstants, VerdictInv, NEW r \in inFlight, Verdict!HandleServed(r)
  PROVE  VerdictInv'
  <1>1. /\ clock \in Nat /\ limited \in Nat /\ exhausted \in Nat /\ Sent(r, clock)
        /\ Verdict!Done(r, "return") /\ limited' = limited
        /\ exhausted' = Verdict!Extended(exhausted, Verdict!ExhaustedReset(r))
        /\ backoff' = [attempts |-> 0, at |-> 0]
    BY DEF VerdictInv, VerdictTypes, VerdictConstants, Verdict!HandleServed, Verdict!QuotaBlock
  <1>2. r.cause = "served"
    BY <1>1, Classified DEF Verdict!HandleServed
  <1>3. /\ Verdict!ExhaustedReset(r) = Verdict!TrueReset(r.headers)
        /\ Verdict!TrueReset(r.headers) \in Nat
    BY <1>1, <1>2, ResetsOf DEF Sent, Verdict!Weighed
  <1>4. exhausted' \in Nat /\ exhausted' >= exhausted /\ exhausted' >= Verdict!TrueReset(r.headers)
    <2>1. exhausted' = Verdict!Extended(exhausted, Verdict!TrueReset(r.headers))
      BY <1>1, <1>3
    <2> QED BY <1>1, <1>3, <2>1, BlocksExtend
  <1>5. Fits(r.cause, "return") /\ r.cause \in Verdict!Weighed
    BY <1>2 DEF Fits, Verdict!Outcomes, Verdict!Weighed
  <1>6. backoff' \in [attempts : Nat, at : Nat]
    BY <1>1
  <1> QED BY <1>1, <1>4, <1>5, <1>6, HandledKeeps

LEMMA OverflowKeeps ==
  ASSUME VerdictConstants, VerdictInv, NEW r \in inFlight, Verdict!HandleOverflow(r)
  PROVE  VerdictInv'
  <1>1. /\ limited \in Nat /\ exhausted \in Nat /\ backoff \in [attempts : Nat, at : Nat]
        /\ UNCHANGED <<limited, exhausted, backoff>> /\ Verdict!Done(r, "notice")
        /\ r.cause = "overflow"
    BY DEF VerdictInv, VerdictTypes, Verdict!HandleOverflow
  <1>2. Fits(r.cause, "notice") /\ r.cause \notin Verdict!Weighed
    BY <1>1 DEF Fits, Verdict!Outcomes, Verdict!Weighed
  <1> QED BY <1>1, <1>2, HandledKeeps

LEMMA ThrottledKeeps ==
  ASSUME VerdictConstants, VerdictInv, NEW r \in inFlight, r.status # 200, Verdict!HandleLimit(r)
  PROVE  VerdictInv'
  <1>1. /\ clock \in Nat /\ limited \in Nat /\ exhausted \in Nat /\ Sent(r, clock)
        /\ Verdict!RecordError(r) /\ backoff' = [attempts |-> Verdict!Attempts, at |-> clock]
        /\ ~Verdict!ServerFault(r) /\ Verdict!RateLimited(r)
    BY DEF VerdictInv, VerdictTypes, VerdictConstants, Verdict!HandleLimit
  <1>2. r.cause \in {"usage", "throttle"} /\ r.cause \in Verdict!Weighed
    BY <1>1, Classified DEF Verdict!Weighed
  <1>3. PICK delay \in Verdict!Delays(Verdict!RetryAfter(r)) :
          \/ limited' = limited /\ Verdict!Done(r, "retry")
          \/ /\ limited' = limited \/ limited' = Verdict!Extended(limited, clock + delay)
             /\ Verdict!Done(r, "rotate")
    BY DEF Verdict!HandleLimit
  <1>4. delay \in Nat
    BY <1>2, RetriesSoon, DelaysAreNat
  <1>5. limited' \in Nat
    <2>1. clock + delay \in Nat
      BY <1>1, <1>4
    <2>2. limited' = Verdict!Extended(limited, clock + delay) => limited' \in Nat
      BY <1>1, <2>1, BlocksExtend
    <2> QED BY <1>1, <1>3, <2>2
  <1>6. backoff' \in [attempts : Nat, at : Nat]
    BY <1>1, AttemptsCount
  <1>7. Fits(r.cause, "retry") /\ Fits(r.cause, "rotate")
    BY <1>2 DEF Fits, Verdict!Outcomes
  <1> QED BY <1>1, <1>2, <1>3, <1>5, <1>6, <1>7, Recorded, HandledKeeps

LEMMA FaultKeeps ==
  ASSUME VerdictConstants, VerdictInv, NEW r \in inFlight, r.status # 200,
         Verdict!HandleServerFault(r)
  PROVE  VerdictInv'
  <1>1. /\ clock \in Nat /\ limited \in Nat /\ backoff \in [attempts : Nat, at : Nat]
        /\ Sent(r, clock) /\ Verdict!RecordError(r) /\ backoff' = backoff
        /\ Verdict!ServerFault(r) /\ Verdict!Done(r, "server")
    BY DEF VerdictInv, VerdictTypes, VerdictConstants, Verdict!HandleServerFault
  <1>2. r.cause \in {"overload", "server"} /\ r.cause \notin Verdict!Weighed
    BY <1>1, Classified DEF Verdict!Weighed
  <1>3. \/ limited' = limited
        \/ limited' = Verdict!Extended(limited, clock + Verdict!RetryAfter(r)) /\ r.cause = "overload"
    BY <1>2 DEF Verdict!HandleServerFault, Verdict!RetryAsServerError
  <1>4. limited' \in Nat /\ (limited' = limited \/ limited' <= clock + 3)
    <2>1. CASE limited' = limited BY <1>1, <2>1
    <2>2. CASE limited' = Verdict!Extended(limited, clock + Verdict!RetryAfter(r)) /\ r.cause = "overload"
      <3>1. Verdict!RetryAfter(r) \in Nat /\ Verdict!RetryAfter(r) <= 3
        BY <2>2, RetriesSoon
      <3> QED BY <1>1, <2>2, <3>1, BlocksExtend
    <2> QED BY <1>3, <2>1, <2>2
  <1>5. Fits(r.cause, "server")
    BY <1>2 DEF Fits, Verdict!Outcomes
  <1> QED BY <1>1, <1>2, <1>4, <1>5, Recorded, HandledKeeps

\* The errors that block nothing by themselves.
LEMMA PlainErrorKeeps ==
  ASSUME VerdictConstants, VerdictInv, NEW r \in inFlight, r.status # 200, r.cause # "overflow",
         Verdict!HandleSettled(r) \/ Verdict!HandleRefusal(r)
  PROVE  VerdictInv'
  <1>1. /\ limited \in Nat /\ backoff \in [attempts : Nat, at : Nat] /\ Sent(r, clock)
        /\ Verdict!RecordError(r) /\ UNCHANGED <<limited, backoff>>
    BY DEF VerdictInv, VerdictTypes, Verdict!HandleSettled, Verdict!HandleRefusal
  <1>2. PICK outcome : Verdict!Done(r, outcome) /\ Fits(r.cause, outcome)
    <2>1. CASE Verdict!HandleSettled(r)
      <3>1. /\ r.cause \in {"deactivated", "unsupported"}
            /\ Verdict!Done(r, IF r.cause = "deactivated" THEN "disable" ELSE "model")
        BY <1>1, <2>1, Classified DEF Verdict!HandleSettled
      <3>2. Fits(r.cause, IF r.cause = "deactivated" THEN "disable" ELSE "model")
        BY <3>1 DEF Fits, Verdict!Outcomes
      <3> QED BY <3>1, <3>2
    <2>2. CASE Verdict!HandleRefusal(r)
      <3>1. /\ r.cause \in {"plan", "other", "auth"}
            /\ Verdict!Done(r, IF r.cause = "auth" THEN "cool" ELSE "return")
        BY <1>1, <2>2, Classified DEF Verdict!HandleRefusal, Verdict!AllCauses
      <3>2. Fits(r.cause, IF r.cause = "auth" THEN "cool" ELSE "return")
        BY <3>1 DEF Fits, Verdict!Outcomes
      <3> QED BY <3>1, <3>2
    <2> QED BY <2>1, <2>2
  <1>3. r.cause \notin {"usage", "throttle", "served"}
    BY <1>1, Classified DEF Verdict!HandleSettled, Verdict!HandleRefusal
  <1> QED BY <1>1, <1>2, <1>3, Recorded, HandledKeeps DEF Verdict!Weighed

LEMMA VerdictNext ==
  ASSUME VerdictConstants, VerdictInv, [Verdict!Next]_Verdict!vars
  PROVE  VerdictInv'
  <1>1. CASE UNCHANGED Verdict!vars
    BY <1>1 DEF Verdict!vars, VerdictInv, VerdictTypes, Verdict!LongBlocksAreReal,
       Verdict!SpentStaysBlocked, Verdict!VerdictFits
  <1>2. CASE \E r \in inFlight :
          Verdict!HandleServed(r) \/ Verdict!HandleOverflow(r) \/ Verdict!HandleError(r)
    BY <1>2, ServedKeeps, OverflowKeeps, ThrottledKeeps, FaultKeeps, PlainErrorKeeps DEF Verdict!HandleError
  <1>3. CASE Verdict!Next
    BY <1>2, <1>3, TickKeeps, WindowsKeep, LapseKeeps, AnswerSent DEF Verdict!Next
  <1> QED BY <1>1, <1>3

\* A block longer than the cap on a server's delay comes from an answer about the
\* quota, an account the provider called spent stays out until its last spent window
\* resets, and each failure gets its own answer (handleErrorResponse,
\* markQuotaExhausted), for any windows, answers in flight and order of handling.
THEOREM VerdictsStaySafe ==
  ASSUME VerdictConstants
  PROVE  Verdict!Spec => [](Verdict!TypeOK /\ Verdict!VerdictSafe)
  <1>1. Verdict!Init => VerdictInv
    BY VerdictInit
  <1>2. VerdictInv /\ [Verdict!Next]_Verdict!vars => VerdictInv'
    BY VerdictNext
  <1>3. VerdictInv => Verdict!TypeOK /\ Verdict!VerdictSafe
    BY DEF VerdictInv, VerdictTypes, Near, Verdict!TypeOK, Verdict!VerdictSafe
  <1> QED BY <1>1, <1>2, <1>3, PTL DEF Verdict!Spec

(***************************************************************************)
(* The readings of the pool's line: none is older than it says, and no     *)
(* account is dropped, mixed up or cleared of its failure.                 *)
(***************************************************************************)
CONSTANTS Seats, Pools, Terminals, FreshFor, OldBuild, MaxVersion, MaxToken

VARIABLES used, base, dead, token, latest, file, pass, view

Shown == INSTANCE PoolReadings

ShownConstants ==
  /\ MaxVersion \in Nat \ {0} /\ MaxToken \in Nat \ {0} /\ MaxClock \in Nat \ {0}
  /\ FreshFor \in Nat /\ OldBuild \in BOOLEAN /\ "slow start" \notin Hazards
  /\ \A q \in Pools : \A i \in DOMAIN q : q[i] \in Seats

Seat == Seats \X (1 .. MaxToken)

\* A reading, wherever it is kept; index is whatever positions a pool has.
Legible(r) ==
  /\ r \in [index : {r.index}, print : Seat, of : Seats, version : 1 .. MaxVersion,
            at : 0 .. MaxClock, failed : 0 .. MaxClock, since : 0 .. MaxClock]

\* A reading of a snapshot taken at at, which now knows and b, the history, bears out.
BorneOut(r, at, now, b) ==
  LET stamp == IF r.at = 0 THEN at ELSE r.at
  IN  /\ Legible(r) /\ 1 <= at /\ at <= stamp /\ stamp <= now /\ r.failed <= now
      /\ r.version >= b[stamp][r.print[1]]
      /\ \/ r.failed = 0 /\ r.since = 0
         \/ r.since # 0 /\ r.since <= r.failed /\ stamp <= r.failed

Sound(s, now, b) ==
  /\ s \in [at : 0 .. MaxClock, readings : {s.readings}] /\ s.at <= now
  /\ \A r \in s.readings : BorneOut(r, s.at, now, b)

WorldTypes ==
  /\ clock \in 1 .. MaxClock /\ dead \subseteq Seats /\ pool \in Pools
  /\ used \in [Seats -> 1 .. MaxVersion] /\ token \in [Seats -> 1 .. MaxToken]
  /\ base \in [0 .. MaxClock -> [Seats -> 1 .. MaxVersion]]
  /\ \A t \in 0 .. clock : \A s \in Seats : base[t][s] <= used[s]
  /\ latest.at \in 0 .. clock
  /\ latest.at # 0 => /\ latest.print \in Seat /\ latest.version \in 1 .. MaxVersion
                      /\ latest.version >= base[latest.at][latest.print[1]]

PassStages == {"idle", "begun", "cached", "fetching", "writing", "merging"}

\* What a pass has been answered so far.
Answered(p, b) ==
  /\ p.stored \in Pools /\ DOMAIN p.prints = DOMAIN p.stored
  /\ DOMAIN p.results \subseteq DOMAIN p.stored
  /\ \A i \in DOMAIN p.stored : p.prints[i] \in Seat /\ p.prints[i][1] = p.stored[i]
  /\ \A i \in DOMAIN p.results : p.results[i][1] = "read" =>
       p.results[i][2] \in 1 .. MaxVersion /\ p.results[i][2] >= b[p.now][p.stored[i]]

\* A pass that writes has kept what it had read before of the accounts it could not read.
Complete(p) ==
  /\ \A r \in p.snapshot.readings : p.stored[r.index] = r.print[1]
  /\ \A r \in p.cached.readings :
       r.index \in DOMAIN p.stored /\ p.prints[r.index] = r.print =>
         \E q \in p.snapshot.readings : q.index = r.index /\ q.print = r.print

Passes(p, time, b) ==
  /\ p \in [phase : PassStages, now : 0 .. MaxClock, cached : {p.cached}, stored : {p.stored},
            prints : {p.prints}, results : {p.results}, snapshot : {p.snapshot}]
  /\ p.now <= time /\ (p.phase # "idle" => p.now >= 1)
  /\ p.phase = "begun" => p.now = time
  /\ p.phase \in {"idle", "begun", "cached"} => p.results = <<>>
  /\ Sound(p.cached, p.now, b) /\ Sound(p.snapshot, time, b)
  /\ p.phase = "fetching" => Answered(p, b)
  /\ p.phase = "writing" => Complete(p)

Tells(v, time, b) ==
  /\ v \in [type : {"loading", "unavailable", "ready"}, snapshot : {v.snapshot}, stale : BOOLEAN,
            now : 0 .. MaxClock]
  /\ Sound(v.snapshot, time, b)
  /\ v.type = "ready" /\ ~v.stale => v.now < v.snapshot.at + FreshFor

ShownInv ==
  /\ WorldTypes /\ Sound(file, clock, base)
  /\ pass = [t \in Terminals |-> pass[t]] /\ \A t \in Terminals : Passes(pass[t], clock, base)
  /\ view = [t \in Terminals |-> view[t]] /\ \A t \in Terminals : Tells(view[t], clock, base)

-----------------------------------------------------------------------------
LEMMA ShownBounds ==
  ASSUME ShownConstants
  PROVE  /\ MaxVersion \in Nat /\ MaxVersion >= 1 /\ MaxToken \in Nat /\ MaxToken >= 1
         /\ MaxClock \in Nat /\ MaxClock >= 1 /\ FreshFor \in Nat
  <1>1. MaxVersion \in Nat \ {0} /\ MaxToken \in Nat \ {0} /\ MaxClock \in Nat \ {0} /\ FreshFor \in Nat
    BY Zenon DEF ShownConstants
  <1> QED BY <1>1

LEMMA NothingRead ==
  ASSUME ShownConstants, NEW now \in 0 .. MaxClock, NEW b
  PROVE  Sound(Shown!NoSnapshot, now, b)
  BY ShownBounds DEF Shown!NoSnapshot, Sound

\* What is sound remains so as time passes.
LEMMA BorneOutLater ==
  ASSUME ShownConstants, NEW r, NEW at \in 0 .. MaxClock, NEW now \in 0 .. MaxClock,
         NEW later \in 0 .. MaxClock, now <= later, NEW b, NEW c,
         \A t \in 0 .. now : c[t] = b[t], BorneOut(r, at, now, b)
  PROVE  BorneOut(r, at, later, c)
  <1> DEFINE stamp == IF r.at = 0 THEN at ELSE r.at
  <1>1. /\ Legible(r) /\ 1 <= at /\ at <= stamp /\ stamp <= now /\ r.failed <= now
        /\ r.version >= b[stamp][r.print[1]]
        /\ \/ r.failed = 0 /\ r.since = 0
           \/ r.since # 0 /\ r.since <= r.failed /\ stamp <= r.failed
    BY DEF BorneOut
  <1>2. stamp \in 0 .. now /\ r.failed \in Nat
    BY <1>1, ShownBounds DEF Legible
  <1>3. c[stamp] = b[stamp] /\ stamp <= later /\ r.failed <= later
    BY <1>1, <1>2, ShownBounds
  <1> QED BY <1>1, <1>3 DEF BorneOut

LEMMA SoundLater ==
  ASSUME ShownConstants, NEW s, NEW now \in 0 .. MaxClock, NEW later \in 0 .. MaxClock,
         now <= later, NEW b, NEW c, \A t \in 0 .. now : c[t] = b[t], Sound(s, now, b)
  PROVE  Sound(s, later, c)
  <1>1. s \in [at : 0 .. MaxClock, readings : {s.readings}] /\ s.at \in 0 .. MaxClock /\ s.at <= now
    BY DEF Sound
  <1>2. s.at <= later
    BY <1>1, ShownBounds
  <1>3. \A r \in s.readings : BorneOut(r, s.at, later, c)
    BY <1>1, BorneOutLater DEF Sound
  <1> QED BY <1>1, <1>2, <1>3 DEF Sound

LEMMA ShownInit ==
  ASSUME ShownConstants, Shown!Init
  PROVE  ShownInv
  <1>1. 1 \in 1 .. MaxClock /\ 0 \in 0 .. MaxClock /\ 1 \in 1 .. MaxVersion /\ 1 \in 1 .. MaxToken
    BY ShownBounds
  <1>2. /\ clock = 1 /\ used = [s \in Seats |-> 1] /\ dead = {} /\ token = [s \in Seats |-> 1]
        /\ pool \in Pools /\ base = [t \in 0 .. MaxClock |-> [s \in Seats |-> 1]]
        /\ latest = Shown!NoHeaders
    BY DEF Shown!Init
  <1>3. WorldTypes
    BY <1>1, <1>2 DEF WorldTypes, Shown!NoHeaders
  <1>4. Sound(file, clock, base)
    <2>1. CASE ~OldBuild BY <1>1, <1>2, <2>1, NothingRead DEF Shown!Init
    <2>2. CASE OldBuild
      <3> DEFINE readings == {Shown!Reading(i, Shown!Fingerprint(pool[i]), 1, 0) : i \in DOMAIN pool}
      <3>1. file = [at |-> 1, readings |-> readings]
        BY <2>2 DEF Shown!Init
      <3>2. ASSUME NEW i \in DOMAIN pool
            PROVE  BorneOut(Shown!Reading(i, Shown!Fingerprint(pool[i]), 1, 0), 1, 1, base)
        <4>1. pool[i] \in Seats /\ Shown!Fingerprint(pool[i]) = <<pool[i], 1>>
          BY <1>2 DEF ShownConstants, Shown!Fingerprint
        <4>2. Shown!Reading(i, Shown!Fingerprint(pool[i]), 1, 0) =
                [index |-> i, print |-> <<pool[i], 1>>, of |-> pool[i], version |-> 1, at |-> 0,
                 failed |-> 0, since |-> 0]
          BY <4>1 DEF Shown!Reading
        <4>3. base[1][pool[i]] = 1
          BY <1>1, <1>2, <4>1
        <4> QED BY <1>1, <4>1, <4>2, <4>3 DEF BorneOut, Legible, Seat
      <3> HIDE DEF readings
      <3>3. \A r \in readings : BorneOut(r, 1, 1, base)
        BY <3>2 DEF readings
      <3> QED BY <1>1, <1>2, <3>1, <3>3, ShownBounds DEF Sound
    <2> QED BY <2>1, <2>2 DEF ShownConstants
  <1>5. Passes(Shown!Idle, clock, base)
    BY <1>1, <1>2, NothingRead DEF Passes, Shown!Idle, PassStages
  <1>6. Tells(Shown!Loading, clock, base)
    BY <1>1, <1>2, NothingRead DEF Tells, Shown!Loading
  <1>7. pass = [t \in Terminals |-> Shown!Idle] /\ view = [t \in Terminals |-> Shown!Loading]
    BY DEF Shown!Init
  <1> QED BY <1>3, <1>4, <1>5, <1>6, <1>7 DEF ShownInv

-----------------------------------------------------------------------------
\* What the steps of one terminal have in common.
LEMMA TerminalStep ==
  ASSUME ShownInv, NEW t \in Terminals, NEW p, NEW v,
         Passes(p, clock, base), Tells(v, clock, base),
         pass' = [pass EXCEPT ![t] = p], view' = [view EXCEPT ![t] = v],
         clock' = clock, base' = base, WorldTypes', Sound(file', clock, base)
  PROVE  ShownInv'
  <1>1. pass' = [s \in Terminals |-> IF s = t THEN p ELSE pass[s]]
    BY DEF ShownInv
  <1>2. view' = [s \in Terminals |-> IF s = t THEN v ELSE view[s]]
    BY DEF ShownInv
  <1>3. \A s \in Terminals : Passes(pass'[s], clock, base)
    BY <1>1 DEF ShownInv
  <1>4. \A s \in Terminals : Tells(view'[s], clock, base)
    BY <1>2 DEF ShownInv
  <1>5. pass' = [s \in Terminals |-> pass'[s]] /\ view' = [s \in Terminals |-> view'[s]]
    BY <1>1, <1>2
  <1> QED BY <1>3, <1>4, <1>5 DEF ShownInv

LEMMA WorldStands ==
  ASSUME ShownInv, UNCHANGED Shown!world
  PROVE  WorldTypes' /\ clock' = clock /\ base' = base
  BY DEF Shown!world, ShownInv, WorldTypes

LEMMA PassGoesOn ==
  ASSUME ShownInv, NEW t \in Terminals, NEW p, Passes(p, clock, base), Shown!Goes(t, p),
         UNCHANGED <<file, view>>, WorldTypes', clock' = clock, base' = base
  PROVE  ShownInv'
  <1>1. view' = [view EXCEPT ![t] = view[t]] /\ Tells(view[t], clock, base) /\ Sound(file', clock, base)
    BY DEF ShownInv
  <1> QED BY <1>1, TerminalStep DEF Shown!Goes

LEMMA WorldMoves ==
  ASSUME ShownInv, UNCHANGED <<clock, base, file, pass, view>>, WorldTypes'
  PROVE  ShownInv'
  BY DEF ShownInv

LEMMA WorldKeeps ==
  ASSUME ShownConstants, ShownInv,
         Shown!PoolChanges \/ \E s \in Seats : Shown!Serve(s) \/ Shown!Dies(s) \/ Shown!Login(s)
  PROVE  ShownInv'
  <1>1. CASE Shown!PoolChanges
    BY <1>1, WorldMoves DEF Shown!PoolChanges, ShownInv, WorldTypes
  <1>2. ASSUME NEW s \in Seats, Shown!Dies(s)
        PROVE  ShownInv'
    BY <1>2, WorldMoves DEF Shown!Dies, ShownInv, WorldTypes
  <1>3. ASSUME NEW s \in Seats, Shown!Login(s)
        PROVE  ShownInv'
    <2>1. token' \in [Seats -> 1 .. MaxToken]
      BY <1>3, ShownBounds DEF Shown!Login, ShownInv, WorldTypes
    <2> QED BY <1>3, <2>1, WorldMoves DEF Shown!Login, ShownInv, WorldTypes
  <1>4. ASSUME NEW s \in Seats, Shown!Serve(s)
        PROVE  ShownInv'
    <2>1. /\ used' = [used EXCEPT ![s] = @ + 1] /\ used[s] < MaxVersion
          /\ latest' \in {latest, [print |-> Shown!Fingerprint(s), version |-> used[s] + 1, at |-> clock]}
          /\ UNCHANGED <<clock, base, dead, token, pool, file, pass, view>>
      BY <1>4 DEF Shown!Serve
    <2>2. WorldTypes
      BY DEF ShownInv
    <2>3. used' \in [Seats -> 1 .. MaxVersion] /\ used'[s] = used[s] + 1
      BY <2>1, <2>2, ShownBounds DEF WorldTypes
    <2>4. \A t \in 0 .. clock : \A q \in Seats : base[t][q] <= used'[q]
      <3> SUFFICES ASSUME NEW t \in 0 .. clock, NEW q \in Seats
                   PROVE  base[t][q] <= used'[q]
        OBVIOUS
      <3>1. base[t][q] <= used[q] /\ t \in 0 .. MaxClock
        BY <2>2, ShownBounds DEF WorldTypes
      <3>2. used[q] \in 1 .. MaxVersion /\ base[t] \in [Seats -> 1 .. MaxVersion]
        BY <2>2, <3>1 DEF WorldTypes
      <3>3. base[t][q] \in Nat /\ used[q] \in Nat
        BY <3>2, ShownBounds
      <3>4. used'[q] = IF q = s THEN used[q] + 1 ELSE used[q]
        BY <2>1, <2>2 DEF WorldTypes
      <3> QED BY <3>1, <3>3, <3>4
    <2>5. CASE latest' = latest
      BY <2>1, <2>2, <2>3, <2>4, <2>5, WorldMoves DEF WorldTypes
    <2>6. CASE latest' = [print |-> Shown!Fingerprint(s), version |-> used[s] + 1, at |-> clock]
      <3>1. latest'.print = <<s, token[s]>> /\ latest'.version = used[s] + 1 /\ latest'.at = clock
        BY <2>6 DEF Shown!Fingerprint
      <3>2. latest'.print \in Seat /\ latest'.print[1] = s
        BY <2>2, <3>1 DEF Seat, WorldTypes
      <3>3. latest'.at \in 0 .. clock /\ latest'.version \in 1 .. MaxVersion
        BY <2>1, <2>2, <3>1, ShownBounds DEF WorldTypes
      <3>4. latest'.version >= base[latest'.at][latest'.print[1]]
        BY <2>1, <2>3, <2>4, <3>1, <3>2, <2>2, ShownBounds DEF WorldTypes
      <3>5. WorldTypes'
        BY <2>1, <2>2, <2>3, <2>4, <3>2, <3>3, <3>4 DEF WorldTypes
      <3> QED BY <2>1, <3>5, WorldMoves
    <2> QED BY <2>1, <2>5, <2>6
  <1> QED BY <1>1, <1>2, <1>3, <1>4

LEMMA TickShows ==
  ASSUME ShownConstants, ShownInv, Shown!Tick
  PROVE  ShownInv'
  <1>1. /\ clock < MaxClock /\ clock' = clock + 1 /\ base' = [base EXCEPT ![clock + 1] = used]
        /\ \A t \in Terminals : pass[t].phase # "begun"
        /\ UNCHANGED <<used, dead, token, pool, latest, file, pass, view>>
    BY DEF Shown!Tick, ShownConstants
  <1>2. WorldTypes
    BY DEF ShownInv
  <1>3. clock \in 1 .. MaxClock /\ clock' \in 1 .. MaxClock /\ clock <= clock'
    BY <1>1, <1>2, ShownBounds DEF WorldTypes
  <1>4. base' \in [0 .. MaxClock -> [Seats -> 1 .. MaxVersion]] /\ base'[clock'] = used
    BY <1>1, <1>2, <1>3, ShownBounds DEF WorldTypes
  <1>5. \A t \in 0 .. clock : base'[t] = base[t]
    BY <1>1, <1>2, <1>3, ShownBounds DEF WorldTypes
  <1>6. \A t \in 0 .. clock' : \A s \in Seats : base'[t][s] <= used[s]
    <2> SUFFICES ASSUME NEW t \in 0 .. clock', NEW s \in Seats
                 PROVE  base'[t][s] <= used[s]
      OBVIOUS
    <2>1. CASE t = clock'
      <3>1. used[s] \in Nat
        BY <1>2, ShownBounds DEF WorldTypes
      <3> QED BY <2>1, <1>4, <3>1
    <2>2. CASE t # clock'
      <3>1. t \in 0 .. clock
        BY <1>1, <1>3, <2>2, ShownBounds
      <3> QED BY <1>2, <1>5, <3>1 DEF WorldTypes
    <2> QED BY <2>1, <2>2
  <1>7. latest.at \in 0 .. clock' /\ base'[latest.at] = base[latest.at]
    BY <1>1, <1>2, <1>3, <1>5, ShownBounds DEF WorldTypes
  <1>8. WorldTypes'
    BY <1>1, <1>2, <1>3, <1>4, <1>6, <1>7 DEF WorldTypes
  <1>9. \A s : Sound(s, clock, base) => Sound(s, clock', base')
    BY <1>3, <1>5, SoundLater, ShownBounds
  <1>10. ASSUME NEW t \in Terminals
         PROVE  Passes(pass[t], clock', base')
    <2>1. Passes(pass[t], clock, base)
      BY DEF ShownInv
    <2>2. pass[t].now \in 0 .. MaxClock /\ pass[t].now <= clock
      BY <2>1 DEF Passes
    <2>3. Sound(pass[t].cached, pass[t].now, base')
      <3>1. \A n \in 0 .. pass[t].now : base'[n] = base[n]
        BY <1>3, <1>5, <2>2, ShownBounds
      <3>2. Sound(pass[t].cached, pass[t].now, base)
        BY <2>1 DEF Passes
      <3> QED BY <2>2, <3>1, <3>2, SoundLater, ShownBounds
    <2>4. Answered(pass[t], base) => Answered(pass[t], base')
      BY <1>3, <1>5, <2>2, ShownBounds DEF Answered
    <2>5. pass[t].now <= clock'
      BY <1>3, <2>2, ShownBounds
    <2> QED BY <1>1, <1>9, <2>1, <2>3, <2>4, <2>5 DEF Passes
  <1>11. ASSUME NEW t \in Terminals
         PROVE  Tells(view[t], clock', base')
    BY <1>9 DEF ShownInv, Tells
  <1>12. Sound(file, clock', base')
    BY <1>9 DEF ShownInv
  <1> QED BY <1>1, <1>8, <1>10, <1>11, <1>12 DEF ShownInv

LEMMA BeginShows ==
  ASSUME ShownConstants, ShownInv, NEW t \in Terminals, Shown!Begin(t)
  PROVE  ShownInv'
  <1> DEFINE p == [Shown!Idle EXCEPT !.phase = "begun", !.now = clock]
  <1>1. clock \in 1 .. MaxClock /\ clock \in 0 .. MaxClock /\ clock <= clock /\ clock >= 1
    BY ShownBounds DEF ShownInv, WorldTypes
  <1>2. Passes(p, clock, base)
    BY <1>1, NothingRead DEF Passes, Shown!Idle, PassStages
  <1> HIDE DEF p
  <1>3. Shown!Goes(t, p) /\ UNCHANGED Shown!world /\ UNCHANGED <<file, view>>
    BY DEF Shown!Begin, p
  <1> QED BY <1>2, <1>3, PassGoesOn, WorldStands

LEMMA ReadCacheShows ==
  ASSUME ShownConstants, ShownInv, NEW t \in Terminals, Shown!ReadCache(t)
  PROVE  ShownInv'
  <1> DEFINE p == pass[t]
             q == [pass[t] EXCEPT !.phase = "merging", !.snapshot = file]
             c == [pass[t] EXCEPT !.phase = "cached", !.cached = file]
  <1>1. Passes(p, clock, base) /\ Sound(file, clock, base) /\ p.phase = "begun"
    BY DEF ShownInv, Shown!ReadCache
  <1>2. p.now = clock
    BY <1>1 DEF Passes
  <1>3. Passes(q, clock, base)
    BY <1>1, <1>2 DEF Passes, PassStages
  <1>4. Passes(c, clock, base)
    BY <1>1, <1>2 DEF Passes, PassStages
  <1>5. (Shown!Goes(t, q) \/ Shown!Goes(t, c)) /\ UNCHANGED Shown!world /\ UNCHANGED <<file, view>>
    BY DEF Shown!ReadCache
  <1> HIDE DEF p, q, c
  <1> QED BY <1>3, <1>4, <1>5, PassGoesOn, WorldStands

LEMMA IdleShows ==
  ASSUME ShownConstants, ShownInv
  PROVE  Passes(Shown!Idle, clock, base) /\ Sound(Shown!NoSnapshot, clock, base)
  <1>1. clock \in 0 .. MaxClock /\ 0 \in 0 .. MaxClock /\ 0 <= clock
    BY ShownBounds DEF ShownInv, WorldTypes
  <1> QED BY <1>1, NothingRead DEF Passes, Shown!Idle, PassStages

LEMMA UnavailableShows ==
  ASSUME ShownConstants, ShownInv, NEW t \in Terminals,
         Shown!Goes(t, Shown!Idle), Shown!Unavailable(t), UNCHANGED Shown!world, UNCHANGED file
  PROVE  ShownInv'
  <1> DEFINE v == [Shown!Loading EXCEPT !.type = "unavailable"]
  <1>1. Tells(v, clock, base)
    <2>1. v \in [type : {"unavailable"}, snapshot : {Shown!NoSnapshot}, stale : BOOLEAN, now : {0}]
      BY DEF Shown!Loading
    <2>2. 0 \in 0 .. MaxClock
      BY ShownBounds
    <2> HIDE DEF v
    <2> QED BY <2>1, <2>2, IdleShows DEF Tells
  <1>2. view' = [view EXCEPT ![t] = v] /\ pass' = [pass EXCEPT ![t] = Shown!Idle]
    BY DEF Shown!Unavailable, Shown!Goes
  <1> HIDE DEF v
  <1>3. Sound(file', clock, base)
    BY DEF ShownInv
  <1> QED BY <1>1, <1>2, <1>3, IdleShows, TerminalStep, WorldStands

LEMMA LoadStorageShows ==
  ASSUME ShownConstants, ShownInv, NEW t \in Terminals, Shown!LoadStorage(t)
  PROVE  ShownInv'
  <1> DEFINE p == [pass[t] EXCEPT !.phase = "fetching", !.stored = pool,
                                  !.prints = [i \in DOMAIN pool |-> Shown!Fingerprint(pool[i])]]
  <1>1. CASE DOMAIN pool = {} BY <1>1, UnavailableShows DEF Shown!LoadStorage
  <1>2. CASE DOMAIN pool # {}
    <2>1. Passes(pass[t], clock, base) /\ WorldTypes
      BY DEF ShownInv
    <2>2. pool \in Pools /\ \A i \in DOMAIN pool : Shown!Fingerprint(pool[i]) \in Seat
                                                /\ Shown!Fingerprint(pool[i])[1] = pool[i]
      BY <2>1 DEF WorldTypes, Shown!Fingerprint, Seat, ShownConstants
    <2>3. p \in [phase : {"fetching"}, now : {pass[t].now}, cached : {pass[t].cached}, stored : {pool},
                prints : {p.prints}, results : {<<>>}, snapshot : {pass[t].snapshot}]
      BY <2>1 DEF Passes, Shown!LoadStorage
    <2>4. DOMAIN p.prints = DOMAIN pool /\ \A i \in DOMAIN pool : p.prints[i] = Shown!Fingerprint(pool[i])
      BY <2>1 DEF Passes
    <2> HIDE DEF p
    <2>5. Answered(p, base)
      BY <2>2, <2>3, <2>4 DEF Answered
    <2>6. Passes(p, clock, base)
      BY <2>1, <2>3, <2>5 DEF Passes, PassStages, Shown!LoadStorage
    <2>7. Shown!Goes(t, p) /\ UNCHANGED Shown!world /\ UNCHANGED <<file, view>>
      BY <1>2 DEF Shown!LoadStorage, p
    <2> QED BY <2>6, <2>7, PassGoesOn, WorldStands
  <1> QED BY <1>1, <1>2

\* The larger and the smaller of two numbers.
LEMMA LaterOf ==
  ASSUME NEW m \in Int, NEW n \in Int
  PROVE  Shown!Max({m, n}) = IF m >= n THEN m ELSE n
  BY DEF Shown!Max

LEMMA EarlierOf ==
  ASSUME NEW m \in Int, NEW n \in Int
  PROVE  Shown!Min({m, n}) = IF m <= n THEN m ELSE n
  BY DEF Shown!Min

LEMMA FetchShows ==
  ASSUME ShownConstants, ShownInv, NEW t \in Terminals, NEW i, Shown!Fetch(t, i)
  PROVE  ShownInv'
  <1> DEFINE p == pass[t]
             s == p.stored[i]
             Then(print, result) ==
               [p EXCEPT !.prints[i] = print,
                         !.results = [j \in DOMAIN @ \cup {i} |-> IF j = i THEN result ELSE @[j]]]
  <1>1. p.phase = "fetching" /\ i \in DOMAIN p.stored
    BY DEF Shown!Fetch, Shown!Asked
  <1>2. Passes(p, clock, base) /\ Answered(p, base) /\ WorldTypes
    BY <1>1 DEF ShownInv, Passes
  <1>3. s \in Seats /\ p.prints[i] \in Seat /\ p.prints[i][1] = s
    BY <1>1, <1>2 DEF Answered, ShownConstants
  <1>4. token[s] \in 1 .. MaxToken /\ used[s] \in 1 .. MaxVersion
    BY <1>2, <1>3 DEF WorldTypes
  <1>5. PICK print \in IF s \in dead THEN {p.prints[i]} ELSE Shown!Refreshed(p, i),
             result \in IF s \in dead THEN {<<"credential", 0>>}
                        ELSE {<<"transient", 0>>, <<"read", used[s]>>} :
               /\ token' = [token EXCEPT ![s] = Shown!Max({@, print[2]})]
               /\ Shown!Goes(t, Then(print, result))
    BY DEF Shown!Fetch
  <1> DEFINE q == Then(print, result)
  <1>6. UNCHANGED <<clock, used, base, dead, pool, latest, file, view>>
    BY DEF Shown!Fetch
  <1>7. print \in Seat /\ print[1] = s
    <2>1. CASE print = p.prints[i] BY <1>3, <2>1
    <2>2. CASE print \in Shown!Refreshed(p, i)
      <3>1. Shown!Min({token[s] + 1, MaxToken}) <= MaxToken /\ Shown!Min({token[s] + 1, MaxToken}) \in Int
        <4>1. token[s] + 1 \in Int /\ MaxToken \in Int
          BY <1>4, ShownBounds
        <4> HIDE DEF s
        <4> QED BY <4>1, EarlierOf
      <3>2. PICK n \in token[s] .. Shown!Min({token[s] + 1, MaxToken}) :
              print = p.prints[i] \/ print = <<s, n>>
        <4>1. token[s] \in token[s] .. Shown!Min({token[s] + 1, MaxToken})
          BY <1>4, EarlierOf, ShownBounds
        <4> QED BY <2>2, <4>1 DEF Shown!Refreshed
      <3>3. n \in 1 .. MaxToken
        BY <1>4, <3>1, ShownBounds
      <3> QED BY <1>3, <3>2, <3>3 DEF Seat
    <2> QED BY <1>5, <2>1, <2>2
  <1>8. token' \in [Seats -> 1 .. MaxToken]
    <2>1. print[2] \in 1 .. MaxToken
      BY <1>7 DEF Seat
    <2>2. Shown!Max({token[s], print[2]}) \in 1 .. MaxToken
      BY <1>4, <2>1, LaterOf, ShownBounds
    <2> QED BY <1>2, <1>5, <2>2 DEF WorldTypes
  <1>9. WorldTypes'
    BY <1>2, <1>6, <1>8 DEF WorldTypes
  <1>10. /\ q \in [phase : {"fetching"}, now : {p.now}, cached : {p.cached}, stored : {p.stored},
                    prints : {q.prints}, results : {q.results}, snapshot : {p.snapshot}]
         /\ q.prints = [p.prints EXCEPT ![i] = print]
         /\ q.results = [j \in DOMAIN p.results \cup {i} |-> IF j = i THEN result ELSE p.results[j]]
    <2>1. p \in [phase : PassStages, now : 0 .. MaxClock, cached : {p.cached}, stored : {p.stored},
                 prints : {p.prints}, results : {p.results}, snapshot : {p.snapshot}]
      BY <1>2 DEF Passes
    <2> QED BY <1>1, <2>1
  <1>11. result[1] = "read" => result[2] \in 1 .. MaxVersion /\ result[2] >= base[p.now][s]
    <2>1. p.now \in 0 .. clock
      BY <1>2, ShownBounds DEF Passes
    <2>2. used[s] >= base[p.now][s]
      <3>1. base[p.now][s] <= used[s] /\ p.now \in 0 .. MaxClock
        BY <1>2, <1>3, <2>1, ShownBounds DEF WorldTypes
      <3>2. base[p.now] \in [Seats -> 1 .. MaxVersion]
        BY <1>2, <3>1 DEF WorldTypes
      <3>3. base[p.now][s] \in Nat /\ used[s] \in Nat
        BY <1>3, <1>4, <3>2, ShownBounds
      <3> QED BY <3>1, <3>3
    <2>3. result = <<"credential", 0>> \/ result = <<"transient", 0>> \/ result = <<"read", used[s]>>
      BY <1>5
    <2> QED BY <1>4, <2>2, <2>3
  <1> HIDE DEF q, Then
  <1>12. Answered(q, base)
    <2>1. q.stored = p.stored /\ q.now = p.now /\ DOMAIN q.prints = DOMAIN p.stored
          /\ DOMAIN q.results \subseteq DOMAIN p.stored
      BY <1>1, <1>2, <1>10 DEF Answered
    <2>2. ASSUME NEW j \in DOMAIN p.stored
          PROVE  q.prints[j] \in Seat /\ q.prints[j][1] = p.stored[j]
      <3>1. q.prints[j] = IF j = i THEN print ELSE p.prints[j]
        BY <1>2, <1>10 DEF Answered
      <3> QED BY <1>2, <1>7, <3>1 DEF Answered
    <2>3. ASSUME NEW j \in DOMAIN q.results, q.results[j][1] = "read"
          PROVE  q.results[j][2] \in 1 .. MaxVersion /\ q.results[j][2] >= base[p.now][p.stored[j]]
      <3>1. CASE j = i BY <1>10, <1>11, <2>3, <3>1
      <3>2. CASE j # i BY <1>2, <1>10, <2>3, <3>2 DEF Answered
      <3> QED BY <3>1, <3>2
    <2> QED BY <1>2, <2>1, <2>2, <2>3 DEF Answered
  <1>13. Passes(q, clock, base)
    BY <1>1, <1>2, <1>10, <1>12 DEF Passes, PassStages
  <1>14. Shown!Goes(t, q)
    BY <1>5 DEF q
  <1> HIDE DEF p, s
  <1> QED BY <1>6, <1>9, <1>13, <1>14, PassGoesOn

\* A reading carried over by a pass keeps its time, and says since when it fails.
LEMMA KeptIsHonest ==
  ASSUME ShownConstants, NEW p, NEW r, NEW b, p.now \in 0 .. MaxClock, p.now >= 1,
         p.cached.at \in 0 .. MaxClock, BorneOut(r, p.cached.at, p.now, b)
  PROVE  BorneOut(Shown!Kept(p, r), p.cached.at, p.now, b)
         /\ Shown!Kept(p, r).index = r.index /\ Shown!Kept(p, r).print = r.print
  <1> DEFINE k == Shown!Kept(p, r)
             at == p.cached.at
             now == p.now
             failed == p.results[r.index][1] = "credential"
             stamp == IF r.at = 0 THEN at ELSE r.at
  <1>1. /\ Legible(r) /\ 1 <= at /\ at <= stamp /\ stamp <= now /\ r.failed <= now
        /\ r.version >= b[stamp][r.print[1]]
        /\ \/ r.failed = 0 /\ r.since = 0
           \/ r.since # 0 /\ r.since <= r.failed /\ stamp <= r.failed
    BY DEF BorneOut
  <1>2. stamp \in 1 .. MaxClock /\ r.failed \in 0 .. MaxClock /\ r.since \in 0 .. MaxClock
        /\ at \in 0 .. MaxClock /\ now \in 0 .. MaxClock /\ now >= 1
    BY <1>1, ShownBounds DEF Legible
  <1>3. k \in [index : {r.index}, print : {r.print}, of : {r.of}, version : {r.version}, at : {stamp},
               failed : {IF failed THEN now ELSE r.failed},
               since : {IF ~failed THEN r.since ELSE IF r.since # 0 THEN r.since
                                                ELSE IF r.failed # 0 THEN r.failed ELSE now}]
    BY <1>1 DEF Legible, Shown!Kept
  <1> HIDE DEF k, failed, stamp
  <1>4. k.failed \in 0 .. MaxClock /\ k.since \in 0 .. MaxClock /\ k.failed <= now
        /\ \/ k.failed = 0 /\ k.since = 0
           \/ k.since # 0 /\ k.since <= k.failed /\ stamp <= k.failed
    BY <1>1, <1>2, <1>3, ShownBounds
  <1>5. Legible(k) /\ k.at = stamp /\ stamp # 0
    <2>1. r.print \in Seat /\ r.of \in Seats /\ r.version \in 1 .. MaxVersion
      BY <1>1 DEF Legible
    <2>2. stamp # 0 /\ stamp \in 0 .. MaxClock
      BY <1>2, ShownBounds
    <2> QED BY <1>3, <1>4, <2>1, <2>2 DEF Legible
  <1>6. BorneOut(k, at, now, b)
    BY <1>1, <1>3, <1>4, <1>5 DEF BorneOut
  <1> QED BY <1>3, <1>6 DEF k

\* A reading a pass has made itself is from its now, or later.
LEMMA ReadIsHonest ==
  ASSUME ShownConstants, NEW p, NEW b, NEW i, NEW at \in 1 .. MaxClock, at <= p.now,
         p.now \in 1 .. MaxClock, p.prints[i] \in Seat, p.results[i][2] \in 1 .. MaxVersion,
         p.results[i][2] >= b[p.now][p.prints[i][1]]
  PROVE  BorneOut(Shown!Reading(i, p.prints[i], p.results[i][2], p.now), at, p.now, b)
  <1> DEFINE r == Shown!Reading(i, p.prints[i], p.results[i][2], p.now)
  <1>1. r = [index |-> i, print |-> p.prints[i], of |-> p.prints[i][1], version |-> p.results[i][2],
             at |-> p.now, failed |-> 0, since |-> 0]
    BY DEF Shown!Reading
  <1>2. p.prints[i][1] \in Seats /\ 0 \in 0 .. MaxClock /\ p.now \in 0 .. MaxClock /\ p.now # 0
        /\ 1 <= at /\ p.now <= p.now /\ 0 <= p.now
    BY ShownBounds DEF Seat
  <1> HIDE DEF r
  <1> QED BY <1>1, <1>2 DEF r, BorneOut, Legible

LEMMA GatheredIsSound ==
  ASSUME ShownConstants, NEW p, NEW time \in 0 .. MaxClock, NEW b, Passes(p, time, b),
         p.phase = "fetching", DOMAIN p.results = DOMAIN p.stored
  PROVE  /\ Sound(Shown!Gathered(p), p.now, b)
         /\ Complete([p EXCEPT !.phase = "writing", !.snapshot = Shown!Gathered(p)])
  <1> DEFINE g == Shown!Gathered(p)
             fresh(i) == Shown!Reading(i, p.prints[i], p.results[i][2], p.now)
             q == [p EXCEPT !.phase = "writing", !.snapshot = g]
  <1>1. Answered(p, b) /\ Sound(p.cached, p.now, b) /\ p.now \in 0 .. MaxClock /\ p.now >= 1
    BY DEF Passes
  <1>2. p.cached.at \in 0 .. MaxClock /\ p.cached.at <= p.now
        /\ \A r \in p.cached.readings : BorneOut(r, p.cached.at, p.now, b)
    BY <1>1 DEF Sound
  <1>3. g.at = (IF Shown!CarriedOver(p) = {} THEN p.now ELSE Shown!Min({p.cached.at, p.now}))
        /\ g.readings = {fresh(i) : i \in Shown!Read(p)} \cup Shown!CarriedOver(p)
        /\ g = [at |-> g.at, readings |-> g.readings]
    BY DEF Shown!Gathered
  <1> HIDE DEF g
  <1>4. \A k \in Shown!CarriedOver(p) : \E r \in p.cached.readings :
          /\ r.index \in DOMAIN p.stored /\ r.print = p.prints[r.index] /\ k = Shown!Kept(p, r)
    <2> SUFFICES ASSUME NEW k \in Shown!CarriedOver(p)
                 PROVE  \E r \in p.cached.readings :
                          r.index \in DOMAIN p.stored /\ r.print = p.prints[r.index] /\ k = Shown!Kept(p, r)
      OBVIOUS
    <2>1. PICK r \in UNION {Shown!Previous(p, i) : i \in DOMAIN p.stored \ Shown!Read(p)} : k = Shown!Kept(p, r)
      BY DEF Shown!CarriedOver
    <2>2. PICK i \in DOMAIN p.stored : r \in Shown!Previous(p, i)
      BY <2>1
    <2> QED BY <2>1, <2>2 DEF Shown!Previous
  <1>5. \A k \in Shown!CarriedOver(p) :
          BorneOut(k, p.cached.at, p.now, b) /\ k.index \in DOMAIN p.stored /\ k.print = p.prints[k.index]
    <2> SUFFICES ASSUME NEW k \in Shown!CarriedOver(p)
                 PROVE  BorneOut(k, p.cached.at, p.now, b) /\ k.index \in DOMAIN p.stored
                        /\ k.print = p.prints[k.index]
      OBVIOUS
    <2>1. PICK r \in p.cached.readings :
            r.index \in DOMAIN p.stored /\ r.print = p.prints[r.index] /\ k = Shown!Kept(p, r)
      BY <1>4
    <2>2. BorneOut(r, p.cached.at, p.now, b)
      BY <1>2
    <2>3. BorneOut(Shown!Kept(p, r), p.cached.at, p.now, b) /\ Shown!Kept(p, r).index = r.index
          /\ Shown!Kept(p, r).print = r.print
      BY <1>1, <1>2, <2>2, KeptIsHonest
    <2> QED BY <2>1, <2>3
  <1>6. g.at \in 1 .. MaxClock /\ g.at <= p.now /\ (Shown!CarriedOver(p) # {} => g.at = p.cached.at)
    <2>1. CASE Shown!CarriedOver(p) = {} BY <1>1, <1>3, <2>1, ShownBounds
    <2>2. CASE Shown!CarriedOver(p) # {}
      <3>1. PICK k \in Shown!CarriedOver(p) : TRUE
        BY <2>2
      <3>2. 1 <= p.cached.at
        BY <1>5, <3>1 DEF BorneOut
      <3>3. p.cached.at \in Int /\ p.now \in Int
        BY <1>1, <1>2, ShownBounds
      <3>4. g.at = p.cached.at
        BY <1>2, <1>3, <2>2, <3>3, EarlierOf
      <3> QED BY <1>2, <3>2, <3>4, ShownBounds
    <2> QED BY <2>1, <2>2
  <1>7. \A i \in Shown!Read(p) : /\ i \in DOMAIN p.stored /\ BorneOut(fresh(i), g.at, p.now, b)
                              /\ fresh(i).index = i /\ fresh(i).print = p.prints[i]
    <2> SUFFICES ASSUME NEW i \in Shown!Read(p)
                 PROVE  /\ i \in DOMAIN p.stored /\ BorneOut(fresh(i), g.at, p.now, b)
                        /\ fresh(i).index = i /\ fresh(i).print = p.prints[i]
      OBVIOUS
    <2>1. i \in DOMAIN p.stored /\ p.results[i][1] = "read"
      BY DEF Shown!Read
    <2>2. /\ p.prints[i] \in Seat /\ p.prints[i][1] = p.stored[i]
          /\ p.results[i][2] \in 1 .. MaxVersion /\ p.results[i][2] >= b[p.now][p.stored[i]]
      BY <1>1, <2>1 DEF Answered
    <2>3. p.now \in 1 .. MaxClock
      BY <1>1, ShownBounds
    <2>4. BorneOut(fresh(i), g.at, p.now, b)
      BY <1>6, <2>2, <2>3, ReadIsHonest
    <2>5. fresh(i).index = i /\ fresh(i).print = p.prints[i]
      BY DEF Shown!Reading
    <2> QED BY <2>1, <2>4, <2>5
  <1> HIDE DEF fresh
  <1>8. Sound(g, p.now, b)
    <2>1. \A r \in g.readings : BorneOut(r, g.at, p.now, b)
      BY <1>3, <1>5, <1>6, <1>7
    <2>2. g.at \in 0 .. MaxClock
      BY <1>6, ShownBounds
    <2> QED BY <1>3, <1>6, <2>1, <2>2 DEF Sound
  <1>9. \A r \in g.readings : p.stored[r.index] = r.print[1]
    <2>1. \A r \in g.readings : r.index \in DOMAIN p.stored /\ r.print = p.prints[r.index]
      BY <1>3, <1>5, <1>7
    <2> QED BY <1>1, <2>1 DEF Answered
  <1>10. ASSUME NEW r \in p.cached.readings, r.index \in DOMAIN p.stored, p.prints[r.index] = r.print
         PROVE  \E k \in g.readings : k.index = r.index /\ k.print = r.print
    <2>1. CASE r.index \in Shown!Read(p)
      <3>1. fresh(r.index) \in g.readings
        BY <1>3, <2>1
      <3> QED BY <1>7, <1>10, <2>1, <3>1
    <2>2. CASE r.index \notin Shown!Read(p)
      <3>1. Shown!Kept(p, r) \in Shown!CarriedOver(p)
        BY <1>10, <2>2 DEF Shown!CarriedOver, Shown!Previous
      <3>2. Shown!Kept(p, r).index = r.index /\ Shown!Kept(p, r).print = r.print
        BY <1>1, <1>2, KeptIsHonest
      <3> QED BY <1>3, <3>1, <3>2
    <2> QED BY <2>1, <2>2
  <1>11. q.snapshot = g /\ q.stored = p.stored /\ q.prints = p.prints /\ q.cached = p.cached
    BY DEF Passes
  <1> HIDE DEF q
  <1>12. Complete(q)
    BY <1>9, <1>10, <1>11 DEF Complete
  <1> QED BY <1>8, <1>12 DEF q, g

LEMMA CollectShows ==
  ASSUME ShownConstants, ShownInv, NEW t \in Terminals, Shown!Collect(t)
  PROVE  ShownInv'
  <1> DEFINE p == pass[t]
             g == Shown!Gathered(p)
             q == [p EXCEPT !.phase = "merging", !.snapshot = p.cached]
             w == [p EXCEPT !.phase = "writing", !.snapshot = g]
  <1>1. p.phase = "fetching" /\ DOMAIN p.results = DOMAIN p.stored /\ UNCHANGED Shown!world
        /\ UNCHANGED <<file, view>> /\ (Shown!Goes(t, q) \/ Shown!Goes(t, w))
    BY DEF Shown!Collect
  <1>2. Passes(p, clock, base) /\ clock \in 0 .. MaxClock
    BY ShownBounds DEF ShownInv, WorldTypes
  <1>3. Sound(g, p.now, base) /\ Complete(w)
    BY <1>1, <1>2, GatheredIsSound
  <1> HIDE DEF g
  <1>4. \A s : Sound(s, p.now, base) => Sound(s, clock, base)
    <2>1. p.now \in 0 .. MaxClock /\ p.now <= clock
      BY <1>2 DEF Passes
    <2> QED BY <1>2, <2>1, SoundLater
  <1>5. Passes(q, clock, base)
    BY <1>1, <1>2, <1>4 DEF Passes, PassStages
  <1>6. Passes(w, clock, base)
    <2>1. /\ w \in [phase : {"writing"}, now : {p.now}, cached : {p.cached}, stored : {p.stored},
                     prints : {p.prints}, results : {p.results}, snapshot : {g}]
      BY <1>2 DEF Passes
    <2> HIDE DEF w
    <2> QED BY <1>1, <1>2, <1>3, <1>4, <2>1 DEF Passes, PassStages
  <1> HIDE DEF p, q, w
  <1> QED BY <1>1, <1>5, <1>6, PassGoesOn, WorldStands

LEMMA WriteShows ==
  ASSUME ShownConstants, ShownInv, NEW t \in Terminals, Shown!Write(t)
  PROVE  ShownInv'
  <1> DEFINE p == pass[t]
             q == [p EXCEPT !.phase = "merging"]
  <1>1. p.phase = "writing" /\ file' \in {file, p.snapshot} /\ UNCHANGED Shown!world /\ UNCHANGED view
        /\ Shown!Goes(t, q)
    BY DEF Shown!Write
  <1>2. Passes(p, clock, base) /\ Tells(view[t], clock, base) /\ Sound(file, clock, base)
    BY DEF ShownInv
  <1>3. Passes(q, clock, base)
    BY <1>1, <1>2 DEF Passes, PassStages
  <1>4. Sound(file', clock, base)
    BY <1>1, <1>2 DEF Passes
  <1>5. view' = [view EXCEPT ![t] = view[t]] /\ pass' = [pass EXCEPT ![t] = q]
    BY <1>1 DEF ShownInv, Shown!Goes
  <1> HIDE DEF p, q
  <1> QED BY <1>1, <1>2, <1>3, <1>4, <1>5, TerminalStep, WorldStands

\* Numbers laid over a snapshot are newer than it, and clear a failure only when later.
LEMMA MergedIsSound ==
  ASSUME ShownConstants, WorldTypes, NEW s, Sound(s, clock, base)
  PROVE  Sound(Shown!Merged(s), clock, base) /\ Shown!Merged(s).at = s.at
  <1> DEFINE Recovered(r) == r.failed = 0 \/ latest.at > r.failed
             Laid(r) ==
               [r EXCEPT !.version = latest.version, !.at = latest.at,
                         !.failed = IF Recovered(r) THEN 0 ELSE @, !.since = IF Recovered(r) THEN 0 ELSE @]
             m == Shown!Merged(s)
  <1>1. s \in [at : 0 .. MaxClock, readings : {s.readings}] /\ s.at <= clock
        /\ \A r \in s.readings : BorneOut(r, s.at, clock, base)
    BY DEF Sound
  <1>2. m = [s EXCEPT !.readings = {IF ~Shown!Newer(s, r) THEN r ELSE Laid(r) : r \in @}]
    BY DEF Shown!Merged
  <1>3. /\ m \in [at : {s.at}, readings : {m.readings}]
        /\ m.readings = {IF ~Shown!Newer(s, r) THEN r ELSE Laid(r) : r \in s.readings}
    BY <1>1, <1>2
  <1> HIDE DEF m
  <1>4. ASSUME NEW r \in s.readings, Shown!Newer(s, r)
        PROVE  BorneOut(Laid(r), s.at, clock, base)
    <2> DEFINE k == Laid(r)
    <2>1. BorneOut(r, s.at, clock, base)
      BY <1>1
    <2>2. r.print = latest.print /\ latest.at > s.at
      BY <1>4 DEF Shown!Newer
    <2>3. latest.at \in 0 .. clock /\ clock \in 1 .. MaxClock /\ s.at \in 0 .. MaxClock
      BY <1>1 DEF WorldTypes
    <2>4. latest.at # 0 /\ latest.at \in 0 .. MaxClock /\ latest.at <= clock /\ s.at <= latest.at
      BY <2>2, <2>3, ShownBounds
    <2>5. /\ r.print \in Seat /\ latest.version \in 1 .. MaxVersion
          /\ latest.version >= base[latest.at][r.print[1]]
      BY <2>2, <2>4 DEF WorldTypes
    <2>6. Legible(r) /\ 1 <= s.at /\ r.failed <= clock
          /\ \/ r.failed = 0 /\ r.since = 0
             \/ r.since # 0 /\ r.since <= r.failed
      BY <2>1 DEF BorneOut
    <2>7. r.failed \in 0 .. MaxClock /\ r.since \in 0 .. MaxClock /\ r.of \in Seats
      BY <2>6 DEF Legible
    <2>8. k \in [index : {r.index}, print : {r.print}, of : {r.of}, version : {latest.version},
                 at : {latest.at}, failed : {IF Recovered(r) THEN 0 ELSE r.failed},
                 since : {IF Recovered(r) THEN 0 ELSE r.since}]
      BY <2>6 DEF Legible
    <2> HIDE DEF Laid, k
    <2>9. k.failed \in 0 .. MaxClock /\ k.since \in 0 .. MaxClock /\ k.failed <= clock
          /\ \/ k.failed = 0 /\ k.since = 0
             \/ k.since # 0 /\ k.since <= k.failed /\ latest.at <= k.failed
      <3>1. CASE Recovered(r) BY <2>3, <2>8, <3>1, ShownBounds
      <3>2. CASE ~Recovered(r)
        <4>1. r.failed # 0 /\ latest.at <= r.failed
          BY <2>3, <2>7, <3>2, ShownBounds
        <4>2. k.failed = r.failed /\ k.since = r.since
          BY <2>8, <3>2
        <4> QED BY <2>6, <2>7, <4>1, <4>2
      <3> QED BY <3>1, <3>2
    <2>10. Legible(k) /\ k.at = latest.at /\ k.version = latest.version /\ k.print = r.print
      BY <2>4, <2>5, <2>7, <2>8, <2>9 DEF Legible
    <2>11. BorneOut(k, s.at, clock, base)
      BY <2>4, <2>5, <2>6, <2>9, <2>10 DEF BorneOut
    <2> QED BY <2>11 DEF k
  <1> HIDE DEF Laid
  <1>5. \A k \in m.readings : BorneOut(k, s.at, clock, base)
    BY <1>1, <1>3, <1>4
  <1>6. Sound(m, clock, base) /\ m.at = s.at
    BY <1>1, <1>3, <1>5 DEF Sound
  <1> QED BY <1>6 DEF m

LEMMA MergeShows ==
  ASSUME ShownConstants, ShownInv, NEW t \in Terminals, Shown!Merge(t)
  PROVE  ShownInv'
  <1> DEFINE p == pass[t]
             m == Shown!Merged(p.snapshot)
             v == [type |-> "ready", snapshot |-> m, stale |-> ~Shown!IsFresh(m.at, p.now), now |-> p.now]
  <1>1. Passes(p, clock, base) /\ WorldTypes /\ Sound(file, clock, base)
    BY DEF ShownInv
  <1>2. Sound(m, clock, base)
    BY <1>1, MergedIsSound DEF Passes
  <1>3. CASE m.readings = {}
    <2>1. Shown!Goes(t, Shown!Idle) /\ Shown!Unavailable(t) /\ UNCHANGED Shown!world /\ UNCHANGED file
      BY <1>3 DEF Shown!Merge
    <2> QED BY <2>1, UnavailableShows
  <1>4. CASE m.readings # {}
    <2>1. view' = [view EXCEPT ![t] = v] /\ pass' = [pass EXCEPT ![t] = Shown!Idle]
          /\ UNCHANGED Shown!world /\ UNCHANGED file
      BY <1>4 DEF Shown!Merge, Shown!Goes
    <2> HIDE DEF m
    <2>2. p.now \in 0 .. MaxClock
      BY <1>1 DEF Passes
    <2>3. Tells(v, clock, base)
      BY <1>2, <2>2 DEF Tells, Shown!IsFresh
    <2> HIDE DEF p, v
    <2> QED BY <1>1, <2>1, <2>3, IdleShows, TerminalStep, WorldStands
  <1> QED BY <1>3, <1>4

LEMMA ShownNext ==
  ASSUME ShownConstants, ShownInv, [Shown!Next]_Shown!vars
  PROVE  ShownInv'
  <1>1. CASE UNCHANGED Shown!vars
    BY <1>1, WorldMoves DEF Shown!vars, ShownInv, WorldTypes
  <1>2. CASE Shown!Next
    <2>1. CASE Shown!Tick BY <2>1, TickShows
    <2>2. CASE Shown!PoolChanges \/ \E s \in Seats : Shown!Serve(s) \/ Shown!Dies(s) \/ Shown!Login(s)
      BY <2>2, WorldKeeps
    <2>3. CASE \E t \in Terminals : Shown!Begin(t) \/ Shown!ReadCache(t) \/ Shown!LoadStorage(t)
      BY <2>3, BeginShows, ReadCacheShows, LoadStorageShows
    <2>4. CASE \E t \in Terminals : \E i \in DOMAIN pass[t].stored : Shown!Fetch(t, i)
      BY <2>4, FetchShows
    <2>5. CASE \E t \in Terminals : Shown!Collect(t) \/ Shown!Write(t) \/ Shown!Merge(t)
      BY <2>5, CollectShows, WriteShows, MergeShows
    <2> QED BY <1>2, <2>1, <2>2, <2>3, <2>4, <2>5 DEF Shown!Next
  <1> QED BY <1>1, <1>2

LEMMA ShownImplies ==
  ASSUME ShownConstants, ShownInv
  PROVE  Shown!TypeOK /\ Shown!ReadingsSound
  <1>1. WorldTypes /\ (\A t \in Terminals : Passes(pass[t], clock, base) /\ Tells(view[t], clock, base))
    BY DEF ShownInv
  <1>2. \A s \in Shown!Snapshots : \E now \in 0 .. MaxClock : Sound(s, now, base)
    <2>1. Sound(file, clock, base) /\ clock \in 0 .. MaxClock
      BY ShownBounds DEF ShownInv, WorldTypes
    <2>2. \A t \in Terminals : /\ Sound(view[t].snapshot, clock, base)
                             /\ Sound(pass[t].snapshot, clock, base)
                             /\ Sound(pass[t].cached, pass[t].now, base) /\ pass[t].now \in 0 .. MaxClock
      BY <1>1 DEF Passes, Tells
    <2> QED BY <2>1, <2>2 DEF Shown!Snapshots
  <1>3. \A s \in Shown!Snapshots : \A r \in s.readings :
          \E now \in 0 .. MaxClock : BorneOut(r, s.at, now, base) /\ s.at \in 0 .. MaxClock
    BY <1>2 DEF Sound
  <1>4. Shown!HonestReadings
    BY <1>3 DEF Shown!HonestReadings, Shown!StampOf, BorneOut
  <1>5. Shown!FailuresStand
    <2> SUFFICES ASSUME NEW s \in Shown!Snapshots, NEW r \in s.readings
                 PROVE  (r.failed = 0 /\ r.since = 0) \/ (r.since # 0 /\ r.since <= r.failed /\ r.at <= r.failed)
      BY DEF Shown!FailuresStand
    <2>1. PICK now \in 0 .. MaxClock : BorneOut(r, s.at, now, base)
      BY <1>3
    <2>2. r.failed \in 0 .. MaxClock /\ r.at \in 0 .. MaxClock
      BY <2>1 DEF BorneOut, Legible
    <2> QED BY <2>1, <2>2, ShownBounds DEF BorneOut
  <1>6. Shown!NobodyDropped
    BY <1>1 DEF Shown!NobodyDropped, Passes, Complete
  <1>7. Shown!StaleIsSaid
    <2> SUFFICES ASSUME NEW t \in Terminals, view[t].type = "ready", ~view[t].stale,
                        NEW r \in view[t].snapshot.readings
                 PROVE  view[t].now < Shown!StampOf(view[t].snapshot, r) + FreshFor
      BY DEF Shown!StaleIsSaid, Shown!IsFresh
    <2> DEFINE s == view[t].snapshot
               stamp == Shown!StampOf(s, r)
    <2>1. view[t].now < s.at + FreshFor /\ view[t].now \in 0 .. MaxClock
      BY <1>1 DEF Tells
    <2>2. Sound(s, clock, base)
      BY <1>1 DEF Tells
    <2>3. BorneOut(r, s.at, clock, base) /\ s.at \in 0 .. MaxClock
      BY <2>2 DEF Sound
    <2>4. s.at <= stamp /\ stamp \in 0 .. MaxClock
      BY <2>3 DEF BorneOut, Legible, Shown!StampOf
    <2> HIDE DEF s, stamp
    <2>5. view[t].now < stamp + FreshFor
      BY <2>1, <2>3, <2>4, ShownBounds
    <2> QED BY <2>5 DEF s, stamp
  <1>8. Shown!TypeOK
    <2>1. \A s \in Shown!Snapshots : \A r \in s.readings : r.version \in 1 .. MaxVersion /\ r.at \in 0 .. MaxClock
      BY <1>3 DEF BorneOut, Legible
    <2>2. latest.at \in 0 .. MaxClock
      BY <1>1, ShownBounds DEF WorldTypes
    <2>3. \A t \in Terminals : pass[t].phase \in PassStages
            /\ view[t].type \in {"loading", "unavailable", "ready"} /\ view[t].stale \in BOOLEAN
      BY <1>1 DEF Passes, Tells
    <2> QED BY <1>1, <2>1, <2>2, <2>3 DEF Shown!TypeOK, WorldTypes, PassStages
  <1> QED BY <1>4, <1>5, <1>6, <1>7, <1>8 DEF Shown!ReadingsSound

\* A reading of the pool's line is never older than it says, a line that does not say so
\* shows none past its time, no account loses its reading or gets another's, and a failed
\* one says since when (tui-quota-overview.ts), for any terminals, pools and requests.
THEOREM ReadingsStaySafe ==
  ASSUME ShownConstants
  PROVE  Shown!Spec => [](Shown!TypeOK /\ Shown!ReadingsSound)
  <1>1. Shown!Init => ShownInv
    BY ShownInit
  <1>2. ShownInv /\ [Shown!Next]_Shown!vars => ShownInv'
    BY ShownNext
  <1>3. ShownInv => Shown!TypeOK /\ Shown!ReadingsSound
    BY ShownImplies
  <1> QED BY <1>1, <1>2, <1>3, PTL DEF Shown!Spec

(***************************************************************************)
(* The observations of a custom policy: true to their stamps, from after   *)
(* the last redemption, and no endpoint asked for what it said just now.   *)
(***************************************************************************)
CONSTANTS Every, CheckEvery, Late, MaxMoves

VARIABLES redeemed, redeeming, reply, path, moves, monitor, check, poll, states, seen

Watch == INSTANCE RotationMonitor

WatchConstants ==
  /\ Pools \in [DOMAIN Pools -> SUBSET Seats] /\ 1 \in DOMAIN Pools
  /\ Every \in [Watch!Kinds -> Nat] /\ CheckEvery \in Nat /\ Late = FALSE
  /\ MaxVersion \in Nat \ {0} /\ MaxMoves \in Nat /\ MaxClock \in Nat

WatchWorld ==
  /\ clock \in 0 .. MaxClock /\ used \in [Seats -> 1 .. MaxVersion]
  /\ base \in [0 .. MaxClock -> [Seats -> 1 .. MaxVersion]]
  /\ \A t \in 0 .. clock : \A s \in Seats : base[t][s] <= used[s]
  /\ redeemed \in [Seats -> 0 .. MaxVersion] /\ \A s \in Seats : redeemed[s] <= used[s]
  /\ path \in DOMAIN Pools /\ pool \in [DOMAIN Pools -> SUBSET Seats]
  /\ reply \in [Seats -> [scope : DOMAIN Pools, version : 0 .. MaxVersion]]
  /\ \A s \in Seats : reply[s] # Watch!NoReply => reply[s].version = used[s]

Phases == {"idle", "loading", "loaded", "polling", "waiting", "ending"}

\* One check at a time, and its polls while it waits.
WatchChecks ==
  /\ monitor \in [timer : -1 .. MaxClock + CheckEvery, running : BOOLEAN, generation : Nat,
                  pending : BOOLEAN, scope : {0} \cup DOMAIN Pools, aborted : BOOLEAN]
  /\ check \in [phase : Phases, gen : Nat, scope : DOMAIN Pools, storage : {check.storage},
                ends : {check.ends}]
  /\ Watch!KeepsChecking
  /\ \A s \in Seats : poll[s].phase # "idle" => check.phase = "waiting"

Sources == {"none", "headers", "usage", "resets"}
Observations == [version : 0 .. MaxVersion, at : -1 .. MaxClock, source : Sources]
Turns == [next : Nat, failures : 0 .. 6]

\* What is recorded of a seat was so at the time of its stamp, or later.
StampTrue(o, s, time, b) ==
  o.at <= time /\ (o.source # "none" => o.at >= 0 /\ o.version >= b[o.at][s])
SinceThen(o, s, r, aborted) == ~aborted /\ o.source # "none" => o.version >= r[s]
\* A reading that succeeded last is asked for again when its time is over.
Lasts(o, x, k) == o.source = k /\ x.failures = 0 => x.next >= o.at + Every[k]
NoneKept(o, aborted) == aborted => o.source \notin Watch!Kinds

WatchSees ==
  /\ seen \in [Watch!Kinds -> [Watch!Ids -> Observations]]
  /\ states \in [Watch!Kinds -> [Watch!Ids -> Turns]]
  /\ \A k \in Watch!Kinds : \A i \in Watch!Ids :
       /\ StampTrue(seen[k][i], i[2], clock, base) /\ SinceThen(seen[k][i], i[2], redeemed, monitor.aborted)
       /\ Lasts(seen[k][i], states[k][i], k) /\ NoneKept(seen[k][i], monitor.aborted)

\* A poll asks for what the provider has at its stamp or later, of its generation.
Polled == [phase : {"idle", "credentials"} \cup Watch!Kinds, gen : Nat, scope : DOMAIN Pools,
           due : SUBSET Watch!Kinds, at : 0 .. MaxClock, from : 0 .. MaxVersion]
Asks(p, s, time, b, u) ==
  p.phase \in Watch!Kinds => p.at <= time /\ p.from <= u[s] /\ p.from >= b[p.at][s]
Present(p, s, r, generation, aborted) ==
  p.gen <= generation /\ (p.phase \in Watch!Kinds /\ p.gen = generation /\ ~aborted => p.from >= r[s])

\* No poll asks, or will ask, for a reading that stands.
Rested(o, x, k, time) == o.source = k => x.failures # 0 \/ o.at + Every[k] <= time
Rests(p, s, sn, st, time) ==
  /\ p.phase = "credentials" => /\ p.due # {}
       /\ \A k \in p.due : Rested(sn[k][<<p.scope, s>>], st[k][<<p.scope, s>>], k, time)
  /\ p.phase \in Watch!Kinds => Rested(sn[p.phase][<<p.scope, s>>], st[p.phase][<<p.scope, s>>], p.phase, p.at)
  /\ p.phase = "usage" /\ "resets" \in p.due =>
       Rested(sn["resets"][<<p.scope, s>>], st["resets"][<<p.scope, s>>], "resets", time)

WatchPolls ==
  /\ poll \in [Seats -> Polled]
  /\ \A s \in Seats : /\ Asks(poll[s], s, clock, base, used)
                      /\ Present(poll[s], s, redeemed, monitor.generation, monitor.aborted)
                      /\ Rests(poll[s], s, seen, states, clock)

WatchInv == WatchWorld /\ WatchChecks /\ WatchSees /\ WatchPolls

-----------------------------------------------------------------------------
LEMMA WatchBounds ==
  ASSUME WatchConstants
  PROVE  /\ 1 \in DOMAIN Pools /\ (\A q \in DOMAIN Pools : Pools[q] \subseteq Seats)
         /\ Every["usage"] \in Nat /\ Every["resets"] \in Nat /\ CheckEvery \in Nat
         /\ Late = FALSE /\ MaxVersion \in Nat /\ MaxVersion >= 1 /\ MaxClock \in Nat
  <1>1. Every \in [Watch!Kinds -> Nat] /\ CheckEvery \in Nat /\ Late = FALSE /\ MaxVersion \in Nat \ {0}
        /\ MaxClock \in Nat /\ 1 \in DOMAIN Pools /\ Pools \in [DOMAIN Pools -> SUBSET Seats]
    BY Zenon DEF WatchConstants
  <1>2. Every["usage"] \in Nat /\ Every["resets"] \in Nat
    BY <1>1 DEF Watch!Kinds
  <1> QED BY <1>1, <1>2

LEMMA WatchInit ==
  ASSUME WatchConstants, Watch!Init
  PROVE  WatchInv
  <1>1. 0 \in 0 .. MaxClock /\ 1 \in 1 .. MaxVersion /\ 0 \in 0 .. MaxVersion /\ -1 \in -1 .. MaxClock
        /\ 0 \in -1 .. MaxClock + CheckEvery /\ 0 \in 0 .. 6 /\ -1 <= 0
    BY WatchBounds
  <1>2. WatchWorld
    <2>1. /\ clock = 0 /\ used = [s \in Seats |-> 1]
          /\ base = [n \in 0 .. MaxClock |-> [s \in Seats |-> 1]]
          /\ redeemed = [s \in Seats |-> 0] /\ reply = [s \in Seats |-> Watch!NoReply]
          /\ path = 1 /\ pool = Pools
      BY DEF Watch!Init
    <2>2. used \in [Seats -> 1 .. MaxVersion] /\ base \in [0 .. MaxClock -> [Seats -> 1 .. MaxVersion]]
          /\ redeemed \in [Seats -> 0 .. MaxVersion]
      BY <1>1, <2>1
    <2>3. reply \in [Seats -> [scope : DOMAIN Pools, version : 0 .. MaxVersion]]
      BY <1>1, <2>1, WatchBounds DEF Watch!NoReply
    <2>4. pool \in [DOMAIN Pools -> SUBSET Seats]
      BY <2>1, Zenon DEF WatchConstants
    <2>5. \A n \in 0 .. clock : \A s \in Seats : base[n][s] <= used[s]
      BY <1>1, <2>1
    <2> QED BY <1>1, <2>1, <2>2, <2>3, <2>4, <2>5, WatchBounds DEF WatchWorld
  <1>3. WatchChecks
    BY <1>1, WatchBounds DEF Watch!Init, WatchChecks, Watch!KeepsChecking, Watch!NoCheck, Watch!NoPoll, Phases,
       Watch!NotDue
  <1>4. Watch!Unknown \in Observations /\ Watch!Asked \in Turns
    BY <1>1 DEF Watch!Unknown, Watch!Asked, Watch!NotDue, Observations, Turns, Sources
  <1>5. WatchSees
    BY <1>1, <1>4 DEF Watch!Init, WatchSees, Watch!Forgotten, Watch!Unknown, Watch!NotDue, StampTrue, SinceThen,
       Lasts, NoneKept, Watch!Kinds
  <1>6. WatchPolls
    BY <1>1, WatchBounds DEF Watch!Init, WatchPolls, Polled, Asks, Present, Rests, Watch!NoPoll, Watch!Kinds
  <1> QED BY <1>2, <1>3, <1>5, <1>6 DEF WatchInv

\* What a step that leaves the observations alone keeps.
LEMMA SeesOnly ==
  ASSUME WatchSees, UNCHANGED <<clock, base, redeemed, seen, states>>, monitor'.aborted = monitor.aborted
  PROVE  WatchSees'
  BY DEF WatchSees

LEMMA PollsOnly ==
  ASSUME WatchPolls, UNCHANGED <<clock, base, used, redeemed, seen, states, poll>>,
         monitor'.aborted = monitor.aborted, monitor'.generation = monitor.generation
  PROVE  WatchPolls'
  BY DEF WatchPolls

LEMMA ChecksOnly ==
  ASSUME WatchChecks, UNCHANGED <<monitor, check>>, \A s \in Seats : poll'[s].phase # "idle" => poll[s].phase # "idle"
  PROVE  WatchChecks'
  BY DEF WatchChecks, Watch!KeepsChecking

LEMMA WorldOnly ==
  ASSUME WatchWorld, UNCHANGED <<clock, used, base, redeemed, reply, path, pool>>
  PROVE  WatchWorld'
  BY DEF WatchWorld

\* A request or a redemption makes the next version.
LEMMA UsedGrows ==
  ASSUME WatchConstants, WatchInv, NEW s \in Seats, used[s] < MaxVersion,
         used' = [used EXCEPT ![s] = @ + 1]
  PROVE  /\ used' \in [Seats -> 1 .. MaxVersion] /\ used'[s] = used[s] + 1
         /\ \A q \in Seats : used[q] <= used'[q] /\ (q # s => used'[q] = used[q])
         /\ \A t \in 0 .. clock : \A q \in Seats : base[t][q] <= used'[q]
         /\ \A q \in Seats : redeemed[q] <= used'[q]
  <1>1. WatchWorld
    BY DEF WatchInv
  <1>2. /\ used' \in [Seats -> 1 .. MaxVersion] /\ used'[s] = used[s] + 1
        /\ \A q \in Seats : q # s => used'[q] = used[q]
    BY <1>1, WatchBounds DEF WatchWorld
  <1>3. \A q \in Seats : used[q] \in Nat /\ redeemed[q] \in Nat /\ redeemed[q] <= used[q]
    BY <1>1, WatchBounds DEF WatchWorld
  <1>4. \A t \in 0 .. clock : \A q \in Seats : base[t][q] \in Nat /\ base[t][q] <= used[q]
    <2> SUFFICES ASSUME NEW t \in 0 .. clock, NEW q \in Seats
                 PROVE  base[t][q] \in Nat /\ base[t][q] <= used[q]
      OBVIOUS
    <2>1. t \in 0 .. MaxClock
      BY <1>1, WatchBounds DEF WatchWorld
    <2>2. base[t] \in [Seats -> 1 .. MaxVersion]
      BY <1>1, <2>1 DEF WatchWorld
    <2> QED BY <1>1, <2>2, WatchBounds DEF WatchWorld
  <1>5. \A q \in Seats : used[q] <= used'[q]
    BY <1>2, <1>3
  <1>6. \A q \in Seats : used'[q] \in Nat
    BY <1>2, WatchBounds
  <1>7. \A t \in 0 .. clock : \A q \in Seats : base[t][q] <= used'[q]
    BY <1>3, <1>4, <1>5, <1>6
  <1>8. \A q \in Seats : redeemed[q] <= used'[q]
    BY <1>3, <1>5, <1>6
  <1> QED BY <1>2, <1>5, <1>7, <1>8

LEMMA PollsGrow ==
  ASSUME WatchConstants, WatchInv, used' \in [Seats -> 1 .. MaxVersion], \A q \in Seats : used[q] <= used'[q],
         UNCHANGED <<clock, base, redeemed, monitor, poll, seen, states>>
  PROVE  WatchPolls'
  <1>1. WatchPolls /\ WatchWorld
    BY DEF WatchInv
  <1>2. ASSUME NEW s \in Seats
        PROVE  Asks(poll[s], s, clock, base, used')
    <2>1. Asks(poll[s], s, clock, base, used) /\ poll[s] \in Polled
      BY <1>1 DEF WatchPolls
    <2>2. poll[s].from \in Nat /\ used[s] \in Nat /\ used'[s] \in Nat
      BY <1>1, <2>1, WatchBounds DEF Polled, WatchWorld
    <2>3. used[s] <= used'[s]
      OBVIOUS
    <2> QED BY <2>1, <2>2, <2>3 DEF Asks
  <1> QED BY <1>1, <1>2 DEF WatchPolls

LEMMA ServeSafe ==
  ASSUME WatchConstants, WatchInv, NEW s \in Seats, Watch!Serve(s)
  PROVE  WatchInv'
  <1>1. /\ used[s] < MaxVersion /\ used' = [used EXCEPT ![s] = @ + 1]
        /\ reply' = [reply EXCEPT ![s] = [scope |-> path, version |-> used[s] + 1]]
        /\ UNCHANGED <<clock, base, redeemed, redeeming, path, pool, moves, monitor, check, poll, states, seen>>
    BY DEF Watch!Serve
  <1>2. WatchWorld
    BY DEF WatchInv
  <1>3. used[s] + 1 \in 0 .. MaxVersion
    BY <1>1, <1>2, WatchBounds DEF WatchWorld
  <1>4. reply' \in [Seats -> [scope : DOMAIN Pools, version : 0 .. MaxVersion]]
        /\ \A q \in Seats : reply'[q] = IF q = s THEN [scope |-> path, version |-> used[s] + 1] ELSE reply[q]
    BY <1>1, <1>2, <1>3 DEF WatchWorld
  <1>5. WatchWorld'
    <2>1. \A q \in Seats : reply'[q] # Watch!NoReply => reply'[q].version = used'[q]
      BY <1>1, <1>2, <1>4, UsedGrows DEF WatchWorld
    <2> QED BY <1>1, <1>2, <1>4, <2>1, UsedGrows DEF WatchWorld
  <1>6. WatchChecks' /\ WatchSees' /\ WatchPolls'
    BY <1>1, UsedGrows, PollsGrow, SeesOnly, ChecksOnly DEF WatchInv
  <1> QED BY <1>5, <1>6 DEF WatchInv

LEMMA RedeemSafe ==
  ASSUME WatchConstants, WatchInv, NEW s \in Seats, Watch!Redeem(s)
  PROVE  WatchInv'
  <1>1. /\ used[s] < MaxVersion /\ used' = [used EXCEPT ![s] = @ + 1] /\ reply[s] = Watch!NoReply
        /\ UNCHANGED <<clock, base, redeemed, reply, path, pool, moves, monitor, check, poll, states, seen>>
    BY WatchBounds DEF Watch!Redeem, Watch!Waits
  <1>2. WatchWorld
    BY DEF WatchInv
  <1>3. WatchWorld'
    <2>1. \A q \in Seats : reply'[q] # Watch!NoReply => reply'[q].version = used'[q]
      BY <1>1, <1>2, UsedGrows DEF WatchWorld
    <2> QED BY <1>1, <1>2, <2>1, UsedGrows DEF WatchWorld
  <1>4. WatchChecks' /\ WatchSees' /\ WatchPolls'
    BY <1>1, UsedGrows, PollsGrow, SeesOnly, ChecksOnly DEF WatchInv
  <1> QED BY <1>3, <1>4 DEF WatchInv

LEMMA MoveSafe ==
  ASSUME WatchConstants, WatchInv, Watch!Move
  PROVE  WatchInv'
  <1>1. UNCHANGED <<clock, used, base, redeemed, redeeming, reply, monitor, check, poll, states, seen>>
        /\ \/ path' \in Watch!Paths /\ UNCHANGED pool
           \/ UNCHANGED path /\ \E s \in Pools[path] :
                pool' = [pool EXCEPT ![path] = IF s \in @ THEN @ \ {s} ELSE @ \cup {s}]
    BY DEF Watch!Move
  <1>2. WatchWorld
    BY DEF WatchInv
  <1>3. path' \in DOMAIN Pools /\ pool' \in [DOMAIN Pools -> SUBSET Seats]
    <2>1. CASE path' \in Watch!Paths /\ UNCHANGED pool
      BY <1>2, <2>1 DEF WatchWorld, Watch!Paths
    <2>2. ASSUME UNCHANGED path, NEW s \in Pools[path],
                 pool' = [pool EXCEPT ![path] = IF s \in @ THEN @ \ {s} ELSE @ \cup {s}]
          PROVE  path' \in DOMAIN Pools /\ pool' \in [DOMAIN Pools -> SUBSET Seats]
      <3>1. s \in Seats /\ pool[path] \subseteq Seats /\ path \in DOMAIN Pools
        BY <1>2, WatchBounds DEF WatchWorld
      <3>2. (IF s \in pool[path] THEN pool[path] \ {s} ELSE pool[path] \cup {s}) \in SUBSET Seats
        BY <3>1
      <3> QED BY <1>2, <2>2, <3>1, <3>2 DEF WatchWorld
    <2> QED BY <1>1, <2>1, <2>2
  <1>4. WatchWorld'
    BY <1>1, <1>2, <1>3 DEF WatchWorld
  <1>5. WatchChecks' /\ WatchSees' /\ WatchPolls'
    BY <1>1, SeesOnly, ChecksOnly, PollsOnly DEF WatchInv
  <1> QED BY <1>4, <1>5 DEF WatchInv

LEMMA WatchTick ==
  ASSUME WatchConstants, WatchInv, Watch!Tick
  PROVE  WatchInv'
  <1>1. /\ clock < MaxClock /\ clock' = clock + 1 /\ base' = [base EXCEPT ![clock + 1] = used]
        /\ UNCHANGED <<used, redeemed, redeeming, reply, path, pool, moves, monitor, check, poll, states, seen>>
    BY DEF Watch!Tick
  <1>2. WatchWorld
    BY DEF WatchInv
  <1>3. clock \in 0 .. MaxClock /\ clock' \in 0 .. MaxClock /\ clock \in Nat
    BY <1>1, <1>2, WatchBounds DEF WatchWorld
  <1>4. base' \in [0 .. MaxClock -> [Seats -> 1 .. MaxVersion]] /\ base'[clock'] = used
        /\ \A t \in 0 .. clock : base'[t] = base[t]
    BY <1>1, <1>2, <1>3, WatchBounds DEF WatchWorld
  <1>5. \A t \in 0 .. clock' : \A s \in Seats : base'[t][s] <= used[s]
    <2> SUFFICES ASSUME NEW t \in 0 .. clock', NEW s \in Seats
                 PROVE  base'[t][s] <= used[s]
      OBVIOUS
    <2>1. CASE t = clock'
      <3>1. used[s] \in Nat
        BY <1>2, WatchBounds DEF WatchWorld
      <3> QED BY <1>4, <2>1, <3>1
    <2>2. CASE t # clock'
      <3>1. t \in 0 .. clock
        BY <1>1, <1>3, <2>2
      <3> QED BY <1>2, <1>4, <3>1 DEF WatchWorld
    <2> QED BY <2>1, <2>2
  <1>6. WatchWorld'
    BY <1>1, <1>2, <1>3, <1>4, <1>5 DEF WatchWorld
  <1>7. \A o \in Observations, s \in Seats : StampTrue(o, s, clock, base) => StampTrue(o, s, clock', base')
    <2> SUFFICES ASSUME NEW o \in Observations, NEW s \in Seats, StampTrue(o, s, clock, base)
                 PROVE  StampTrue(o, s, clock', base')
      OBVIOUS
    <2>1. o.at \in -1 .. MaxClock /\ o.at <= clock
      BY DEF Observations, StampTrue
    <2>2. o.at <= clock' /\ (o.at >= 0 => o.at \in 0 .. clock)
      BY <1>1, <1>3, <2>1, WatchBounds
    <2> QED BY <1>4, <2>2 DEF StampTrue
  <1>8. WatchSees'
    <2>1. WatchSees
      BY DEF WatchInv
    <2>2. ASSUME NEW k \in Watch!Kinds, NEW i \in Watch!Ids
          PROVE  StampTrue(seen[k][i], i[2], clock', base')
      <3>1. seen[k][i] \in Observations /\ i[2] \in Seats
        BY <2>1 DEF WatchSees, Watch!Ids
      <3> QED BY <1>7, <2>1, <3>1 DEF WatchSees
    <2> QED BY <1>1, <2>1, <2>2 DEF WatchSees
  <1>9. WatchPolls'
    <2>1. WatchPolls /\ WatchSees
      BY DEF WatchInv
    <2>2. ASSUME NEW s \in Seats
          PROVE  Asks(poll[s], s, clock', base', used)
      <3>1. poll[s] \in Polled /\ Asks(poll[s], s, clock, base, used)
        BY <2>1 DEF WatchPolls
      <3>2. poll[s].at \in 0 .. MaxClock
        BY <3>1 DEF Polled
      <3>3. poll[s].at <= clock => poll[s].at <= clock' /\ base'[poll[s].at] = base[poll[s].at]
        BY <1>1, <1>3, <1>4, <3>2, WatchBounds
      <3> QED BY <3>1, <3>3 DEF Asks
    <2>3. ASSUME NEW s \in Seats
          PROVE  Rests(poll[s], s, seen, states, clock')
      <3>1. poll[s] \in Polled /\ Rests(poll[s], s, seen, states, clock)
        BY <2>1 DEF WatchPolls
      <3>2. \A k \in Watch!Kinds : Rested(seen[k][<<poll[s].scope, s>>], states[k][<<poll[s].scope, s>>], k, clock)
              => Rested(seen[k][<<poll[s].scope, s>>], states[k][<<poll[s].scope, s>>], k, clock')
        <4> SUFFICES ASSUME NEW k \in Watch!Kinds,
                            Rested(seen[k][<<poll[s].scope, s>>], states[k][<<poll[s].scope, s>>], k, clock)
                     PROVE  Rested(seen[k][<<poll[s].scope, s>>], states[k][<<poll[s].scope, s>>], k, clock')
          OBVIOUS
        <4>1. <<poll[s].scope, s>> \in Watch!Ids
          BY <3>1 DEF Polled, Watch!Ids, Watch!Paths
        <4>2. seen[k][<<poll[s].scope, s>>].at \in Int /\ Every[k] \in Nat
          BY <2>1, <4>1, WatchBounds DEF WatchSees, Observations, Watch!Kinds
        <4> QED BY <1>1, <1>3, <4>2 DEF Rested
      <3>3. poll[s].due \subseteq Watch!Kinds /\ "resets" \in Watch!Kinds
        BY <3>1 DEF Polled, Watch!Kinds
      <3> QED BY <3>1, <3>2, <3>3 DEF Rests
    <2> QED BY <1>1, <2>1, <2>2, <2>3 DEF WatchPolls
  <1>10. WatchChecks'
    BY <1>1, ChecksOnly DEF WatchInv
  <1> QED BY <1>6, <1>8, <1>9, <1>10 DEF WatchInv

LEMMA FireSafe ==
  ASSUME WatchConstants, WatchInv, Watch!Fire
  PROVE  WatchInv'
  <1>1. WatchChecks /\ WatchWorld /\ UNCHANGED Watch!world /\ UNCHANGED <<poll, states, seen>>
        /\ \/ /\ monitor.running /\ monitor' = [monitor EXCEPT !.timer = Watch!NotDue] /\ UNCHANGED check
           \/ /\ ~monitor.running
              /\ monitor' = [monitor EXCEPT !.timer = Watch!NotDue, !.running = TRUE, !.pending = FALSE]
              /\ check' = [Watch!NoCheck EXCEPT !.phase = "loading", !.gen = monitor.generation, !.scope = path]
    BY DEF Watch!Fire, WatchInv
  <1>2. -1 \in -1 .. MaxClock + CheckEvery /\ path \in DOMAIN Pools
    BY <1>1, WatchBounds DEF WatchWorld
  <1>3. /\ monitor' \in [timer : {-1}, running : {TRUE}, generation : {monitor.generation},
                          pending : BOOLEAN, scope : {monitor.scope}, aborted : {monitor.aborted}]
        /\ monitor.generation \in Nat /\ monitor.scope \in {0} \cup DOMAIN Pools /\ monitor.aborted \in BOOLEAN
    BY <1>1 DEF WatchChecks, Watch!NotDue
  <1>4. monitor' \in [timer : -1 .. MaxClock + CheckEvery, running : BOOLEAN, generation : Nat,
                      pending : BOOLEAN, scope : {0} \cup DOMAIN Pools, aborted : BOOLEAN]
    BY <1>2, <1>3
  <1>5. WatchChecks'
    <2>1. CASE monitor.running
      <3>1. monitor' = [monitor EXCEPT !.timer = Watch!NotDue] /\ UNCHANGED <<check, poll>>
        BY <1>1, <2>1
      <3>2. monitor'.pending = monitor.pending
        BY <1>1, <3>1 DEF WatchChecks
      <3> QED BY <1>1, <1>3, <1>4, <2>1, <3>1, <3>2 DEF WatchChecks, Watch!KeepsChecking
    <2>2. CASE ~monitor.running
      <3>1. check' = [Watch!NoCheck EXCEPT !.phase = "loading", !.gen = monitor.generation, !.scope = path]
            /\ UNCHANGED poll
        BY <1>1, <2>2
      <3>2. check' \in [phase : {"loading"}, gen : {monitor.generation}, scope : {path}, storage : {{}}, ends : {{}}]
        BY <3>1 DEF Watch!NoCheck
      <3>3. \A s \in Seats : poll[s].phase = "idle"
        BY <1>1, <2>2 DEF WatchChecks, Watch!KeepsChecking
      <3> QED BY <1>2, <1>3, <1>4, <3>1, <3>2, <3>3 DEF WatchChecks, Watch!KeepsChecking, Phases
    <2> QED BY <2>1, <2>2
  <1>6. UNCHANGED <<clock, used, base, redeemed, reply, path, pool>>
    BY <1>1 DEF Watch!world
  <1>7. WatchWorld' /\ WatchSees' /\ WatchPolls'
    BY <1>1, <1>3, <1>6, WorldOnly, SeesOnly, PollsOnly DEF WatchInv
  <1> QED BY <1>5, <1>7 DEF WatchInv

LEMMA LoadSafe ==
  ASSUME WatchConstants, WatchInv, Watch!Load
  PROVE  WatchInv'
  <1>1. WatchChecks /\ check.phase = "loading" /\ UNCHANGED Watch!world /\ UNCHANGED <<monitor, poll, states, seen>>
        /\ \/ check' = [check EXCEPT !.phase = "loaded", !.storage = pool[path]]
           \/ check' = [check EXCEPT !.phase = "ending"]
    BY DEF Watch!Load, WatchInv
  <1>2. check' \in [phase : {"loaded", "ending"}, gen : {check.gen}, scope : {check.scope},
                    storage : {check'.storage}, ends : {check'.ends}]
    BY <1>1 DEF WatchChecks
  <1>3. WatchChecks'
    BY <1>1, <1>2 DEF WatchChecks, Watch!KeepsChecking, Phases
  <1>4. UNCHANGED <<clock, used, base, redeemed, reply, path, pool>>
    BY <1>1 DEF Watch!world
  <1> QED BY <1>1, <1>3, <1>4, WorldOnly, SeesOnly, PollsOnly DEF WatchInv

LEMMA KindsAre == /\ "usage" \in Watch!Kinds /\ "resets" \in Watch!Kinds
                  /\ "none" \notin Watch!Kinds /\ "headers" \notin Watch!Kinds
                  /\ "idle" \notin Watch!Kinds /\ "credentials" \notin Watch!Kinds
                  /\ \A k \in Watch!Kinds : k = "usage" \/ k = "resets"
  BY DEF Watch!Kinds

LEMMA OneEntry ==
  ASSUME NEW S, NEW f \in [Watch!Kinds -> [Watch!Ids -> S]], NEW k \in Watch!Kinds, NEW i \in Watch!Ids,
         NEW v \in S, NEW g, g = [f EXCEPT ![k][i] = v]
  PROVE  /\ g \in [Watch!Kinds -> [Watch!Ids -> S]]
         /\ \A m \in Watch!Kinds, j \in Watch!Ids : g[m][j] = IF m = k /\ j = i THEN v ELSE f[m][j]
  <1>1. g = [m \in Watch!Kinds |-> IF m = k THEN [f[k] EXCEPT ![i] = v] ELSE f[m]]
    OBVIOUS
  <1>2. [f[k] EXCEPT ![i] = v] \in [Watch!Ids -> S]
        /\ \A j \in Watch!Ids : [f[k] EXCEPT ![i] = v][j] = IF j = i THEN v ELSE f[k][j]
    OBVIOUS
  <1> QED BY <1>1, <1>2

\* field() keeps what is stamped later.
LEMMA FieldIs ==
  ASSUME NEW p \in Observations, NEW version \in 0 .. MaxVersion, NEW at \in 0 .. MaxClock, NEW source \in Sources,
         WatchConstants
  PROVE  LET o == Watch!Field(p, version, at, source)
         IN  /\ o \in Observations
             /\ \/ o = p /\ p.at > at
                \/ o.version = version /\ o.at = at /\ o.source = source
  <1> DEFINE o == Watch!Field(p, version, at, source)
             q == [version |-> version, at |-> at, source |-> source]
  <1>1. at \in -1 .. MaxClock
    BY WatchBounds
  <1>2. q \in Observations
    BY <1>1 DEF Observations
  <1> QED BY <1>2 DEF Watch!Field

LEMMA HeadersSafe ==
  ASSUME WatchConstants, WatchInv, NEW s \in Seats, Watch!Headers(s)
  PROVE  WatchInv'
  <1> DEFINE id == <<path, s>>
             v == reply[s].version
             o == Watch!Field(seen["usage"][id], v, clock, "headers")
  <1>1. /\ reply[s] # Watch!NoReply /\ reply' = [reply EXCEPT ![s] = Watch!NoReply]
        /\ UNCHANGED <<clock, used, base, redeemed, redeeming, path, pool, moves, monitor, check, poll, states>>
        /\ UNCHANGED seen \/ seen' = [seen EXCEPT !["usage"][id] = o]
    BY DEF Watch!Headers, Watch!Record
  <1>2. WatchWorld /\ WatchSees /\ WatchPolls
    BY DEF WatchInv
  <1>3. id \in Watch!Ids /\ v = used[s] /\ v \in 0 .. MaxVersion /\ clock \in 0 .. MaxClock
    BY <1>1, <1>2 DEF WatchWorld, Watch!Ids, Watch!Paths
  <1>4. v >= base[clock][s] /\ v >= redeemed[s]
    <2>1. clock \in 0 .. clock
      BY <1>3, WatchBounds
    <2>2. base[clock][s] <= used[s] /\ redeemed[s] <= used[s]
      BY <1>2, <2>1 DEF WatchWorld
    <2>3. base[clock] \in [Seats -> 1 .. MaxVersion]
      BY <1>2, <1>3 DEF WatchWorld
    <2>4. base[clock][s] \in Nat /\ redeemed[s] \in Nat /\ used[s] \in Nat
      BY <1>2, <2>3, WatchBounds DEF WatchWorld
    <2> QED BY <1>3, <2>2, <2>4
  <1>5. WatchWorld'
    <2>1. reply' \in [Seats -> [scope : DOMAIN Pools, version : 0 .. MaxVersion]]
          /\ \A q \in Seats : reply'[q] = IF q = s THEN Watch!NoReply ELSE reply[q]
      <3>1. Watch!NoReply \in [scope : DOMAIN Pools, version : 0 .. MaxVersion]
        BY WatchBounds DEF Watch!NoReply
      <3> QED BY <1>1, <1>2, <3>1 DEF WatchWorld
    <2> QED BY <1>1, <1>2, <2>1 DEF WatchWorld
  <1>6. CASE UNCHANGED seen
    BY <1>1, <1>5, <1>6, SeesOnly, PollsOnly, ChecksOnly DEF WatchInv
  <1>7. CASE seen' = [seen EXCEPT !["usage"][id] = o]
    <2>1. seen["usage"][id] \in Observations
      BY <1>2, <1>3, KindsAre DEF WatchSees
    <2>2. o \in Observations
          /\ (o = seen["usage"][id] \/ (o.version = v /\ o.at = clock /\ o.source = "headers"))
      BY <1>3, <2>1, FieldIs DEF Sources
    <2> HIDE DEF o, v
    <2>3. seen' \in [Watch!Kinds -> [Watch!Ids -> Observations]]
          /\ \A k \in Watch!Kinds, j \in Watch!Ids : seen'[k][j] = IF k = "usage" /\ j = id THEN o ELSE seen[k][j]
      <3>1. seen \in [Watch!Kinds -> [Watch!Ids -> Observations]]
        BY <1>2 DEF WatchSees
      <3> HIDE DEF id
      <3> QED BY <1>3, <1>7, <2>2, <3>1, KindsAre, OneEntry
    <2>4. \A k \in Watch!Kinds, j \in Watch!Ids :
            seen'[k][j] = seen[k][j] \/ (j = id /\ seen'[k][j].version = v /\ seen'[k][j].at = clock
                                        /\ seen'[k][j].source = "headers")
      BY <2>2, <2>3
    <2>5. WatchSees'
      <3>1. ASSUME NEW k \in Watch!Kinds, NEW j \in Watch!Ids
            PROVE  /\ StampTrue(seen'[k][j], j[2], clock, base)
                   /\ SinceThen(seen'[k][j], j[2], redeemed, monitor.aborted)
                   /\ Lasts(seen'[k][j], states[k][j], k) /\ NoneKept(seen'[k][j], monitor.aborted)
        <4>1. CASE seen'[k][j] = seen[k][j] BY <1>2, <4>1 DEF WatchSees
        <4>2. CASE j = id /\ seen'[k][j].version = v /\ seen'[k][j].at = clock /\ seen'[k][j].source = "headers"
          <5>1. clock >= 0 /\ clock <= clock
            BY <1>3, WatchBounds
          <5> QED BY <1>4, <4>2, <5>1, KindsAre DEF StampTrue, SinceThen, Lasts, NoneKept
        <4> QED BY <2>4, <4>1, <4>2
      <3> QED BY <1>1, <1>2, <2>3, <3>1 DEF WatchSees
    <2>6. WatchPolls'
      <3>1. ASSUME NEW q \in Seats
            PROVE  Rests(poll[q], q, seen', states, clock)
        <4> DEFINE j == <<poll[q].scope, q>>
        <4>1. poll[q] \in Polled /\ Rests(poll[q], q, seen, states, clock)
          BY <1>2 DEF WatchPolls
        <4>2. j \in Watch!Ids /\ poll[q].due \subseteq Watch!Kinds
          BY <4>1 DEF Polled, Watch!Ids, Watch!Paths
        <4>3. \A k \in Watch!Kinds : \A time : Rested(seen[k][j], states[k][j], k, time) =>
                                              Rested(seen'[k][j], states[k][j], k, time)
          BY <2>4, <4>2, KindsAre DEF Rested
        <4> QED BY <4>1, <4>2, <4>3, KindsAre DEF Rests
      <3> QED BY <1>1, <1>2, <3>1 DEF WatchPolls
    <2> QED BY <1>1, <1>5, <2>5, <2>6, ChecksOnly DEF WatchInv
  <1> QED BY <1>1, <1>6, <1>7

LEMMA LoadedSafe ==
  ASSUME WatchConstants, WatchInv, Watch!Loaded
  PROVE  WatchInv'
  <1> DEFINE ids == {<<check.scope, s>> : s \in check.storage}
             anew == monitor.scope # check.scope
             kept(f, x) == [k \in Watch!Kinds |-> [i \in Watch!Ids |-> IF anew \/ i \notin ids THEN x ELSE f[k][i]]]
  <1>1. WatchChecks /\ WatchWorld /\ WatchSees /\ WatchPolls /\ check.phase = "loaded"
        /\ UNCHANGED Watch!world /\ UNCHANGED poll
        /\ \/ check' = [check EXCEPT !.phase = "ending"] /\ UNCHANGED <<monitor, states, seen>>
           \/ /\ check' = [check EXCEPT !.phase = "polling", !.ends = {}]
              /\ monitor' = [monitor EXCEPT !.scope = check.scope]
              /\ seen' = kept(seen, Watch!Unknown) /\ states' = kept(states, Watch!Asked)
    BY DEF Watch!Loaded, WatchInv
  <1>2. UNCHANGED <<clock, used, base, redeemed, reply, path, pool>>
    BY <1>1 DEF Watch!world
  <1>3. \A s \in Seats : poll[s].phase = "idle"
    BY <1>1 DEF WatchChecks
  <1>4. check' \in [phase : {"ending", "polling"}, gen : {check.gen}, scope : {check.scope},
                    storage : {check'.storage}, ends : {check'.ends}]
        /\ check.scope \in DOMAIN Pools /\ check.gen \in Nat
    BY <1>1 DEF WatchChecks
  <1>5. /\ monitor' \in [timer : {monitor.timer}, running : {monitor.running}, generation : {monitor.generation},
                          pending : {monitor.pending}, scope : {monitor.scope, check.scope},
                          aborted : {monitor.aborted}]
    BY <1>1 DEF WatchChecks
  <1>6. monitor' \in [timer : -1 .. MaxClock + CheckEvery, running : BOOLEAN, generation : Nat,
                      pending : BOOLEAN, scope : {0} \cup DOMAIN Pools, aborted : BOOLEAN]
    <2>1. monitor.timer \in -1 .. MaxClock + CheckEvery /\ monitor.running \in BOOLEAN /\ monitor.generation \in Nat
          /\ monitor.pending \in BOOLEAN /\ monitor.scope \in {0} \cup DOMAIN Pools /\ monitor.aborted \in BOOLEAN
      BY <1>1 DEF WatchChecks
    <2> QED BY <1>4, <1>5, <2>1
  <1>7. WatchChecks'
    BY <1>1, <1>3, <1>4, <1>5, <1>6 DEF WatchChecks, Watch!KeepsChecking, Phases
  <1>8. WatchSees'
    <2>1. CASE UNCHANGED <<monitor, states, seen>>
      BY <1>1, <1>2, <2>1, SeesOnly
    <2>2. CASE seen' = kept(seen, Watch!Unknown) /\ states' = kept(states, Watch!Asked)
      <3>1. Watch!Unknown \in Observations /\ Watch!Asked \in Turns
        BY WatchBounds DEF Watch!Unknown, Watch!Asked, Watch!NotDue, Observations, Turns, Sources
      <3>2. seen' \in [Watch!Kinds -> [Watch!Ids -> Observations]] /\ states' \in [Watch!Kinds -> [Watch!Ids -> Turns]]
        BY <1>1, <2>2, <3>1 DEF WatchSees
      <3>3. \A k \in Watch!Kinds, i \in Watch!Ids :
              \/ seen'[k][i] = seen[k][i] /\ states'[k][i] = states[k][i]
              \/ seen'[k][i] = Watch!Unknown
        BY <2>2
      <3>4. \A s \in Seats : StampTrue(Watch!Unknown, s, clock, base)
        <4>1. -1 <= clock
          BY <1>1, WatchBounds DEF WatchWorld
        <4> QED BY <4>1 DEF StampTrue, Watch!Unknown, Watch!NotDue
      <3>5. \A k \in Watch!Kinds, i \in Watch!Ids :
              /\ StampTrue(seen'[k][i], i[2], clock, base)
              /\ SinceThen(seen'[k][i], i[2], redeemed, monitor.aborted)
              /\ Lasts(seen'[k][i], states'[k][i], k) /\ NoneKept(seen'[k][i], monitor.aborted)
        <4> SUFFICES ASSUME NEW k \in Watch!Kinds, NEW i \in Watch!Ids
                     PROVE  /\ StampTrue(seen'[k][i], i[2], clock, base)
                            /\ SinceThen(seen'[k][i], i[2], redeemed, monitor.aborted)
                            /\ Lasts(seen'[k][i], states'[k][i], k) /\ NoneKept(seen'[k][i], monitor.aborted)
          OBVIOUS
        <4>1. CASE seen'[k][i] = seen[k][i] /\ states'[k][i] = states[k][i]
          BY <1>1, <4>1 DEF WatchSees
        <4>2. CASE seen'[k][i] = Watch!Unknown
          <5>1. i[2] \in Seats
            BY DEF Watch!Ids
          <5>2. Watch!Unknown.source = "none"
            BY DEF Watch!Unknown
          <5> QED BY <3>4, <4>2, <5>1, <5>2, KindsAre DEF SinceThen, Lasts, NoneKept
        <4> QED BY <3>3, <4>1, <4>2
      <3> QED BY <1>2, <1>5, <3>2, <3>5 DEF WatchSees
    <2> QED BY <1>1, <2>1, <2>2
  <1>9. WatchPolls'
    <2>1. \A s \in Seats : Rests(poll[s], s, seen', states', clock)
      BY <1>3, KindsAre DEF Rests
    <2> QED BY <1>1, <1>2, <1>5, <2>1 DEF WatchPolls
  <1>10. WatchWorld'
    BY <1>1, <1>2, WorldOnly
  <1> QED BY <1>7, <1>8, <1>9, <1>10 DEF WatchInv

LEMMA StartChunkSafe ==
  ASSUME WatchConstants, WatchInv, Watch!StartChunk
  PROVE  WatchInv'
  <1> DEFINE starts == {s \in check.storage : Watch!Turn(s)}
             due(s) == {k \in Watch!Kinds : states[k][<<check.scope, s>>].next <= clock}
             idle(s) == due(s) = {} \/ monitor.aborted
             fresh(s) == [Watch!NoPoll EXCEPT !.phase = "credentials", !.gen = monitor.generation,
                                              !.scope = check.scope, !.due = due(s)]
  <1>1. /\ WatchChecks /\ WatchWorld /\ WatchSees /\ WatchPolls /\ check.phase = "polling"
        /\ UNCHANGED Watch!world /\ UNCHANGED <<monitor, states, seen>>
        /\ poll' = [s \in Seats |-> IF s \notin starts \/ idle(s) THEN poll[s] ELSE fresh(s)]
        /\ check' = [check EXCEPT !.ends = @ \cup {s \in starts : idle(s)},
                                  !.phase = IF \A s \in starts : idle(s) THEN @ ELSE "waiting"]
    BY DEF Watch!StartChunk, WatchInv
  <1>2. UNCHANGED <<clock, used, base, redeemed, reply, path, pool>>
    BY <1>1 DEF Watch!world
  <1>3. \A s \in Seats : poll[s].phase = "idle"
    BY <1>1 DEF WatchChecks
  <1>4. check.scope \in DOMAIN Pools /\ monitor.generation \in Nat /\ monitor.aborted \in BOOLEAN
    BY <1>1 DEF WatchChecks
  <1>5. \A s \in Seats : fresh(s) \in [phase : {"credentials"}, gen : {monitor.generation}, scope : {check.scope},
                                     due : {due(s)}, at : {0}, from : {0}]
    BY DEF Watch!NoPoll
  <1>6. check' \in [phase : {IF \A s \in starts : idle(s) THEN "polling" ELSE "waiting"}, gen : {check.gen},
                    scope : {check.scope}, storage : {check'.storage}, ends : {check'.ends}]
    BY <1>1 DEF WatchChecks
  <1> HIDE DEF fresh
  <1>7. \A s \in Seats : poll'[s] = poll[s] \/ (poll'[s] = fresh(s) /\ s \in starts /\ ~idle(s))
    BY <1>1
  <1>8. WatchChecks'
    <2>1. \A s \in Seats : poll'[s].phase # "idle" => check'.phase = "waiting"
      BY <1>3, <1>6, <1>7
    <2>2. check' \in [phase : Phases, gen : Nat, scope : DOMAIN Pools, storage : {check'.storage}, ends : {check'.ends}]
      BY <1>1, <1>6 DEF WatchChecks, Phases
    <2>3. check'.phase # "idle" /\ check'.gen = check.gen
      BY <1>6
    <2> QED BY <1>1, <2>1, <2>2, <2>3 DEF WatchChecks, Watch!KeepsChecking
  <1>9. WatchPolls'
    <2>1. ASSUME NEW s \in Seats, ~idle(s)
          PROVE  /\ fresh(s) \in Polled
                 /\ Asks(fresh(s), s, clock, base, used)
                 /\ Present(fresh(s), s, redeemed, monitor.generation, monitor.aborted)
                 /\ Rests(fresh(s), s, seen, states, clock)
      <3> DEFINE p == fresh(s)
                 id == <<check.scope, s>>
      <3>1. p.phase = "credentials" /\ p.gen = monitor.generation /\ p.scope = check.scope /\ p.due = due(s)
        BY <1>5
      <3>2. p \in Polled
        <4>1. 0 \in 0 .. MaxClock /\ 0 \in 0 .. MaxVersion
          BY WatchBounds
        <4> QED BY <1>4, <1>5, <4>1 DEF Polled
      <3>3. id \in Watch!Ids
        BY <1>4 DEF Watch!Ids, Watch!Paths
      <3>4. ASSUME NEW k \in due(s)
            PROVE  Rested(seen[k][id], states[k][id], k, clock)
        <4>1. k \in Watch!Kinds /\ states[k][id].next <= clock
          OBVIOUS
        <4>2. Lasts(seen[k][id], states[k][id], k) /\ seen[k][id] \in Observations /\ states[k][id] \in Turns
          BY <1>1, <3>3, <4>1 DEF WatchSees
        <4>3. seen[k][id].at \in Int /\ states[k][id].next \in Nat
          BY <4>2 DEF Observations, Turns
        <4>4. Every[k] \in Nat /\ clock \in Nat
          <5>1. k = "usage" \/ k = "resets"
            BY <4>1, KindsAre
          <5> QED BY <1>1, <5>1, WatchBounds DEF WatchWorld
        <4> HIDE DEF id, due
        <4> QED BY <4>1, <4>2, <4>3, <4>4 DEF Lasts, Rested
      <3>5. due(s) # {}
        BY <2>1
      <3> HIDE DEF p, due
      <3>6. Asks(p, s, clock, base, used) /\ Present(p, s, redeemed, monitor.generation, monitor.aborted)
        BY <1>4, <3>1, KindsAre DEF Asks, Present
      <3>7. Rests(p, s, seen, states, clock)
        BY <3>1, <3>4, <3>5, KindsAre DEF Rests
      <3> QED BY <3>2, <3>6, <3>7 DEF p
    <2>2. poll' = [s \in Seats |-> poll'[s]]
      BY <1>1
    <2> HIDE DEF idle, starts
    <2>3. \A s \in Seats : /\ poll'[s] \in Polled
                         /\ Asks(poll'[s], s, clock, base, used)
                         /\ Present(poll'[s], s, redeemed, monitor.generation, monitor.aborted)
                         /\ Rests(poll'[s], s, seen, states, clock)
      BY <1>1, <1>7, <2>1 DEF WatchPolls
    <2> QED BY <1>1, <1>2, <2>2, <2>3 DEF WatchPolls
  <1>10. WatchWorld' /\ WatchSees'
    BY <1>1, <1>2, WorldOnly, SeesOnly
  <1> QED BY <1>8, <1>9, <1>10 DEF WatchInv

\* A seat's poll ends, or asks next.
LEMMA PollEnds ==
  ASSUME WatchConstants, WatchInv, NEW s \in Seats, poll[s].phase # "idle", Watch!Over(s), UNCHANGED monitor
  PROVE  WatchChecks' /\ \A q \in Seats : poll'[q] = IF q = s THEN Watch!NoPoll ELSE poll[q]
  <1>1. WatchChecks /\ WatchPolls /\ check.phase = "waiting"
    BY DEF WatchInv, WatchChecks
  <1>2. poll' = [q \in Seats |-> IF q = s THEN Watch!NoPoll ELSE poll[q]]
    BY <1>1 DEF Watch!Over, Watch!PollIs, WatchPolls
  <1>3. check' \in [phase : {IF \A x \in Seats \ {s} : poll[x].phase = "idle" THEN "polling" ELSE "waiting"},
                    gen : {check.gen}, scope : {check.scope}, storage : {check.storage}, ends : {check'.ends}]
    BY <1>1 DEF WatchChecks, Watch!Over
  <1>4. \A q \in Seats : poll'[q].phase # "idle" => check'.phase = "waiting"
    BY <1>2, <1>3 DEF Watch!NoPoll
  <1>5. check' \in [phase : Phases, gen : Nat, scope : DOMAIN Pools, storage : {check'.storage}, ends : {check'.ends}]
    BY <1>1, <1>3 DEF WatchChecks, Phases
  <1>6. check'.phase # "idle" /\ check'.gen = check.gen
    BY <1>3
  <1> QED BY <1>1, <1>2, <1>4, <1>5, <1>6 DEF WatchChecks, Watch!KeepsChecking

LEMMA PollAsks ==
  ASSUME WatchConstants, WatchInv, NEW s \in Seats, NEW k, poll[s].phase # "idle", Watch!Ask(s, k), UNCHANGED monitor
  PROVE  /\ WatchChecks'
         /\ \A q \in Seats : poll'[q] = IF q = s
              THEN [poll[s] EXCEPT !.phase = k, !.at = clock, !.from = used[s]] ELSE poll[q]
  <1>1. WatchChecks /\ WatchPolls /\ check.phase = "waiting"
    BY DEF WatchInv, WatchChecks
  <1>2. poll' = [q \in Seats |-> IF q = s THEN [poll[s] EXCEPT !.phase = k, !.at = clock, !.from = used[s]]
                                 ELSE poll[q]] /\ UNCHANGED check
    BY <1>1 DEF Watch!Ask, Watch!PollIs, WatchPolls
  <1> QED BY <1>1, <1>2 DEF WatchChecks, Watch!KeepsChecking

\* What a request asks for is what the provider has now, unless it has just been read.
LEMMA AskedNow ==
  ASSUME WatchConstants, WatchInv, NEW s \in Seats, NEW k \in Watch!Kinds, NEW p \in Polled,
         p.gen <= monitor.generation, NEW sn, NEW st,
         Rested(sn[k][<<p.scope, s>>], st[k][<<p.scope, s>>], k, clock),
         k = "usage" /\ "resets" \in p.due =>
           Rested(sn["resets"][<<p.scope, s>>], st["resets"][<<p.scope, s>>], "resets", clock)
  PROVE  LET q == [p EXCEPT !.phase = k, !.at = clock, !.from = used[s]]
         IN  /\ q \in Polled /\ Asks(q, s, clock, base, used)
             /\ Present(q, s, redeemed, monitor.generation, monitor.aborted)
             /\ Rests(q, s, sn, st, clock)
  <1> DEFINE q == [p EXCEPT !.phase = k, !.at = clock, !.from = used[s]]
  <1>1. WatchWorld
    BY DEF WatchInv
  <1>2. clock \in 0 .. MaxClock /\ used[s] \in 0 .. MaxVersion /\ clock <= clock /\ used[s] <= used[s]
        /\ clock \in 0 .. clock
    BY <1>1, WatchBounds DEF WatchWorld
  <1>3. base[clock][s] \in Nat /\ used[s] >= base[clock][s] /\ used[s] >= redeemed[s]
    <2>1. base[clock] \in [Seats -> 1 .. MaxVersion]
      BY <1>1, <1>2 DEF WatchWorld
    <2>2. base[clock][s] \in Nat /\ redeemed[s] \in Nat /\ used[s] \in Nat
      BY <1>1, <2>1, WatchBounds DEF WatchWorld
    <2> QED BY <1>1, <1>2, <2>2 DEF WatchWorld
  <1>4. q \in [phase : {k}, gen : {p.gen}, scope : {p.scope}, due : {p.due}, at : {clock}, from : {used[s]}]
    BY DEF Polled
  <1> HIDE DEF q
  <1>5. q \in Polled
    BY <1>2, <1>4 DEF Polled
  <1>6. q.phase = k /\ q.gen = p.gen /\ q.scope = p.scope /\ q.due = p.due /\ q.at = clock /\ q.from = used[s]
    BY <1>4
  <1>7. Asks(q, s, clock, base, used) /\ Present(q, s, redeemed, monitor.generation, monitor.aborted)
    BY <1>2, <1>3, <1>6 DEF Asks, Present
  <1>8. Rests(q, s, sn, st, clock)
    BY <1>6, KindsAre DEF Rests
  <1> QED BY <1>5, <1>7, <1>8 DEF q

\* The waits after failures are powers of two, of six failures at most.
LEMMA Doubling ==
  ASSUME NEW n \in {0, 1, 2, 3, 4, 5}
  PROVE  2 ^ n \in Nat
  <1>1. 2 ^ 0 \in Nat /\ 2 ^ 1 \in Nat /\ 2 ^ 2 \in Nat /\ 2 ^ 3 \in Nat /\ 2 ^ 4 \in Nat /\ 2 ^ 5 \in Nat
    BY SMT
  <1>2. n = 0 \/ n = 1 \/ n = 2 \/ n = 3 \/ n = 4 \/ n = 5
    OBVIOUS
  <1> QED BY <1>1, <1>2, Zenon

LEMMA LesserOf ==
  ASSUME NEW m \in Int, NEW n \in Int
  PROVE  Watch!Min({m, n}) = IF m <= n THEN m ELSE n
  BY DEF Watch!Min

LEMMA BackoffIs ==
  ASSUME WatchConstants, WatchWorld, WatchSees, NEW k \in Watch!Kinds, NEW id \in Watch!Ids, NEW most \in Nat
  PROVE  Watch!Backoff(k, id, most) \in Turns /\ Watch!Backoff(k, id, most).failures # 0
  <1> DEFINE n == Watch!Min({6, states[k][id].failures + 1})
             wait == CheckEvery * 2 ^ (n - 1)
  <1>1. states[k][id].failures \in 0 .. 6
    BY DEF WatchSees, Turns
  <1>2. n \in 1 .. 6
    BY <1>1, LesserOf
  <1> HIDE DEF n
  <1>3. wait \in Nat
    <2>1. n - 1 \in {0, 1, 2, 3, 4, 5}
      BY <1>2
    <2>2. 2 ^ (n - 1) \in Nat
      BY <2>1, Doubling, Zenon
    <2> HIDE DEF WatchConstants
    <2> QED BY <2>2, WatchBounds
  <1> HIDE DEF wait
  <1>4. Watch!Min({most, wait}) \in Nat
    BY <1>3, LesserOf
  <1>5. clock + Watch!Min({most, wait}) \in Nat /\ n # 0 /\ n \in 0 .. 6
    BY <1>2, <1>4, WatchBounds DEF WatchWorld
  <1>6. Watch!Backoff(k, id, most) = [next |-> clock + Watch!Min({most, wait}), failures |-> n]
    BY DEF Watch!Backoff, wait, n
  <1> QED BY <1>5, <1>6 DEF Turns

LEMMA CredentialsSafe ==
  ASSUME WatchConstants, WatchInv, NEW s \in Seats, Watch!Credentials(s)
  PROVE  WatchInv'
  <1> DEFINE p == poll[s]
             id == <<p.scope, s>>
             k0 == Watch!First(p.due)
             failed == [k \in Watch!Kinds |-> [states[k] EXCEPT ![id] = Watch!Backoff(k, id, Every["usage"])]]
             q == [p EXCEPT !.phase = k0, !.at = clock, !.from = used[s]]
  <1>1. WatchWorld /\ WatchSees /\ WatchPolls /\ p.phase = "credentials" /\ UNCHANGED Watch!world
        /\ UNCHANGED <<monitor, seen>>
        /\ \/ Watch!Ask(s, k0) /\ UNCHANGED states
           \/ Watch!Over(s) /\ UNCHANGED states
           \/ Watch!Over(s) /\ states' = failed
    BY DEF Watch!Credentials, WatchInv
  <1>2. UNCHANGED <<clock, used, base, redeemed, reply, path, pool>>
    BY <1>1 DEF Watch!world
  <1>3. p \in Polled /\ Present(p, s, redeemed, monitor.generation, monitor.aborted)
        /\ Rests(p, s, seen, states, clock)
    BY <1>1 DEF WatchPolls
  <1>4. id \in Watch!Ids /\ p.due \subseteq Watch!Kinds /\ p.due # {} /\ p.gen <= monitor.generation
    BY <1>1, <1>3 DEF Polled, Watch!Ids, Watch!Paths, Present, Rests
  <1>5. k0 \in p.due /\ k0 \in Watch!Kinds
    BY <1>4, KindsAre DEF Watch!First
  <1>6. WatchWorld' /\ poll' = [x \in Seats |-> poll'[x]]
    BY <1>1, <1>2, WorldOnly DEF Watch!Ask, Watch!Over, Watch!PollIs, WatchPolls
  <1>7. poll[s].phase # "idle"
    BY <1>1
  <1>8. /\ Watch!NoPoll \in Polled /\ Asks(Watch!NoPoll, s, clock, base, used)
        /\ Present(Watch!NoPoll, s, redeemed, monitor.generation, monitor.aborted)
        /\ \A sn, st : Rests(Watch!NoPoll, s, sn, st, clock)
    <2>1. 0 <= monitor.generation /\ 0 \in 0 .. MaxClock /\ 0 \in 0 .. MaxVersion
      BY WatchBounds DEF WatchInv, WatchChecks
    <2> QED BY <2>1, WatchBounds, KindsAre DEF Watch!NoPoll, Polled, Asks, Present, Rests
  <1>9. CASE Watch!Ask(s, k0) /\ UNCHANGED states
    <2>1. WatchChecks' /\ \A x \in Seats : poll'[x] = IF x = s THEN q ELSE poll[x]
      BY <1>1, <1>7, <1>9, PollAsks
    <2>2. Rested(seen[k0][id], states[k0][id], k0, clock)
          /\ (k0 = "usage" /\ "resets" \in p.due => Rested(seen["resets"][id], states["resets"][id], "resets", clock))
      BY <1>1, <1>3, <1>5 DEF Rests
    <2> HIDE DEF k0
    <2>3. /\ q \in Polled /\ Asks(q, s, clock, base, used)
          /\ Present(q, s, redeemed, monitor.generation, monitor.aborted) /\ Rests(q, s, seen, states, clock)
      BY <1>3, <1>4, <1>5, <2>2, AskedNow
    <2> HIDE DEF q
    <2>4. WatchPolls'
      BY <1>1, <1>2, <1>6, <1>9, <2>1, <2>3 DEF WatchPolls
    <2> QED BY <1>1, <1>2, <1>6, <1>9, <2>1, <2>4, SeesOnly DEF WatchInv
  <1>10. CASE Watch!Over(s) /\ UNCHANGED states
    <2>1. WatchChecks' /\ \A x \in Seats : poll'[x] = IF x = s THEN Watch!NoPoll ELSE poll[x]
      BY <1>1, <1>7, <1>10, PollEnds
    <2>2. WatchPolls'
      BY <1>1, <1>2, <1>6, <1>8, <1>10, <2>1 DEF WatchPolls
    <2> QED BY <1>1, <1>2, <1>6, <1>10, <2>1, <2>2, SeesOnly DEF WatchInv
  <1>11. CASE Watch!Over(s) /\ states' = failed
    <2>1. WatchChecks' /\ \A x \in Seats : poll'[x] = IF x = s THEN Watch!NoPoll ELSE poll[x]
      BY <1>1, <1>7, <1>11, PollEnds
    <2>2. \A k \in Watch!Kinds : Watch!Backoff(k, id, Every["usage"]) \in Turns
                                /\ Watch!Backoff(k, id, Every["usage"]).failures # 0
      BY <1>1, <1>4, BackoffIs, WatchBounds
    <2>3. states' \in [Watch!Kinds -> [Watch!Ids -> Turns]]
          /\ \A k \in Watch!Kinds, i \in Watch!Ids :
               IF i = id THEN states'[k][i].failures # 0 ELSE states'[k][i] = states[k][i]
      <3>1. states \in [Watch!Kinds -> [Watch!Ids -> Turns]]
        BY <1>1 DEF WatchSees
      <3>2. \A k \in Watch!Kinds : states'[k] = [states[k] EXCEPT ![id] = Watch!Backoff(k, id, Every["usage"])]
        BY <1>11
      <3>3. states' = [k \in Watch!Kinds |-> states'[k]]
        BY <1>11
      <3> HIDE DEF id, failed
      <3>4. ASSUME NEW k \in Watch!Kinds
            PROVE  states'[k] \in [Watch!Ids -> Turns]
        <4>1. states[k] \in [Watch!Ids -> Turns] /\ Watch!Backoff(k, id, Every["usage"]) \in Turns
          BY <2>2, <3>1
        <4> QED BY <3>2, <4>1
      <3> QED BY <1>4, <2>2, <3>1, <3>2, <3>3, <3>4
    <2>4. WatchSees'
      <3>1. \A k \in Watch!Kinds, i \in Watch!Ids : Lasts(seen[k][i], states'[k][i], k)
        <4> SUFFICES ASSUME NEW k \in Watch!Kinds, NEW i \in Watch!Ids
                     PROVE  Lasts(seen[k][i], states'[k][i], k)
          OBVIOUS
        <4>1. CASE i = id BY <2>3, <4>1 DEF Lasts
        <4>2. CASE i # id BY <1>1, <2>3, <4>2 DEF WatchSees
        <4> QED BY <4>1, <4>2
      <3> QED BY <1>1, <1>2, <2>3, <3>1 DEF WatchSees
    <2>5. \A x \in Seats : x # s => Rests(poll[x], x, seen, states', clock)
      <3> SUFFICES ASSUME NEW x \in Seats, x # s
                   PROVE  Rests(poll[x], x, seen, states', clock)
        OBVIOUS
      <3>1. poll[x] \in Polled /\ Rests(poll[x], x, seen, states, clock)
        BY <1>1 DEF WatchPolls
      <3>2. <<poll[x].scope, x>> \in Watch!Ids /\ <<poll[x].scope, x>> # id /\ poll[x].due \subseteq Watch!Kinds
        BY <3>1 DEF Polled, Watch!Ids, Watch!Paths
      <3>3. \A k \in Watch!Kinds : states'[k][<<poll[x].scope, x>>] = states[k][<<poll[x].scope, x>>]
        BY <2>3, <3>2
      <3> QED BY <3>1, <3>2, <3>3, KindsAre DEF Rests
    <2>6. WatchPolls'
      BY <1>1, <1>2, <1>6, <1>8, <2>1, <2>5 DEF WatchPolls
    <2> QED BY <1>6, <2>1, <2>4, <2>6 DEF WatchInv
  <1> QED BY <1>1, <1>9, <1>10, <1>11

\* What an answer changes, and that the changed entry is in order.
LEMMA AnswerRecords ==
  ASSUME WatchConstants, WatchInv, NEW s \in Seats, Watch!Answer(s)
  PROVE  LET kind == poll[s].phase
             id == <<poll[s].scope, s>>
         IN  /\ kind \in Watch!Kinds /\ id \in Watch!Ids
             /\ seen' \in [Watch!Kinds -> [Watch!Ids -> Observations]]
             /\ states' \in [Watch!Kinds -> [Watch!Ids -> Turns]]
             /\ \A k \in Watch!Kinds, i \in Watch!Ids :
                  (k # kind \/ i # id) => seen'[k][i] = seen[k][i] /\ states'[k][i] = states[k][i]
             /\ StampTrue(seen'[kind][id], s, clock, base)
             /\ SinceThen(seen'[kind][id], s, redeemed, monitor.aborted)
             /\ Lasts(seen'[kind][id], states'[kind][id], kind) /\ NoneKept(seen'[kind][id], monitor.aborted)
  <1> DEFINE p == poll[s]
             kind == p.phase
             id == <<p.scope, s>>
             o(version) == Watch!Field(seen[kind][id], version, p.at, kind)
             x == [next |-> clock + Every[kind], failures |-> 0]
             y == Watch!Backoff(kind, id, Every[kind])
  <1>1. WatchWorld /\ WatchSees /\ WatchPolls /\ kind \in Watch!Kinds
        /\ \/ UNCHANGED <<states, seen>>
           \/ /\ Watch!CanObserve(p) /\ states' = [states EXCEPT ![kind][id] = x]
              /\ \E version \in p.from .. used[s] : seen' = [seen EXCEPT ![kind][id] = o(version)]
           \/ states' = [states EXCEPT ![kind][id] = y] /\ UNCHANGED seen
    BY DEF Watch!Answer, WatchInv, Watch!Record
  <1>2. p \in Polled /\ Asks(p, s, clock, base, used)
        /\ Present(p, s, redeemed, monitor.generation, monitor.aborted)
    BY <1>1 DEF WatchPolls
  <1>3. id \in Watch!Ids
    BY <1>2 DEF Polled, Watch!Ids, Watch!Paths
  <1>4. /\ seen[kind][id] \in Observations /\ StampTrue(seen[kind][id], s, clock, base)
        /\ SinceThen(seen[kind][id], s, redeemed, monitor.aborted)
        /\ Lasts(seen[kind][id], states[kind][id], kind) /\ NoneKept(seen[kind][id], monitor.aborted)
    BY <1>1, <1>3 DEF WatchSees
  <1>5. seen \in [Watch!Kinds -> [Watch!Ids -> Observations]] /\ states \in [Watch!Kinds -> [Watch!Ids -> Turns]]
    BY <1>1 DEF WatchSees
  <1>6. Every[kind] \in Nat /\ clock \in 0 .. MaxClock
    <2>1. kind = "usage" \/ kind = "resets"
      BY <1>1, KindsAre
    <2> QED BY <1>1, <2>1, WatchBounds DEF WatchWorld
  <1>7. CASE UNCHANGED <<states, seen>> BY <1>1, <1>3, <1>4, <1>5, <1>7
  <1>8. CASE states' = [states EXCEPT ![kind][id] = y] /\ UNCHANGED seen
    <2>1. y \in Turns /\ y.failures # 0
      BY <1>1, <1>3, <1>6, BackoffIs
    <2> HIDE DEF y, kind, id
    <2>2. /\ states' \in [Watch!Kinds -> [Watch!Ids -> Turns]]
          /\ \A k \in Watch!Kinds, i \in Watch!Ids : states'[k][i] = IF k = kind /\ i = id THEN y ELSE states[k][i]
      BY <1>1, <1>3, <1>5, <1>8, <2>1, OneEntry
    <2>3. Lasts(seen'[kind][id], states'[kind][id], kind)
      BY <1>1, <1>3, <2>1, <2>2 DEF Lasts
    <2> QED BY <1>1, <1>3, <1>4, <1>5, <1>8, <2>2, <2>3 DEF kind, id
  <1>9. ASSUME NEW version \in p.from .. used[s], Watch!CanObserve(p), states' = [states EXCEPT ![kind][id] = x],
               seen' = [seen EXCEPT ![kind][id] = o(version)]
        PROVE  /\ seen' \in [Watch!Kinds -> [Watch!Ids -> Observations]]
               /\ states' \in [Watch!Kinds -> [Watch!Ids -> Turns]]
               /\ \A k \in Watch!Kinds, i \in Watch!Ids :
                    (k # kind \/ i # id) => seen'[k][i] = seen[k][i] /\ states'[k][i] = states[k][i]
               /\ StampTrue(seen'[kind][id], s, clock, base)
               /\ SinceThen(seen'[kind][id], s, redeemed, monitor.aborted)
               /\ Lasts(seen'[kind][id], states'[kind][id], kind) /\ NoneKept(seen'[kind][id], monitor.aborted)
    <2> DEFINE new == o(version)
               old == seen[kind][id]
    <2>1. p.from \in 0 .. MaxVersion /\ used[s] \in 1 .. MaxVersion /\ p.at \in 0 .. MaxClock
      BY <1>1, <1>2 DEF Polled, WatchWorld
    <2>2. version \in 0 .. MaxVersion /\ version >= p.from
      BY <2>1, WatchBounds
    <2>3. kind \in Sources
      BY <1>1, KindsAre DEF Sources
    <2>4. new \in Observations
          /\ \/ new = old /\ old.at > p.at
             \/ new.version = version /\ new.at = p.at /\ new.source = kind
      BY <1>4, <2>1, <2>2, <2>3, FieldIs
    <2>5. p.at <= clock /\ p.from >= base[p.at][s]
      BY <1>1, <1>2 DEF Asks
    <2>6. ~monitor.aborted /\ p.from >= redeemed[s]
      BY <1>1, <1>2, <1>9 DEF Present, Watch!CanObserve
    <2>7. base[p.at][s] \in Nat /\ redeemed[s] \in Nat
      <3>1. base[p.at] \in [Seats -> 1 .. MaxVersion]
        BY <1>1, <2>1 DEF WatchWorld
      <3> QED BY <1>1, <3>1, WatchBounds DEF WatchWorld
    <2>8. version >= base[p.at][s] /\ version >= redeemed[s]
      BY <2>1, <2>2, <2>5, <2>6, <2>7, WatchBounds
    <2>9. x \in Turns /\ x.failures = 0 /\ x.next = clock + Every[kind]
      BY <1>6, WatchBounds DEF Turns
    <2> HIDE DEF new, x, kind, id, p, old
    <2>10. seen' \in [Watch!Kinds -> [Watch!Ids -> Observations]]
           /\ \A k \in Watch!Kinds, i \in Watch!Ids : seen'[k][i] = IF k = kind /\ i = id THEN new ELSE seen[k][i]
      <3>1. seen' = [seen EXCEPT ![kind][id] = new]
        BY <1>9 DEF new, p
      <3> QED BY <1>1, <1>3, <1>5, <2>4, <3>1, OneEntry
    <2>11. states' \in [Watch!Kinds -> [Watch!Ids -> Turns]]
           /\ \A k \in Watch!Kinds, i \in Watch!Ids : states'[k][i] = IF k = kind /\ i = id THEN x ELSE states[k][i]
      BY <1>1, <1>3, <1>5, <1>9, <2>9, OneEntry
    <2>12. seen'[kind][id] = new /\ states'[kind][id] = x
      BY <1>1, <1>3, <2>10, <2>11
    <2>13. StampTrue(new, s, clock, base)
      <3>1. CASE new = old BY <1>4, <3>1 DEF old
      <3>2. CASE new.version = version /\ new.at = p.at /\ new.source = kind
        BY <2>1, <2>5, <2>8, <3>2, WatchBounds DEF StampTrue
      <3> QED BY <2>4, <3>1, <3>2
    <2>14. SinceThen(new, s, redeemed, monitor.aborted)
      <3>1. CASE new = old BY <1>4, <3>1 DEF old
      <3>2. CASE new.version = version /\ new.at = p.at /\ new.source = kind
        BY <2>8, <3>2 DEF SinceThen
      <3> QED BY <2>4, <3>1, <3>2
    <2>15. Lasts(new, x, kind)
      <3>1. new.at <= clock /\ new.at \in Int
        BY <2>4, <2>13 DEF StampTrue, Observations
      <3> QED BY <1>6, <2>9, <3>1, WatchBounds DEF Lasts
    <2>16. NoneKept(new, monitor.aborted)
      BY <2>6 DEF NoneKept
    <2> QED BY <2>10, <2>11, <2>12, <2>13, <2>14, <2>15, <2>16
  <1>10. \/ UNCHANGED <<states, seen>>
         \/ states' = [states EXCEPT ![kind][id] = y] /\ UNCHANGED seen
         \/ \E version \in p.from .. used[s] : Watch!CanObserve(p) /\ states' = [states EXCEPT ![kind][id] = x]
                                            /\ seen' = [seen EXCEPT ![kind][id] = o(version)]
    BY <1>1
  <1> HIDE DEF o, x, y
  <1> QED BY <1>1, <1>3, <1>7, <1>8, <1>9, <1>10

LEMMA AnswerSafe ==
  ASSUME WatchConstants, WatchInv, NEW s \in Seats, Watch!Answer(s)
  PROVE  WatchInv'
  <1> DEFINE p == poll[s]
             kind == p.phase
             id == <<p.scope, s>>
             q == [p EXCEPT !.phase = "resets", !.at = clock, !.from = used[s]]
  <1>1. /\ WatchWorld /\ WatchSees /\ WatchPolls /\ UNCHANGED Watch!world /\ UNCHANGED monitor
        /\ \/ Watch!Over(s)
           \/ Watch!Ask(s, "resets") /\ kind = "usage" /\ "resets" \in p.due
    BY DEF Watch!Answer, WatchInv
  <1>2. UNCHANGED <<clock, used, base, redeemed, reply, path, pool>>
    BY <1>1 DEF Watch!world
  <1>3. /\ kind \in Watch!Kinds /\ id \in Watch!Ids
        /\ seen' \in [Watch!Kinds -> [Watch!Ids -> Observations]]
        /\ states' \in [Watch!Kinds -> [Watch!Ids -> Turns]]
        /\ \A k \in Watch!Kinds, i \in Watch!Ids :
             (k # kind \/ i # id) => seen'[k][i] = seen[k][i] /\ states'[k][i] = states[k][i]
        /\ StampTrue(seen'[kind][id], s, clock, base) /\ SinceThen(seen'[kind][id], s, redeemed, monitor.aborted)
        /\ Lasts(seen'[kind][id], states'[kind][id], kind) /\ NoneKept(seen'[kind][id], monitor.aborted)
    BY AnswerRecords
  <1>4. p \in Polled /\ Present(p, s, redeemed, monitor.generation, monitor.aborted)
        /\ Rests(p, s, seen, states, clock)
    BY <1>1 DEF WatchPolls
  <1>5. WatchSees'
    <2>1. ASSUME NEW k \in Watch!Kinds, NEW i \in Watch!Ids
          PROVE  /\ StampTrue(seen'[k][i], i[2], clock, base)
                 /\ SinceThen(seen'[k][i], i[2], redeemed, monitor.aborted)
                 /\ Lasts(seen'[k][i], states'[k][i], k) /\ NoneKept(seen'[k][i], monitor.aborted)
      <3>1. CASE k = kind /\ i = id BY <1>3, <3>1
      <3>2. CASE k # kind \/ i # id BY <1>1, <1>3, <3>2 DEF WatchSees
      <3> QED BY <3>1, <3>2
    <2> QED BY <1>1, <1>2, <1>3, <2>1 DEF WatchSees
  <1>6. \A x \in Seats : x # s => Rests(poll[x], x, seen', states', clock)
    <2> SUFFICES ASSUME NEW x \in Seats, x # s
                 PROVE  Rests(poll[x], x, seen', states', clock)
      OBVIOUS
    <2>1. poll[x] \in Polled /\ Rests(poll[x], x, seen, states, clock)
      BY <1>1 DEF WatchPolls
    <2>2. <<poll[x].scope, x>> \in Watch!Ids /\ <<poll[x].scope, x>> # id /\ poll[x].due \subseteq Watch!Kinds
      BY <2>1 DEF Polled, Watch!Ids, Watch!Paths
    <2>3. \A k \in Watch!Kinds : states'[k][<<poll[x].scope, x>>] = states[k][<<poll[x].scope, x>>]
                               /\ seen'[k][<<poll[x].scope, x>>] = seen[k][<<poll[x].scope, x>>]
      BY <1>3, <2>2
    <2> QED BY <2>1, <2>2, <2>3, KindsAre DEF Rests
  <1>7. poll[s].phase # "idle"
    BY <1>3, KindsAre
  <1>8. poll' = [x \in Seats |-> poll'[x]]
    BY <1>1 DEF Watch!Ask, Watch!Over, Watch!PollIs, WatchPolls
  <1>9. CASE Watch!Over(s)
    <2>1. WatchChecks' /\ \A x \in Seats : poll'[x] = IF x = s THEN Watch!NoPoll ELSE poll[x]
      BY <1>1, <1>7, <1>9, PollEnds
    <2>2. /\ Watch!NoPoll \in Polled /\ Asks(Watch!NoPoll, s, clock, base, used)
          /\ Present(Watch!NoPoll, s, redeemed, monitor.generation, monitor.aborted)
          /\ Rests(Watch!NoPoll, s, seen', states', clock)
      <3>1. 0 <= monitor.generation /\ 0 \in 0 .. MaxClock /\ 0 \in 0 .. MaxVersion
        BY WatchBounds DEF WatchInv, WatchChecks
      <3> QED BY <3>1, WatchBounds, KindsAre DEF Watch!NoPoll, Polled, Asks, Present, Rests
    <2>3. WatchPolls'
      BY <1>1, <1>2, <1>6, <1>8, <2>1, <2>2 DEF WatchPolls
    <2> QED BY <1>1, <1>2, <1>5, <2>1, <2>3, WorldOnly DEF WatchInv
  <1>10. CASE Watch!Ask(s, "resets") /\ kind = "usage" /\ "resets" \in p.due
    <2>1. WatchChecks' /\ \A x \in Seats : poll'[x] = IF x = s THEN q ELSE poll[x]
      BY <1>1, <1>7, <1>10, PollAsks
    <2>2. Rested(seen["resets"][id], states["resets"][id], "resets", clock)
      BY <1>4, <1>10 DEF Rests
    <2>3. Rested(seen'["resets"][id], states'["resets"][id], "resets", clock)
      BY <1>3, <1>10, <2>2, KindsAre
    <2>4. /\ q \in Polled /\ Asks(q, s, clock, base, used)
          /\ Present(q, s, redeemed, monitor.generation, monitor.aborted) /\ Rests(q, s, seen', states', clock)
      <3>1. p.gen <= monitor.generation
        BY <1>4 DEF Present
      <3> QED BY <1>4, <2>3, <3>1, KindsAre, AskedNow
    <2> HIDE DEF q
    <2>5. WatchPolls'
      BY <1>1, <1>2, <1>6, <1>8, <2>1, <2>4 DEF WatchPolls
    <2> QED BY <1>1, <1>2, <1>5, <2>1, <2>5, WorldOnly DEF WatchInv
  <1> QED BY <1>1, <1>9, <1>10

LEMMA EndSafe ==
  ASSUME WatchConstants, WatchInv, Watch!End
  PROVE  WatchInv'
  <1>1. /\ WatchWorld /\ WatchChecks /\ check.phase \in {"ending", "polling"} /\ check' = Watch!NoCheck
        /\ monitor' = [monitor EXCEPT !.running = FALSE,
              !.timer = IF monitor.aborted THEN Watch!NotDue ELSE clock + IF monitor.pending THEN 0 ELSE CheckEvery]
        /\ UNCHANGED Watch!world /\ UNCHANGED <<poll, states, seen>>
    BY DEF Watch!End, WatchInv
  <1>2. UNCHANGED <<clock, used, base, redeemed, reply, path, pool>>
    BY <1>1 DEF Watch!world
  <1> DEFINE timer == IF monitor.aborted THEN -1 ELSE clock + IF monitor.pending THEN 0 ELSE CheckEvery
  <1>3. timer \in -1 .. MaxClock + CheckEvery /\ (monitor.aborted \/ timer # -1)
    BY <1>1, WatchBounds DEF WatchWorld
  <1>4. monitor'.timer = timer /\ ~monitor'.running /\ monitor'.generation = monitor.generation
        /\ monitor'.pending = monitor.pending /\ monitor'.aborted = monitor.aborted
        /\ monitor' \in [timer : {timer}, running : BOOLEAN, generation : {monitor.generation},
                         pending : {monitor.pending}, scope : {monitor.scope}, aborted : {monitor.aborted}]
    BY <1>1 DEF WatchChecks, Watch!NotDue
  <1> HIDE DEF timer
  <1>5. monitor' \in [timer : -1 .. MaxClock + CheckEvery, running : BOOLEAN, generation : Nat,
                      pending : BOOLEAN, scope : {0} \cup DOMAIN Pools, aborted : BOOLEAN]
    <2>1. monitor.generation \in Nat /\ monitor.pending \in BOOLEAN /\ monitor.scope \in {0} \cup DOMAIN Pools
          /\ monitor.aborted \in BOOLEAN
      BY <1>1 DEF WatchChecks
    <2> QED BY <1>3, <1>4, <2>1
  <1>6. WatchChecks'
    <2>1. \A s \in Seats : poll[s].phase = "idle"
      BY <1>1 DEF WatchChecks
    <2>2. check' \in [phase : Phases, gen : Nat, scope : DOMAIN Pools, storage : {check'.storage}, ends : {check'.ends}]
          /\ check'.phase = "idle"
      BY <1>1, WatchBounds DEF Watch!NoCheck, Phases
    <2>3. Watch!KeepsChecking'
      BY <1>3, <1>4, <2>2 DEF Watch!KeepsChecking, Watch!NotDue
    <2> QED BY <1>1, <1>5, <2>1, <2>2, <2>3 DEF WatchChecks
  <1> QED BY <1>1, <1>2, <1>4, <1>6, WorldOnly, SeesOnly, PollsOnly DEF WatchInv

\* What has been forgotten is in order, and no poll asks for it early.
LEMMA AllForgotten ==
  ASSUME WatchConstants, WatchInv, seen' = Watch!Forgotten(Watch!Unknown),
         states' \in [Watch!Kinds -> [Watch!Ids -> Turns]], UNCHANGED <<clock, base>>
  PROVE  /\ WatchSees'
         /\ \A p \in Polled, s \in Seats :
              (p.phase = "credentials" => p.due # {}) => Rests(p, s, seen', states', clock)
  <1>1. Watch!Unknown \in Observations /\ Watch!Unknown.source = "none" /\ Watch!Unknown.at = -1
    BY WatchBounds DEF Watch!Unknown, Watch!NotDue, Observations, Sources
  <1>2. \A k \in Watch!Kinds, i \in Watch!Ids : seen'[k][i] = Watch!Unknown
    BY DEF Watch!Forgotten
  <1>3. seen' \in [Watch!Kinds -> [Watch!Ids -> Observations]]
    BY <1>1 DEF Watch!Forgotten
  <1>4. -1 <= clock
    BY WatchBounds DEF WatchInv, WatchWorld
  <1>5. WatchSees'
    BY <1>1, <1>2, <1>3, <1>4, KindsAre DEF WatchSees, StampTrue, SinceThen, Lasts, NoneKept
  <1>6. ASSUME NEW p \in Polled, NEW s \in Seats, p.phase = "credentials" => p.due # {}
        PROVE  Rests(p, s, seen', states', clock)
    <2>1. <<p.scope, s>> \in Watch!Ids /\ p.due \subseteq Watch!Kinds
      BY DEF Polled, Watch!Ids, Watch!Paths
    <2>2. \A k \in Watch!Kinds : \A time : Rested(seen'[k][<<p.scope, s>>], states'[k][<<p.scope, s>>], k, time)
      BY <1>1, <1>2, <2>1, KindsAre DEF Rested
    <2> QED BY <1>6, <2>1, <2>2, KindsAre DEF Rests
  <1> QED BY <1>5, <1>6

LEMMA RefreshSafe ==
  ASSUME WatchConstants, WatchInv, Watch!Refresh
  PROVE  WatchInv'
  <1>1. /\ WatchWorld /\ WatchChecks /\ WatchSees /\ WatchPolls /\ redeemed' = used
        /\ UNCHANGED <<clock, used, base, reply, path, pool, moves, check, poll>>
        /\ \/ monitor.aborted /\ UNCHANGED <<monitor, states, seen>>
           \/ /\ ~monitor.aborted
              /\ monitor' = [monitor EXCEPT !.generation = @ + 1, !.pending = TRUE, !.timer = clock]
              /\ states' = Watch!Forgotten(Watch!Asked) /\ seen' = Watch!Forgotten(Watch!Unknown)
    BY DEF Watch!Refresh, WatchInv
  <1>2. WatchWorld'
    <2>1. used \in [Seats -> 0 .. MaxVersion] /\ \A s \in Seats : used[s] <= used[s]
      BY <1>1, WatchBounds DEF WatchWorld
    <2> QED BY <1>1, <2>1 DEF WatchWorld
  <1>3. CASE monitor.aborted /\ UNCHANGED <<monitor, states, seen>>
    <2>1. WatchSees' /\ WatchPolls'
      BY <1>1, <1>3 DEF WatchSees, WatchPolls, SinceThen, Present
    <2> QED BY <1>1, <1>2, <1>3, <2>1, ChecksOnly DEF WatchInv
  <1>4. CASE ~monitor.aborted /\ UNCHANGED <<clock, used, base, check, poll>>
             /\ monitor' = [monitor EXCEPT !.generation = @ + 1, !.pending = TRUE, !.timer = clock]
             /\ states' = Watch!Forgotten(Watch!Asked) /\ seen' = Watch!Forgotten(Watch!Unknown)
    <2>1. /\ monitor' \in [timer : {clock}, running : {monitor.running}, generation : {monitor.generation + 1},
                            pending : BOOLEAN, scope : {monitor.scope}, aborted : {monitor.aborted}]
          /\ monitor'.pending
      BY <1>1, <1>4 DEF WatchChecks
    <2>2. monitor.generation \in Nat /\ monitor.running \in BOOLEAN /\ monitor.scope \in {0} \cup DOMAIN Pools
          /\ monitor.aborted \in BOOLEAN
      BY <1>1 DEF WatchChecks
    <2>3. clock \in -1 .. MaxClock + CheckEvery /\ clock # -1
      BY <1>1, WatchBounds DEF WatchWorld
    <2>4. WatchChecks'
      BY <1>1, <1>4, <2>1, <2>2, <2>3 DEF WatchChecks, Watch!KeepsChecking, Watch!NotDue
    <2>5. states' \in [Watch!Kinds -> [Watch!Ids -> Turns]]
      BY <1>4 DEF Watch!Forgotten, Watch!Asked, Turns
    <2>6. WatchSees' /\ \A s \in Seats : Rests(poll[s], s, seen', states', clock)
      BY <1>1, <1>4, <2>5, AllForgotten DEF WatchPolls, Rests
    <2>7. \A s \in Seats : Present(poll[s], s, used, monitor'.generation, monitor'.aborted)
      <3> SUFFICES ASSUME NEW s \in Seats
                   PROVE  Present(poll[s], s, used, monitor'.generation, monitor'.aborted)
        OBVIOUS
      <3>1. poll[s].gen \in Nat /\ poll[s].gen <= monitor.generation
        BY <1>1 DEF WatchPolls, Polled, Present
      <3>2. monitor'.generation = monitor.generation + 1
        BY <2>1
      <3>3. poll[s].gen <= monitor'.generation /\ poll[s].gen # monitor'.generation
        BY <2>2, <3>1, <3>2
      <3> QED BY <3>3 DEF Present
    <2>8. WatchPolls'
      BY <1>1, <1>4, <2>6, <2>7 DEF WatchPolls
    <2> QED BY <1>2, <2>4, <2>6, <2>8 DEF WatchInv
  <1> QED BY <1>1, <1>3, <1>4

LEMMA DisposeSafe ==
  ASSUME WatchConstants, WatchInv, Watch!Dispose
  PROVE  WatchInv'
  <1>1. /\ WatchWorld /\ WatchChecks /\ WatchSees /\ WatchPolls
        /\ monitor' = [monitor EXCEPT !.aborted = TRUE, !.timer = Watch!NotDue]
        /\ seen' = Watch!Forgotten(Watch!Unknown) /\ UNCHANGED Watch!world /\ UNCHANGED <<check, poll, states>>
    BY DEF Watch!Dispose, WatchInv
  <1>2. UNCHANGED <<clock, used, base, redeemed, reply, path, pool>>
    BY <1>1 DEF Watch!world
  <1>3. /\ monitor' \in [timer : {-1}, running : {monitor.running}, generation : {monitor.generation},
                          pending : {monitor.pending}, scope : {monitor.scope}, aborted : BOOLEAN]
        /\ monitor'.aborted
    BY <1>1 DEF WatchChecks, Watch!NotDue
  <1>4. WatchChecks'
    <2>1. monitor.generation \in Nat /\ monitor.running \in BOOLEAN /\ monitor.scope \in {0} \cup DOMAIN Pools
          /\ monitor.pending \in BOOLEAN /\ -1 \in -1 .. MaxClock + CheckEvery
      BY <1>1, WatchBounds DEF WatchChecks
    <2> QED BY <1>1, <1>3, <2>1 DEF WatchChecks, Watch!KeepsChecking
  <1>5. states' \in [Watch!Kinds -> [Watch!Ids -> Turns]]
    BY <1>1 DEF WatchSees
  <1>6. WatchSees' /\ \A s \in Seats : Rests(poll[s], s, seen', states', clock)
    BY <1>1, <1>2, <1>5, AllForgotten DEF WatchPolls, Rests
  <1>7. WatchPolls'
    BY <1>1, <1>2, <1>3, <1>6 DEF WatchPolls, Present
  <1> QED BY <1>1, <1>2, <1>4, <1>6, <1>7, WorldOnly DEF WatchInv

LEMMA WatchNext ==
  ASSUME WatchConstants, WatchInv, [Watch!Next]_Watch!vars
  PROVE  WatchInv'
  <1>1. CASE UNCHANGED Watch!vars
    <2>1. UNCHANGED <<clock, used, base, redeemed, reply, path, pool, monitor, check, poll, states, seen>>
      BY <1>1 DEF Watch!vars
    <2> QED BY <2>1, WorldOnly, ChecksOnly, SeesOnly, PollsOnly DEF WatchInv
  <1>2. CASE Watch!Next
    BY <1>2, WatchTick, MoveSafe, FireSafe, LoadSafe, LoadedSafe, StartChunkSafe, EndSafe, RefreshSafe, DisposeSafe,
       ServeSafe, HeadersSafe, RedeemSafe, CredentialsSafe, AnswerSafe DEF Watch!Next
  <1> QED BY <1>1, <1>2

LEMMA WatchImplies ==
  ASSUME WatchConstants, WatchInv
  PROVE  Watch!TypeOK /\ Watch!MonitorSafe
  <1>1. WatchWorld /\ WatchChecks /\ WatchSees /\ WatchPolls
    BY DEF WatchInv
  <1>2. Watch!HonestObservations
    BY <1>1 DEF WatchSees, StampTrue, Watch!HonestObservations
  <1>3. Watch!SinceRedeemed
    BY <1>1 DEF WatchSees, SinceThen, Watch!SinceRedeemed
  <1>4. Watch!Spaced
    <2> SUFFICES ASSUME NEW s \in Seats, Watch!AskedEarly(s)
                 PROVE  states[poll[s].phase][<<poll[s].scope, s>>].failures # 0
      BY DEF Watch!Spaced
    <2> DEFINE p == poll[s]
               id == <<p.scope, s>>
    <2>1. /\ p.phase \in Watch!Kinds /\ seen[p.phase][id].source = p.phase
          /\ p.at < seen[p.phase][id].at + Every[p.phase]
      BY DEF Watch!AskedEarly, Watch!IsFresh
    <2>2. p \in Polled /\ Rested(seen[p.phase][id], states[p.phase][id], p.phase, p.at)
      BY <1>1, <2>1 DEF WatchPolls, Rests
    <2>3. id \in Watch!Ids
      BY <2>2 DEF Polled, Watch!Ids, Watch!Paths
    <2>4. seen[p.phase][id] \in Observations
      BY <1>1, <2>1, <2>3 DEF WatchSees
    <2>5. seen[p.phase][id].at \in Int /\ p.at \in Int
      BY <2>2, <2>4, WatchBounds DEF Observations, Polled
    <2>6. p.phase = "usage" \/ p.phase = "resets"
      BY <2>1, KindsAre
    <2>7. Every[p.phase] \in Int
      BY <2>6, WatchBounds
    <2> HIDE DEF id
    <2> QED BY <2>1, <2>2, <2>5, <2>7 DEF Rested, id
  <1>5. Watch!KeepsChecking
    BY <1>1 DEF WatchChecks
  <1>6. Watch!DisposedIsEmpty
    BY <1>1 DEF WatchSees, NoneKept, Watch!DisposedIsEmpty
  <1>7. Watch!TypeOK
    <2>1. clock \in 0 .. MaxClock /\ used \in [Seats -> 1 .. MaxVersion] /\ path \in Watch!Paths
          /\ \A q \in Watch!Paths : pool[q] \subseteq Seats
      BY <1>1 DEF WatchWorld, Watch!Paths
    <2>2. monitor.timer \in Watch!NotDue .. MaxClock + CheckEvery /\ monitor.running \in BOOLEAN
          /\ check.phase \in Phases
      BY <1>1 DEF WatchChecks, Watch!NotDue
    <2>3. \A s \in Seats : poll[s].phase \in {"idle", "credentials"} \cup Watch!Kinds
      BY <1>1 DEF WatchPolls, Polled
    <2>4. \A k \in Watch!Kinds : \A i \in Watch!Ids :
            /\ states[k][i].failures \in 0 .. 6 /\ states[k][i].next \in Nat
            /\ seen[k][i].version \in 0 .. MaxVersion /\ seen[k][i].source \in Sources
      BY <1>1 DEF WatchSees, Observations, Turns
    <2>5. Sources \subseteq {"none", "headers"} \cup Watch!Kinds
      BY DEF Sources, Watch!Kinds
    <2> QED BY <2>1, <2>2, <2>3, <2>4, <2>5 DEF Watch!TypeOK, Phases
  <1> QED BY <1>2, <1>3, <1>4, <1>5, <1>6, <1>7 DEF Watch!MonitorSafe

\* What a custom policy is shown of an account is no older than it says and from after the
\* last redemption, no endpoint is asked again for a reading that stands, and the monitor
\* goes on until it is disposed of (custom-rotation/monitor.ts), for any seats and paths,
\* intervals and failures, as long as a response's headers are recorded in its own tick.
THEOREM ObservationsStaySafe ==
  ASSUME WatchConstants
  PROVE  Watch!Spec => [](Watch!TypeOK /\ Watch!MonitorSafe)
  <1>1. Watch!Init => WatchInv
    BY WatchInit
  <1>2. WatchInv /\ [Watch!Next]_Watch!vars => WatchInv'
    BY WatchNext
  <1>3. WatchInv => Watch!TypeOK /\ Watch!MonitorSafe
    BY WatchImplies
  <1> QED BY <1>1, <1>2, <1>3, PTL DEF Watch!Spec

(***************************************************************************)
(* The serving account's line: a snapshot is at least what its account was *)
(* when the time it claims began.                                          *)
(***************************************************************************)
CONSTANTS Lines, Sessions, Together, Slow

VARIABLES now, active, shared, session, kv, line, refresh, response

Bar == INSTANCE StatusLine

BarConstants ==
  /\ MaxClock \in Nat /\ Sessions \subseteq Lines /\ Together = FALSE /\ "response" \notin Slow

\* A snapshot of an account that b, the history up to time, bears out.
Borne(s, time, b) ==
  \/ s = Bar!NoSnapshot
  \/ /\ s \in [print : {s.print}, version : Nat, at : 0 .. MaxClock, source : {s.source}]
     /\ s.print[1] \in Accounts /\ s.at <= time
     /\ s.version > 0 => s.version >= b[s.print[1]][s.at]

\* A response that is not handled yet is of this tick.
Arriving(s, time, b) ==
  \/ s = Bar!NoSnapshot
  \/ /\ s \in [print : {s.print}, version : Nat, at : {-1}, source : {"none"}]
     /\ s.print[1] \in Accounts
     /\ s.version > 0 => s.version >= b[s.print[1]][time]

BarWorld ==
  /\ clock \in 0 .. MaxClock /\ pool \subseteq Accounts /\ active \in Accounts
  /\ now \in [Accounts -> Nat \ {0}] /\ base \in [Accounts -> [0 .. MaxClock -> Nat]]
  /\ \A a \in Accounts : \A t \in 0 .. clock : base[a][t] <= now[a]
  /\ response = [r \in Requests |-> response[r]]
  /\ \A r \in Requests : Arriving(response[r], clock, base)

BarFiles ==
  /\ Borne(shared, clock, base)
  /\ session = [l \in Sessions |-> session[l]] /\ \A l \in Sessions : Borne(session[l], clock, base)
  /\ kv = [l \in Lines |-> kv[l]] /\ \A l \in Lines : Borne(kv[l], clock, base)

\* A refresh in flight reads its account at its stamp or later.
Refreshes(f, time, b) ==
  /\ f \in [phase : {"idle", "due", "asked", "served"}, print : {f.print}, at : 0 .. MaxClock,
            version : Nat, cached : {f.cached}]
  /\ f.at <= time /\ Borne(f.cached, time, b)
  /\ f.phase \in {"asked", "served"} => f.print[1] \in Accounts
  /\ f.phase = "served" => f.version >= b[f.print[1]][f.at]

BarRefreshes ==
  refresh = [l \in Lines |-> refresh[l]] /\ \A l \in Lines : Refreshes(refresh[l], clock, base)

BarPolls ==
  poll = [l \in Lines |-> poll[l]] /\ \A l \in Lines : Borne(poll[l].session, clock, base)

Displays(v, time, b) == v.type \in {"loading", "ready", "missing", "unavailable"} /\ Borne(v.snap, time, b)

BarShows ==
  line = [l \in Lines |-> line[l]] /\ \A l \in Lines : Displays(line[l], clock, base)

BarInv == BarWorld /\ BarFiles /\ BarRefreshes /\ BarPolls /\ BarShows

-----------------------------------------------------------------------------
LEMMA NothingBorne == \A time, b : Borne(Bar!NoSnapshot, time, b)
  BY DEF Borne

LEMMA BarInit ==
  ASSUME BarConstants, Bar!Init
  PROVE  BarInv
  <1>1. 0 \in 0 .. MaxClock /\ 1 \in Nat \ {0}
    BY DEF BarConstants
  <1>2. BarWorld
    BY <1>1 DEF Bar!Init, BarWorld, Arriving
  <1>3. BarFiles
    BY NothingBorne DEF Bar!Init, BarFiles
  <1>4. Refreshes([Bar!NoRefresh EXCEPT !.phase = "due"], clock, base)
    BY <1>1, NothingBorne DEF Bar!Init, Refreshes, Bar!NoRefresh
  <1>5. BarRefreshes
    BY <1>4 DEF Bar!Init, BarRefreshes
  <1>6. BarPolls
    BY NothingBorne DEF Bar!Init, BarPolls, Bar!NoTarget
  <1>7. BarShows
    BY NothingBorne DEF Bar!Init, BarShows, Displays, Bar!Showing
  <1> QED BY <1>2, <1>3, <1>5, <1>6, <1>7 DEF BarInv

\* Whatever a line finds in the caches is borne out.
LEMMA FoundIsBorne ==
  ASSUME BarInv, NEW l \in Lines
  PROVE  /\ Borne(Bar!Binding(l), clock, base)
         /\ Bar!Binding(l) # Bar!NoSnapshot => Bar!Binding(l).print[1] \in Accounts
         /\ \A print : Borne(Bar!ReadShared(print), clock, base)
         /\ \A print, s : Borne(s, clock, base) => Borne(Bar!ReadSlot(print, s), clock, base)
         /\ Borne(Bar!Target(l).session, clock, base)
  <1> DEFINE s == session[l]
             b == [s EXCEPT !.print = Bar!Fingerprint(@[1])]
  <1>1. Borne(Bar!Binding(l), clock, base)
        /\ (Bar!Binding(l) # Bar!NoSnapshot => Bar!Binding(l).print[1] \in Accounts)
    <2>1. CASE l \in Sessions /\ s # Bar!NoSnapshot /\ s.print[1] \in pool
      <3>1. Bar!Binding(l) = b
        BY <2>1 DEF Bar!Binding
      <3>2. Borne(s, clock, base)
        BY <2>1 DEF BarInv, BarFiles
      <3>3. /\ s \in [print : {s.print}, version : Nat, at : 0 .. MaxClock, source : {s.source}]
            /\ s.print[1] \in Accounts /\ s.at <= clock
            /\ s.version > 0 => s.version >= base[s.print[1]][s.at]
        BY <2>1, <3>2 DEF Borne
      <3>4. b.print = Bar!Fingerprint(s.print[1]) /\ b.version = s.version /\ b.at = s.at /\ b.source = s.source
            /\ b \in [print : {b.print}, version : Nat, at : 0 .. MaxClock, source : {b.source}]
        BY <3>3
      <3>5. b.print[1] = s.print[1]
        BY <3>4 DEF Bar!Fingerprint
      <3> HIDE DEF b, s
      <3> QED BY <3>1, <3>3, <3>4, <3>5 DEF Borne
    <2>2. CASE ~(l \in Sessions /\ s # Bar!NoSnapshot /\ s.print[1] \in pool)
      <3>1. Bar!Binding(l) = Bar!NoSnapshot
        BY <2>2 DEF Bar!Binding
      <3> QED BY <3>1, NothingBorne
    <2> QED BY <2>1, <2>2
  <1>2. \A print : Borne(Bar!ReadShared(print), clock, base)
    BY NothingBorne DEF BarInv, BarFiles, Bar!ReadShared
  <1>3. \A print, x : Borne(x, clock, base) => Borne(Bar!ReadSlot(print, x), clock, base)
    BY <1>2 DEF Bar!ReadSlot
  <1>4. Borne(Bar!Target(l).session, clock, base)
    BY <1>1, NothingBorne DEF Bar!Target, Bar!NoTarget
  <1> QED BY <1>1, <1>2, <1>3, <1>4

LEMMA BarStep ==
  ASSUME BarInv, clock' = clock, base' = base, BarWorld', BarFiles', BarRefreshes', BarPolls', BarShows'
  PROVE  BarInv'
  BY DEF BarInv

LEMMA WorldOfBar ==
  ASSUME BarInv, UNCHANGED <<clock, Bar!world>>
  PROVE  BarWorld' /\ clock' = clock /\ base' = base
  BY DEF Bar!world, BarInv, BarWorld

LEMMA BarStays ==
  ASSUME BarInv, clock' = clock, base' = base
  PROVE  /\ UNCHANGED <<shared, session, kv>> => BarFiles'
         /\ UNCHANGED refresh => BarRefreshes'
         /\ UNCHANGED poll => BarPolls'
         /\ UNCHANGED line => BarShows'
  BY DEF BarInv, BarFiles, BarRefreshes, BarPolls, BarShows

LEMMA OneRefresh ==
  ASSUME BarInv, clock' = clock, base' = base, NEW l \in Lines, NEW f, Refreshes(f, clock, base),
         refresh' = [refresh EXCEPT ![l] = f]
  PROVE  BarRefreshes'
  <1>1. refresh' = [m \in Lines |-> IF m = l THEN f ELSE refresh[m]]
    BY DEF BarInv, BarRefreshes
  <1> QED BY <1>1 DEF BarInv, BarRefreshes

LEMMA OneLine ==
  ASSUME BarInv, clock' = clock, base' = base, NEW l \in Lines, NEW v, Displays(v, clock, base),
         line' = [line EXCEPT ![l] = v]
  PROVE  BarShows'
  <1>1. line' = [m \in Lines |-> IF m = l THEN v ELSE line[m]]
    BY DEF BarInv, BarShows
  <1> QED BY <1>1 DEF BarInv, BarShows

LEMMA OneStore ==
  ASSUME BarInv, clock' = clock, base' = base, NEW l \in Lines, NEW s, Borne(s, clock, base),
         Bar!Store(l, s), Borne(shared', clock, base), session' = session
  PROVE  BarFiles'
  <1>1. kv' = [m \in Lines |-> kv'[m]] /\ \A m \in Lines : kv'[m] = s \/ kv'[m] = kv[m]
    BY DEF Bar!Store
  <1> QED BY <1>1 DEF BarInv, BarFiles

LEMMA DueKeeps ==
  ASSUME BarConstants, BarInv, NEW l \in Lines, Bar!Due(l)
  PROVE  BarInv'
  <1> DEFINE f == [refresh[l] EXCEPT !.phase = "due"]
  <1>1. Refreshes(refresh[l], clock, base)
    BY DEF BarInv, BarRefreshes
  <1>2. Refreshes(f, clock, base)
    BY <1>1 DEF Refreshes
  <1>3. refresh' = [refresh EXCEPT ![l] = f]
    BY DEF Bar!Due
  <1> HIDE DEF f
  <1> QED BY <1>2, <1>3, WorldOfBar, OneRefresh, BarStays, BarStep DEF Bar!Due

LEMMA BeginKeeps ==
  ASSUME BarConstants, BarInv, NEW l \in Lines, Bar!Begin(l)
  PROVE  BarInv'
  <1> DEFINE b == Bar!Binding(l)
             newer == IF b = Bar!NoSnapshot THEN shared ELSE Bar!ReadSlot(b.print, b)
             print == IF b = Bar!NoSnapshot THEN Bar!Fingerprint(active) ELSE b.print
             mine == IF b = Bar!NoSnapshot THEN Bar!ReadShared(print) ELSE newer
             stored == IF kv[l].print = print THEN kv[l] ELSE Bar!NoSnapshot
             cached == IF mine.at >= stored.at THEN mine ELSE stored
             asking == [phase |-> "asked", print |-> print, at |-> clock, version |-> 0, cached |-> cached]
  <1>1. UNCHANGED <<clock, Bar!world>> /\ UNCHANGED <<shared, session, poll>>
    BY DEF Bar!Begin
  <1>2. Borne(shared, clock, base) /\ Borne(kv[l], clock, base) /\ active \in Accounts
        /\ clock \in 0 .. MaxClock /\ clock <= clock
    BY DEF BarInv, BarFiles, BarWorld, BarConstants
  <1>3. Borne(newer, clock, base) /\ print[1] \in Accounts
    BY <1>2, FoundIsBorne DEF Bar!Fingerprint
  <1>4. Borne(cached, clock, base)
    BY <1>2, <1>3, FoundIsBorne, NothingBorne
  <1>5. {m \in Lines : Bar!Shares(l, m) /\ refresh[m].print = print} = {}
    BY DEF Bar!Shares, BarConstants
  <1> HIDE DEF print, newer, cached, mine, stored
  <1>6. Refreshes(asking, clock, base)
    BY <1>2, <1>3, <1>4 DEF Refreshes
  <1>7. Refreshes(Bar!NoRefresh, clock, base)
    BY <1>2, NothingBorne DEF Refreshes, Bar!NoRefresh, BarConstants
  <1>8. \/ /\ Bar!Apply(l, Bar!Showing("missing", Bar!NoSnapshot, FALSE))
           /\ refresh' = [refresh EXCEPT ![l] = Bar!NoRefresh] /\ UNCHANGED kv
        \/ /\ Bar!Apply(l, Bar!Showing("ready", newer, FALSE))
           /\ refresh' = [refresh EXCEPT ![l] = Bar!NoRefresh] /\ Bar!Store(l, newer)
        \/ refresh' = [refresh EXCEPT ![l] = asking] /\ UNCHANGED <<line, current, kv>>
    BY <1>5 DEF Bar!Begin, print, newer, cached, mine, stored
  <1> HIDE DEF asking
  <1>9. BarRefreshes'
    BY <1>1, <1>6, <1>7, <1>8, OneRefresh, WorldOfBar
  <1>10. BarFiles'
    BY <1>1, <1>2, <1>3, <1>8, OneStore, WorldOfBar, BarStays
  <1>11. BarShows'
    <2>1. Displays(Bar!Showing("missing", Bar!NoSnapshot, FALSE), clock, base)
          /\ Displays(Bar!Showing("ready", newer, FALSE), clock, base)
      BY <1>3, NothingBorne DEF Displays, Bar!Showing
    <2> QED BY <1>1, <1>8, <2>1, OneLine, WorldOfBar, BarStays DEF Bar!Apply
  <1> QED BY <1>1, <1>9, <1>10, <1>11, WorldOfBar, BarStays, BarStep

LEMMA AloneJoined ==
  ASSUME BarConstants, NEW l \in Lines
  PROVE  Bar!Joined(l) = {l}
  BY DEF BarConstants, Bar!Joined

LEMMA BarServes ==
  ASSUME BarConstants, BarInv, NEW l \in Lines, Bar!Serve(l)
  PROVE  BarInv'
  <1> DEFINE a == refresh[l].print[1]
             f == [refresh[l] EXCEPT !.phase = "served", !.version = now[a]]
  <1>1. Refreshes(refresh[l], clock, base) /\ refresh[l].phase = "asked" /\ BarWorld
    BY DEF BarInv, BarRefreshes, Bar!Serve
  <1>2. a \in Accounts /\ refresh[l].at \in 0 .. MaxClock /\ refresh[l].at <= clock
    BY <1>1 DEF Refreshes
  <1>3. now[a] \in Nat /\ refresh[l].at \in 0 .. clock
    BY <1>1, <1>2 DEF BarWorld, BarConstants
  <1>4. base[a][refresh[l].at] <= now[a]
    BY <1>1, <1>2, <1>3 DEF BarWorld
  <1>5. base[a][refresh[l].at] \in Nat
    <2>1. base[a] \in [0 .. MaxClock -> Nat]
      BY <1>1, <1>2 DEF BarWorld
    <2> QED BY <1>2, <2>1
  <1>6. f \in [phase : {"served"}, print : {refresh[l].print}, at : {refresh[l].at}, version : {now[a]},
               cached : {refresh[l].cached}]
    BY <1>1 DEF Refreshes
  <1>7. refresh' = [m \in Lines |-> IF m = l THEN f ELSE refresh[m]]
    BY AloneJoined DEF Bar!Serve
  <1> HIDE DEF f
  <1>8. Refreshes(f, clock, base)
    BY <1>1, <1>2, <1>3, <1>4, <1>5, <1>6 DEF Refreshes
  <1>9. BarRefreshes'
    <2>1. refresh' = [refresh EXCEPT ![l] = f]
      BY <1>7 DEF BarInv, BarRefreshes
    <2> QED BY <1>8, <2>1, OneRefresh DEF Bar!Serve
  <1>10. UNCHANGED <<clock, now, base, pool, active, response, shared, session, kv, line, current, poll>>
    BY DEF Bar!Serve
  <1>11. BarWorld'
    BY <1>1, <1>10 DEF BarWorld
  <1> QED BY <1>9, <1>10, <1>11, BarStays, BarStep

LEMMA AnsweredKeeps ==
  ASSUME BarConstants, BarInv, NEW l \in Lines, Bar!Answered(l)
  PROVE  BarInv'
  <1> DEFINE f == refresh[l]
             s == Bar!Answer(f)
  <1>1. Refreshes(f, clock, base) /\ f.phase = "served" /\ clock \in 0 .. MaxClock
    BY DEF BarInv, BarRefreshes, BarWorld, Bar!Answered
  <1>2. s = [print |-> f.print, version |-> f.version, at |-> f.at, source |-> "usage"]
    BY DEF Bar!Answer, Bar!Stamped
  <1>3. Borne(s, clock, base)
    <2>1. f.print[1] \in Accounts /\ f.at \in 0 .. MaxClock /\ f.at <= clock /\ f.version \in Nat
          /\ f.version >= base[f.print[1]][f.at]
      BY <1>1 DEF Refreshes
    <2> HIDE DEF f, s
    <2> QED BY <1>2, <2>1 DEF Borne
  <1>4. \A m \in {l} : m = l
    OBVIOUS
  <1>5. (CHOOSE m \in {l} : \A n \in {l} : refresh[m].at <= refresh[n].at) = l
        /\ (CHOOSE m \in {l} : \A n \in {l} : refresh[n].at <= refresh[m].at) = l
    <2>1. f.at <= f.at
      BY <1>1 DEF Refreshes, BarConstants
    <2> QED BY <2>1
  <1>6. /\ line' = [m \in Lines |-> IF m = l THEN Bar!Showing("ready", Bar!Answer(refresh[m]), FALSE) ELSE line[m]]
        /\ shared' = s /\ Bar!Store(l, s)
        /\ refresh' = [m \in Lines |-> IF m = l THEN Bar!NoRefresh ELSE refresh[m]]
        /\ UNCHANGED <<clock, Bar!world, session, poll>>
    BY <1>5, AloneJoined DEF Bar!Answered
  <1> HIDE DEF s
  <1>7. refresh' = [refresh EXCEPT ![l] = Bar!NoRefresh]
    BY <1>6 DEF BarInv, BarRefreshes
  <1>8. line' = [line EXCEPT ![l] = Bar!Showing("ready", s, FALSE)]
    BY <1>6 DEF BarInv, BarShows, s
  <1>9. Refreshes(Bar!NoRefresh, clock, base) /\ Displays(Bar!Showing("ready", s, FALSE), clock, base)
    BY <1>1, <1>3, NothingBorne DEF Refreshes, Bar!NoRefresh, Displays, Bar!Showing, BarConstants
  <1> QED
    BY <1>3, <1>6, <1>7, <1>8, <1>9, WorldOfBar, OneRefresh, OneLine, OneStore, BarStays, BarStep

LEMMA FailedKeeps ==
  ASSUME BarConstants, BarInv, NEW l \in Lines, Bar!Failed(l)
  PROVE  BarInv'
  <1> DEFINE old(m) == refresh[m].cached
             shows(m) == IF old(m) = Bar!NoSnapshot THEN Bar!Showing("unavailable", Bar!NoSnapshot, FALSE)
                        ELSE Bar!Showing("ready", old(m), TRUE)
  <1>1. Refreshes(refresh[l], clock, base) /\ clock \in 0 .. MaxClock
    BY DEF BarInv, BarRefreshes, BarWorld
  <1>2. Displays(shows(l), clock, base)
    BY <1>1, NothingBorne DEF Refreshes, Displays, Bar!Showing
  <1>3. /\ line' = [m \in Lines |-> IF m = l THEN shows(m) ELSE line[m]]
        /\ refresh' = [m \in Lines |-> IF m = l THEN Bar!NoRefresh ELSE refresh[m]]
        /\ UNCHANGED <<clock, Bar!world, shared, session, kv, poll>>
    BY AloneJoined DEF Bar!Failed
  <1> HIDE DEF shows
  <1>4. refresh' = [refresh EXCEPT ![l] = Bar!NoRefresh] /\ line' = [line EXCEPT ![l] = shows(l)]
    BY <1>3 DEF BarInv, BarRefreshes, BarShows
  <1>5. Refreshes(Bar!NoRefresh, clock, base)
    BY <1>1, NothingBorne DEF Refreshes, Bar!NoRefresh, BarConstants
  <1> QED BY <1>2, <1>3, <1>4, <1>5, WorldOfBar, OneRefresh, OneLine, BarStays, BarStep

LEMMA PollTargetKeeps ==
  ASSUME BarConstants, BarInv, NEW l \in Lines, Bar!PollTarget(l)
  PROVE  BarInv'
  <1> DEFINE f == [refresh[l] EXCEPT !.phase = IF @ = "idle" THEN "due" ELSE @]
  <1>1. UNCHANGED <<clock, Bar!world, shared, session, kv>>
        /\ \/ UNCHANGED <<line, refresh, poll>>
           \/ Bar!Apply(l, Bar!Showing("missing", Bar!NoSnapshot, FALSE)) /\ UNCHANGED <<refresh, poll>>
           \/ /\ line' = [line EXCEPT ![l] = Bar!Showing("loading", Bar!NoSnapshot, FALSE)]
              /\ refresh' = [refresh EXCEPT ![l] = f] /\ UNCHANGED poll
           \/ poll' = [poll EXCEPT ![l] = Bar!Target(l)] /\ UNCHANGED <<line, refresh>>
    BY DEF Bar!PollTarget
  <1>2. Refreshes(refresh[l], clock, base)
    BY DEF BarInv, BarRefreshes
  <1>3. Refreshes(f, clock, base)
    BY <1>2 DEF Refreshes
  <1> HIDE DEF f
  <1>4. Displays(Bar!Showing("missing", Bar!NoSnapshot, FALSE), clock, base)
        /\ Displays(Bar!Showing("loading", Bar!NoSnapshot, FALSE), clock, base)
    BY NothingBorne DEF Displays, Bar!Showing
  <1>5. BarShows' /\ BarRefreshes'
    BY <1>1, <1>3, <1>4, OneLine, OneRefresh, BarStays, WorldOfBar DEF Bar!Apply
  <1>6. BarPolls'
    <2>1. CASE UNCHANGED poll BY <1>1, <2>1, BarStays, WorldOfBar
    <2>2. CASE poll' = [poll EXCEPT ![l] = Bar!Target(l)]
      <3>1. poll' = [m \in Lines |-> IF m = l THEN Bar!Target(l) ELSE poll[m]]
        BY <2>2 DEF BarInv, BarPolls
      <3> QED BY <1>1, <3>1, FoundIsBorne, WorldOfBar DEF BarInv, BarPolls
    <2> QED BY <1>1, <2>1, <2>2
  <1> QED BY <1>1, <1>5, <1>6, WorldOfBar, BarStays, BarStep

LEMMA PollShowKeeps ==
  ASSUME BarConstants, BarInv, NEW l \in Lines, Bar!PollShow(l)
  PROVE  BarInv'
  <1> DEFINE s == Bar!ReadSlot(poll[l].print, poll[l].session)
  <1>1. Borne(s, clock, base)
    BY FoundIsBorne DEF BarInv, BarPolls
  <1>2. Displays(Bar!Showing("ready", s, ~Bar!Fresh(s)), clock, base)
    BY <1>1 DEF Displays, Bar!Showing
  <1>3. UNCHANGED <<clock, Bar!world, shared, session, refresh>>
        /\ poll' = [poll EXCEPT ![l] = Bar!NoTarget]
        /\ \/ UNCHANGED <<line, kv>>
           \/ Bar!Apply(l, Bar!Showing("ready", s, ~Bar!Fresh(s))) /\ Bar!Store(l, s)
    BY DEF Bar!PollShow
  <1> HIDE DEF s
  <1>4. BarPolls'
    <2>1. poll' = [m \in Lines |-> IF m = l THEN Bar!NoTarget ELSE poll[m]]
      BY <1>3 DEF BarInv, BarPolls
    <2> QED BY <1>3, <2>1, NothingBorne, WorldOfBar DEF BarInv, BarPolls, Bar!NoTarget
  <1>5. Borne(shared', clock, base)
    BY <1>3 DEF BarInv, BarFiles
  <1>6. BarShows' /\ BarFiles'
    BY <1>1, <1>2, <1>3, <1>5, OneLine, OneStore, BarStays, WorldOfBar DEF Bar!Apply
  <1> QED BY <1>3, <1>4, <1>6, WorldOfBar, BarStays, BarStep

\* What everybody else does changes the provider's side, or a file.
LEMMA RespondKeeps ==
  ASSUME BarConstants, BarInv, NEW r \in Requests, Bar!Respond(r)
  PROVE  BarInv'
  <1>1. UNCHANGED <<clock, base, token, pool, active, shared, session, kv>> /\ UNCHANGED Bar!views /\ BarWorld
    BY DEF Bar!Respond, BarInv
  <1>2. PICK a \in pool : /\ now' = [now EXCEPT ![a] = @ + 1]
          /\ \E version \in {0, now[a] + 1} :
               response' = [response EXCEPT ![r] =
                 [Bar!NoSnapshot EXCEPT !.print = Bar!Fingerprint(a), !.version = version]]
    BY DEF Bar!Respond
  <1>3. PICK version \in {0, now[a] + 1} :
          response' = [response EXCEPT ![r] =
            [Bar!NoSnapshot EXCEPT !.print = Bar!Fingerprint(a), !.version = version]]
    BY <1>2
  <1> DEFINE s == [Bar!NoSnapshot EXCEPT !.print = Bar!Fingerprint(a), !.version = version]
  <1>4. a \in Accounts /\ now[a] \in Nat /\ now' \in [Accounts -> Nat \ {0}]
        /\ \A q \in Accounts : now'[q] = IF q = a THEN now[q] + 1 ELSE now[q]
    BY <1>1, <1>2 DEF BarWorld
  <1>5. \A q \in Accounts : \A t \in 0 .. clock : base[q][t] \in Nat /\ base[q][t] <= now'[q]
    <2> SUFFICES ASSUME NEW q \in Accounts, NEW t \in 0 .. clock
                 PROVE  base[q][t] \in Nat /\ base[q][t] <= now'[q]
      OBVIOUS
    <2>1. base[q][t] <= now[q] /\ now[q] \in Nat /\ t \in 0 .. MaxClock
      BY <1>1 DEF BarWorld, BarConstants
    <2>2. base[q][t] \in Nat
      <3>1. base[q] \in [0 .. MaxClock -> Nat]
        BY <1>1 DEF BarWorld
      <3> QED BY <2>1, <3>1
    <2> QED BY <1>4, <2>1, <2>2
  <1>6. Arriving(s, clock, base)
    <2>1. s \in [print : {Bar!Fingerprint(a)}, version : {version}, at : {-1}, source : {"none"}]
      BY DEF Bar!NoSnapshot
    <2>2. version \in Nat /\ Bar!Fingerprint(a)[1] = a
      BY <1>4 DEF Bar!Fingerprint
    <2>3. version > 0 => version >= base[a][clock]
      <3>1. clock \in 0 .. clock
        BY <1>1 DEF BarWorld, BarConstants
      <3>2. base[a][clock] \in Nat /\ base[a][clock] <= now[a]
        BY <1>1, <1>4, <1>5, <3>1 DEF BarWorld
      <3> QED BY <1>4, <3>2
    <2> HIDE DEF s
    <2> QED BY <1>4, <2>1, <2>2, <2>3 DEF Arriving
  <1>7. response' = [q \in Requests |-> IF q = r THEN s ELSE response[q]]
    BY <1>1, <1>3 DEF BarWorld
  <1> HIDE DEF s
  <1>8. BarWorld'
    BY <1>1, <1>4, <1>5, <1>6, <1>7 DEF BarWorld
  <1> QED BY <1>1, <1>8, BarStays, BarStep DEF Bar!views

LEMMA BarRecords ==
  ASSUME BarConstants, BarInv, NEW r \in Requests, Bar!Record(r)
  PROVE  BarInv'
  <1> DEFINE s == Bar!Parsed(r)
  <1>1. UNCHANGED <<clock, now, base, token, pool, kv>> /\ UNCHANGED Bar!views /\ BarWorld /\ BarFiles
        /\ response[r] # Bar!NoSnapshot /\ session' \in Bar!Filed(s)
        /\ shared' = (IF s.version = 0 THEN shared ELSE s)
        /\ active' \in {active} \cup ({s.print[1]} \cap pool)
        /\ response' = [response EXCEPT ![r] = Bar!NoSnapshot]
    BY DEF Bar!Record, BarInv
  <1>2. Borne(s, clock, base)
    <2>1. Arriving(response[r], clock, base)
      BY <1>1 DEF BarWorld
    <2>2. /\ response[r] \in [print : {response[r].print}, version : Nat, at : {-1}, source : {"none"}]
          /\ response[r].print[1] \in Accounts
          /\ response[r].version > 0 => response[r].version >= base[response[r].print[1]][clock]
      BY <1>1, <2>1 DEF Arriving
    <2>3. /\ s \in [print : {response[r].print}, version : {response[r].version}, at : {clock},
                     source : {"headers"}]
      BY <2>2 DEF Bar!Parsed
    <2>4. clock \in 0 .. MaxClock /\ clock <= clock
      BY <1>1 DEF BarWorld, BarConstants
    <2> HIDE DEF s
    <2> QED BY <2>2, <2>3, <2>4 DEF Borne
  <1> HIDE DEF s
  <1>3. session' = [l \in Sessions |-> session'[l]] /\ \A l \in Sessions : session'[l] \in {s, session[l]}
    BY <1>1 DEF Bar!Filed, BarFiles
  <1>4. BarFiles'
    BY <1>1, <1>2, <1>3 DEF BarFiles
  <1>5. response' = [q \in Requests |-> IF q = r THEN Bar!NoSnapshot ELSE response[q]]
    BY <1>1 DEF BarWorld
  <1>6. active' \in Accounts
    BY <1>1 DEF BarWorld
  <1>7. \A q \in Requests : Arriving(response'[q], clock, base)
    BY <1>1, <1>5 DEF BarWorld, Arriving
  <1>8. BarWorld'
    BY <1>1, <1>5, <1>6, <1>7 DEF BarWorld
  <1> QED BY <1>1, <1>4, <1>8, BarStays, BarStep DEF Bar!views

LEMMA OthersKeep ==
  ASSUME BarConstants, BarInv, Bar!Switch \/ Bar!Lapse \/ Bar!Rotate \/ Bar!Remove
  PROVE  BarInv'
  <1>0. BarWorld /\ BarFiles
    BY DEF BarInv
  <1>1. CASE Bar!Switch
    <2>1. UNCHANGED <<clock, now, base, token, pool, response, session, kv>> /\ UNCHANGED Bar!views
          /\ active' \in pool /\ shared' = Bar!NoSnapshot
      BY <1>1 DEF Bar!Switch
    <2>2. BarWorld'
      BY <1>0, <2>1 DEF BarWorld
    <2>3. BarFiles'
      BY <1>0, <2>1, NothingBorne DEF BarFiles
    <2> QED BY <2>1, <2>2, <2>3, BarStays, BarStep DEF Bar!views
  <1>2. CASE Bar!Lapse
    <2>1. UNCHANGED <<clock, base, token, pool, active, response, shared, session, kv>> /\ UNCHANGED Bar!views
          /\ \E a \in Accounts : now' = [now EXCEPT ![a] = @ + 1]
      BY <1>2 DEF Bar!Lapse
    <2>2. PICK a \in Accounts : now' = [now EXCEPT ![a] = @ + 1]
      BY <2>1
    <2>3. now' \in [Accounts -> Nat \ {0}] /\ \A q \in Accounts : now'[q] = IF q = a THEN now[q] + 1 ELSE now[q]
      BY <1>0, <2>2 DEF BarWorld
    <2>4. \A q \in Accounts : \A t \in 0 .. clock : base[q][t] <= now'[q]
      <3> SUFFICES ASSUME NEW q \in Accounts, NEW t \in 0 .. clock
                   PROVE  base[q][t] <= now'[q]
        OBVIOUS
      <3>1. base[q][t] <= now[q] /\ now[q] \in Nat /\ t \in 0 .. MaxClock
        BY <1>0 DEF BarWorld, BarConstants
      <3>2. base[q][t] \in Nat
        <4>1. base[q] \in [0 .. MaxClock -> Nat]
          BY <1>0 DEF BarWorld
        <4> QED BY <3>1, <4>1
      <3> QED BY <2>3, <3>1, <3>2
    <2>5. BarWorld'
      BY <1>0, <2>1, <2>3, <2>4 DEF BarWorld
    <2> QED BY <2>1, <2>5, BarStays, BarStep DEF Bar!views
  <1>3. CASE Bar!Rotate
    <2>1. UNCHANGED <<clock, now, base, pool, active, response, shared, session, kv>> /\ UNCHANGED Bar!views
      BY <1>3 DEF Bar!Rotate
    <2>2. BarWorld'
      BY <1>0, <2>1 DEF BarWorld
    <2> QED BY <2>1, <2>2, BarStays, BarStep DEF Bar!views
  <1>4. CASE Bar!Remove
    <2>1. UNCHANGED <<clock, now, base, token, response, shared, session, kv>> /\ UNCHANGED Bar!views
          /\ pool' \subseteq pool /\ active' \in {active} \cup pool
      BY <1>4 DEF Bar!Remove
    <2>2. BarWorld'
      BY <1>0, <2>1 DEF BarWorld
    <2> QED BY <2>1, <2>2, BarStays, BarStep DEF Bar!views
  <1> QED BY <1>1, <1>2, <1>3, <1>4

\* The history grows by what is true as the next tick begins.
LEMMA BorneLater ==
  ASSUME BarConstants, NEW s, NEW time \in 0 .. MaxClock, NEW later \in 0 .. MaxClock, time <= later,
         NEW b, NEW c, \A a \in Accounts : \A t \in 0 .. time : c[a][t] = b[a][t], Borne(s, time, b)
  PROVE  Borne(s, later, c)
  <1>1. CASE s = Bar!NoSnapshot BY <1>1, NothingBorne
  <1>2. CASE s # Bar!NoSnapshot
    <2>1. /\ s \in [print : {s.print}, version : Nat, at : 0 .. MaxClock, source : {s.source}]
          /\ s.print[1] \in Accounts /\ s.at <= time
          /\ s.version > 0 => s.version >= b[s.print[1]][s.at]
      BY <1>2 DEF Borne
    <2>2. s.at \in 0 .. time /\ s.at <= later
      BY <2>1 DEF BarConstants
    <2>3. c[s.print[1]][s.at] = b[s.print[1]][s.at]
      BY <2>1, <2>2
    <2> QED BY <2>1, <2>2, <2>3 DEF Borne
  <1> QED BY <1>1, <1>2

LEMMA BarTick ==
  ASSUME BarConstants, BarInv, Bar!Tick
  PROVE  BarInv'
  <1>1. /\ clock < MaxClock /\ clock' = clock + 1 /\ \A r \in Requests : response[r] = Bar!NoSnapshot
        /\ base' = [a \in Accounts |-> [base[a] EXCEPT ![clock + 1] = now[a]]]
        /\ UNCHANGED <<now, token, pool, active, response, shared, session, kv>> /\ UNCHANGED Bar!views
    BY DEF Bar!Tick, BarConstants
  <1>2. BarWorld
    BY DEF BarInv
  <1>3. clock \in 0 .. MaxClock /\ clock' \in 0 .. MaxClock /\ clock <= clock' /\ clock \in Nat
    BY <1>1, <1>2 DEF BarWorld, BarConstants
  <1>4. \A a \in Accounts : /\ base'[a] \in [0 .. MaxClock -> Nat] /\ base'[a][clock'] = now[a]
                          /\ \A t \in 0 .. clock : base'[a][t] = base[a][t]
    <2> SUFFICES ASSUME NEW a \in Accounts
                 PROVE  /\ base'[a] \in [0 .. MaxClock -> Nat] /\ base'[a][clock'] = now[a]
                        /\ \A t \in 0 .. clock : base'[a][t] = base[a][t]
      OBVIOUS
    <2>1. base[a] \in [0 .. MaxClock -> Nat] /\ now[a] \in Nat
      BY <1>2 DEF BarWorld
    <2>2. base'[a] = [base[a] EXCEPT ![clock + 1] = now[a]]
      BY <1>1
    <2>3. \A t \in 0 .. clock : t \in 0 .. MaxClock /\ t # clock + 1
      BY <1>3 DEF BarConstants
    <2> QED BY <1>1, <1>3, <2>1, <2>2, <2>3
  <1>5. base' = [a \in Accounts |-> base'[a]]
    BY <1>1
  <1>6. base' \in [Accounts -> [0 .. MaxClock -> Nat]]
    BY <1>4, <1>5
  <1>7. \A a \in Accounts : \A t \in 0 .. clock' : base'[a][t] <= now[a]
    <2> SUFFICES ASSUME NEW a \in Accounts, NEW t \in 0 .. clock'
                 PROVE  base'[a][t] <= now[a]
      OBVIOUS
    <2>1. CASE t = clock'
      <3>1. now[a] \in Nat
        BY <1>2 DEF BarWorld
      <3> QED BY <1>4, <2>1, <3>1
    <2>2. CASE t # clock'
      <3>1. t \in 0 .. clock
        BY <1>1, <1>3, <2>2
      <3> QED BY <1>2, <1>4, <3>1 DEF BarWorld
    <2> QED BY <2>1, <2>2
  <1>8. BarWorld'
    BY <1>1, <1>2, <1>3, <1>6, <1>7 DEF BarWorld, Arriving
  <1>9. \A s : Borne(s, clock, base) => Borne(s, clock', base')
    BY <1>3, <1>4, BorneLater
  <1>10. BarFiles'
    BY <1>1, <1>9 DEF BarInv, BarFiles
  <1>11. ASSUME NEW l \in Lines
         PROVE  Refreshes(refresh[l], clock', base')
    <2>1. Refreshes(refresh[l], clock, base)
      BY DEF BarInv, BarRefreshes
    <2>2. refresh[l].at \in 0 .. clock /\ refresh[l].at <= clock'
      BY <1>1, <1>3, <2>1 DEF Refreshes, BarConstants
    <2> QED BY <1>4, <1>9, <2>1, <2>2 DEF Refreshes
  <1>12. BarRefreshes' /\ BarPolls' /\ BarShows'
    BY <1>1, <1>9, <1>11 DEF BarInv, BarRefreshes, BarPolls, BarShows, Displays, Bar!views
  <1> QED BY <1>8, <1>10, <1>12 DEF BarInv

LEMMA BarNext ==
  ASSUME BarConstants, BarInv, [Bar!Next]_Bar!vars
  PROVE  BarInv'
  <1>1. CASE UNCHANGED Bar!vars
    <2>1. UNCHANGED <<clock, base, Bar!world, shared, session, kv, line, refresh, poll>>
      BY <1>1 DEF Bar!vars, Bar!world
    <2> QED BY <2>1, WorldOfBar, BarStays, BarStep
  <1>2. CASE \E l \in Lines : Bar!Due(l) \/ Bar!Begin(l) \/ Bar!Serve(l) \/ Bar!Answered(l) \/ Bar!Failed(l)
                             \/ Bar!PollTarget(l) \/ Bar!PollShow(l)
    BY <1>2, DueKeeps, BeginKeeps, BarServes, AnsweredKeeps, FailedKeeps, PollTargetKeeps, PollShowKeeps
  <1>3. CASE \E r \in Requests : Bar!Respond(r) \/ Bar!Record(r)
    BY <1>3, RespondKeeps, BarRecords
  <1>4. CASE Bar!Switch \/ Bar!Lapse \/ Bar!Rotate \/ Bar!Remove \/ Bar!Tick
    BY <1>4, OthersKeep, BarTick
  <1> QED BY <1>1, <1>2, <1>3, <1>4 DEF Bar!Next

LEMMA BarImplies ==
  ASSUME BarConstants, BarInv
  PROVE  Bar!TypeOK /\ Bar!HonestStamps
  <1>1. \A s \in Bar!Snapshots : Borne(s, clock, base)
    BY DEF BarInv, BarFiles, BarShows, Displays, Bar!Snapshots
  <1>2. Bar!HonestStamps
    BY <1>1 DEF Bar!HonestStamps, Borne, Bar!NoSnapshot
  <1>3. Bar!TypeOK
    BY <1>1 DEF Bar!TypeOK, Borne, BarInv, BarWorld, BarShows, Displays, BarRefreshes, Refreshes
  <1> QED BY <1>2, <1>3

\* A snapshot never claims to be newer than what it says of its account, in the files, the
\* caches and on the lines (tui.ts, tui-quota-cache.ts), so that the later stamp is the
\* newer reading: for any accounts, sessions and requests, and lines of separate terminals.
THEOREM StampsStayHonest ==
  ASSUME BarConstants
  PROVE  Bar!Spec => [](Bar!TypeOK /\ Bar!HonestStamps)
  <1>1. Bar!Init => BarInv
    BY BarInit
  <1>2. BarInv /\ [Bar!Next]_Bar!vars => BarInv'
    BY BarNext
  <1>3. BarInv => Bar!TypeOK /\ Bar!HonestStamps
    BY BarImplies
  <1> QED BY <1>1, <1>2, <1>3, PTL DEF Bar!Spec

(***************************************************************************)
(* What is read of an answer: the verdict is that of the text that         *)
(* arrived, however it was cut into chunks.                                *)
(***************************************************************************)
CONSTANTS Bodies, Logging, Limit, Keep, Stall, Total, Status

VARIABLES task, status, body, sent, reader, stallAt, dueAt, source, verdict

Stream == INSTANCE Responses

AnswerConstants ==
  /\ Bodies \subseteq Seq(Stream!Lines) /\ Status \subseteq Nat
  /\ Logging \in BOOLEAN /\ Limit \in Nat /\ Keep \in Nat /\ Total \in Nat

Atoms == Stream!Lines \union {"end", Stream!Newline}
Texts == Seq(Atoms)

LEMMA LeastOf ==
  ASSUME NEW S, S \subseteq Nat, S # {}
  PROVE  Stream!Min(S) \in S /\ \A y \in S : Stream!Min(S) <= y
  <1>1. \E x \in S : \A y \in S : x <= y
    BY Smallest
  <1> QED BY <1>1, Zenon DEF Stream!Min

LEMMA LeastIs ==
  ASSUME NEW S, S \subseteq Nat, NEW x \in S, \A y \in S : x <= y
  PROVE  Stream!Min(S) = x
  <1>1. Stream!Min(S) \in S /\ Stream!Min(S) <= x
    BY LeastOf
  <1>2. x <= Stream!Min(S) /\ Stream!Min(S) \in Nat /\ x \in Nat
    BY <1>1
  <1> QED BY <1>1, <1>2

LEMMA GreatestOf ==
  ASSUME NEW S, S \subseteq Nat, S # {}, NEW n \in Nat, \A x \in S : x <= n
  PROVE  Stream!Max(S) \in S /\ \A y \in S : Stream!Max(S) >= y
  <1> DEFINE Rest == {n - x : x \in S}
  <1>1. Rest \subseteq Nat /\ Rest # {}
    <2>1. \A x \in S : x \in Nat /\ n - x \in Nat
      OBVIOUS
    <2> QED BY <2>1
  <1>2. PICK r \in Rest : \A y \in Rest : r <= y
    BY <1>1, Smallest
  <1>3. PICK x \in S : r = n - x
    BY <1>2
  <1>4. \A y \in S : x >= y
    <2> SUFFICES ASSUME NEW y \in S  PROVE x >= y
      OBVIOUS
    <2>1. n - y \in Rest
      OBVIOUS
    <2>2. n - x <= n - y
      BY <1>2, <1>3, <2>1
    <2> QED BY <2>2
  <1> QED BY <1>3, <1>4, Zenon DEF Stream!Max

-----------------------------------------------------------------------------
(* The lines of a text, and of the text that is one atom longer.           *)

Starts(s, text, i) ==
  /\ s \in 1 .. i /\ (s = 1 \/ s - 1 \in Stream!Breaks(text))
  /\ \A b \in Stream!Breaks(text) : b < i => b < s

LEMMA LineStartIs ==
  ASSUME NEW text \in Texts, NEW i \in 1 .. (Len(text) + 1)
  PROVE  Starts(Stream!LineStart(text, i), text, i)
  <1> DEFINE S == {b \in Stream!Breaks(text) \union {0} : b < i}
  <1>1. S \subseteq Nat /\ S # {} /\ i \in Nat /\ \A x \in S : x <= i
    <2>1. Len(text) \in Nat
      BY DEF Texts
    <2>2. S \subseteq Nat /\ i \in Nat /\ \A x \in S : x <= i
      BY <2>1 DEF Stream!Breaks
    <2>3. 0 \in S
      BY <2>1
    <2> QED BY <2>2, <2>3
  <1>2. Stream!Max(S) \in S /\ \A y \in S : Stream!Max(S) >= y
    <2> HIDE DEF S
    <2> QED BY <1>1, GreatestOf
  <1>3. Stream!LineStart(text, i) = Stream!Max(S) + 1
    BY DEF Stream!LineStart
  <1>4. Stream!Max(S) \in 0 .. (i - 1)
    BY <1>1, <1>2
  <1>5. \A b \in Stream!Breaks(text) : b < i => b \in S /\ b \in Nat
    BY <1>1
  <1>6. Stream!Max(S) = 0 \/ Stream!Max(S) \in Stream!Breaks(text)
    BY <1>2
  <1> HIDE DEF S
  <1>7. \A b \in Stream!Breaks(text) : b < i => b < Stream!Max(S) + 1
    BY <1>2, <1>4, <1>5
  <1> QED BY <1>3, <1>4, <1>6, <1>7 DEF Starts

LEMMA StartIsOne ==
  ASSUME NEW text \in Texts, NEW i \in 1 .. (Len(text) + 1),
         NEW s, NEW z, Starts(s, text, i), Starts(z, text, i)
  PROVE  s = z
  BY DEF Starts, Stream!Breaks

LEMMA BreaksGrow ==
  ASSUME NEW text \in Texts, NEW a \in Atoms
  PROVE  /\ Append(text, a) \in Texts /\ Len(Append(text, a)) = Len(text) + 1
         /\ \A i \in 1 .. Len(text) : i \in Stream!Breaks(Append(text, a)) <=> i \in Stream!Breaks(text)
         /\ Len(text) + 1 \in Stream!Breaks(Append(text, a)) <=> a = Stream!Newline
         /\ Stream!Breaks(text) \subseteq 1 .. Len(text)
         /\ Stream!Breaks(Append(text, a)) \subseteq 1 .. (Len(text) + 1)
  BY DEF Stream!Breaks, Texts

LEMMA SaysTheSame ==
  ASSUME NEW text \in Texts, NEW a \in Atoms, NEW i \in 1 .. (Len(text) + 1)
  PROVE  Stream!Says(Append(text, a), i) = Stream!Says(text, i)
  <1> DEFINE s == Stream!LineStart(text, i)
             longer == Append(text, a)
  <1>1. Starts(s, text, i)
    BY LineStartIs
  <1>2. longer \in Texts /\ i \in 1 .. (Len(longer) + 1)
    BY BreaksGrow
  <1>3. Starts(s, longer, i)
    <2> HIDE DEF s
    <2> QED BY <1>1, BreaksGrow DEF Starts
  <1>4. Starts(Stream!LineStart(longer, i), longer, i)
    BY <1>2, LineStartIs
  <1>5. Stream!LineStart(longer, i) = s
    <2> HIDE DEF s, longer
    <2> QED BY <1>2, <1>3, <1>4, StartIsOne
  <1>6. SubSeq(longer, s, i - 1) = SubSeq(text, s, i - 1)
    <2>1. s \in 1 .. i
      BY <1>1 DEF Starts
    <2> HIDE DEF s
    <2> QED BY <2>1 DEF Texts
  <1> QED BY <1>5, <1>6 DEF Stream!Says

\* The line that has not ended.
Rest(text) == SubSeq(text, Stream!LineStart(text, Len(text) + 1), Len(text))

LEMMA RestGrows ==
  ASSUME NEW text \in Texts, NEW a \in Atoms
  PROVE  /\ Rest(Append(text, a)) = IF a = Stream!Newline THEN <<>> ELSE Append(Rest(text), a)
         /\ Stream!Says(text, Len(text) + 1) = Stream!ReadsAs(Rest(text))
         /\ Rest(text) \in Texts
  <1> DEFINE longer == Append(text, a)
             s == Stream!LineStart(text, Len(text) + 1)
             z == Stream!LineStart(longer, Len(longer) + 1)
  <1>1. longer \in Texts /\ Len(longer) = Len(text) + 1 /\ Len(text) \in Nat
    BY BreaksGrow DEF Texts
  <1>2. Starts(s, text, Len(text) + 1) /\ Starts(z, longer, Len(longer) + 1)
    <2>1. Starts(s, text, Len(text) + 1)
      BY <1>1, LineStartIs
    <2>2. Len(longer) + 1 \in 1 .. (Len(longer) + 1)
      BY <1>1
    <2>3. Starts(z, longer, Len(longer) + 1)
      <3> HIDE DEF longer
      <3> QED BY <1>1, <2>2, LineStartIs
    <2> QED BY <2>1, <2>3
  <1>3. ASSUME a = Stream!Newline  PROVE Rest(longer) = <<>>
    <2>1. Starts(Len(text) + 2, longer, Len(longer) + 1)
      BY <1>1, <1>3, BreaksGrow DEF Starts
    <2>2. z = Len(text) + 2
      <3> HIDE DEF z, longer
      <3> QED BY <1>1, <1>2, <2>1, StartIsOne
    <2>3. SubSeq(longer, Len(text) + 2, Len(longer)) = <<>>
      BY <1>1
    <2> QED BY <2>2, <2>3 DEF Rest
  <1>4. ASSUME a # Stream!Newline  PROVE Rest(longer) = Append(Rest(text), a)
    <2>1. Starts(s, longer, Len(longer) + 1)
      <3>1. \A b \in Stream!Breaks(longer) : b \in Stream!Breaks(text) /\ b < Len(text) + 1
        <4>1. \A b \in 1 .. (Len(text) + 1) : b \in 1 .. Len(text) \/ b = Len(text) + 1
          BY <1>1
        <4> QED BY <1>1, <1>4, <4>1, BreaksGrow
      <3>2. \A b \in Stream!Breaks(text) : b \in Stream!Breaks(longer)
        BY BreaksGrow
      <3>3. s \in 1 .. (Len(longer) + 1)
        BY <1>1, <1>2 DEF Starts
      <3> HIDE DEF s, longer
      <3> QED BY <1>2, <3>1, <3>2, <3>3 DEF Starts
    <2>2. z = s
      <3> HIDE DEF z, s, longer
      <3> QED BY <1>1, <1>2, <2>1, StartIsOne
    <2>3. s \in 1 .. (Len(text) + 1)
      BY <1>2 DEF Starts
    <2>4. SubSeq(longer, s, Len(longer)) = Append(SubSeq(text, s, Len(text)), a)
      <3> HIDE DEF s
      <3> QED BY <2>3 DEF Texts
    <2> QED BY <2>2, <2>4 DEF Rest
  <1>5. Stream!Says(text, Len(text) + 1) = Stream!ReadsAs(Rest(text))
    BY <1>1 DEF Stream!Says, Rest
  <1>6. Rest(text) \in Texts
    <2>1. s \in 1 .. (Len(text) + 1)
      BY <1>2 DEF Starts
    <2> HIDE DEF s
    <2>2. SubSeq(text, s, Len(text)) \in Texts
      BY <2>1 DEF Texts
    <2> QED BY <2>2 DEF Rest, s
  <1> QED BY <1>3, <1>4, <1>5, <1>6


-----------------------------------------------------------------------------
(* The events of a text: the blank lines that ended, and the data since.   *)

Blanks(text) == {e \in Stream!Breaks(text) : Stream!Says(text, e) = "blank"}

\* The data lines that ended and that no blank line followed.
Gathered(text) ==
  {i \in Stream!Breaks(text) : /\ Stream!Says(text, i) \in Stream!Data
                               /\ \A d \in Blanks(text) : d < i}

\* What the data lines in a set tell.
Telling(text, data) ==
  LET alone == {i \in data : Stream!Says(text, i) \in {"ok", "err"}}
  IN IF alone # {} THEN IF Stream!Says(text, Stream!Min(alone)) = "ok" THEN "response" ELSE "error"
     ELSE IF \E i, j \in data : /\ i < j /\ data = {i, j}
                                /\ Stream!Says(text, i) = "open" /\ Stream!Says(text, j) = "rest"
     THEN "response" ELSE Stream!NoResult

LEMMA ToldIs ==
  ASSUME NEW text, NEW e
  PROVE  Stream!Told(text, e) = Telling(text, Stream!EventData(text, e))
  BY DEF Stream!Told, Telling

LEMMA EndsOf ==
  ASSUME NEW text \in Texts
  PROVE  /\ Len(text) \in Nat /\ Len(text) + 1 \in Stream!EventEnds(text)
         /\ Len(text) + 1 \in Stream!LineEnds(text) /\ Stream!LineEnds(text) \subseteq 1 .. (Len(text) + 1)
         /\ Stream!EventEnds(text) \subseteq 1 .. (Len(text) + 1) /\ Blanks(text) \subseteq 1 .. Len(text)
         /\ \A d \in Stream!EventEnds(text) : d \in Blanks(text) \/ d = Len(text) + 1
         /\ Blanks(text) \subseteq Stream!EventEnds(text)
         /\ \A i \in Stream!LineEnds(text) : i \in Stream!Breaks(text) \/ i = Len(text) + 1
         /\ Stream!Breaks(text) \subseteq Stream!LineEnds(text)
         /\ Stream!Breaks(text) \subseteq 1 .. Len(text)
  BY DEF Texts, Stream!LineEnds, Stream!EventEnds, Blanks, Stream!Breaks

\* The event a text ends with.
LEMMA LastEvent ==
  ASSUME NEW text \in Texts
  PROVE  /\ Gathered(text) \subseteq 1 .. Len(text)
         /\ Stream!EventData(text, Len(text) + 1) =
              Gathered(text) \union {i \in {Len(text) + 1} : Stream!Says(text, i) \in Stream!Data}
  <1> DEFINE final == Len(text) + 1
  <1>1. Gathered(text) \subseteq 1 .. Len(text)
    BY EndsOf DEF Gathered
  <1>2. ASSUME NEW i \in Stream!EventData(text, final)
        PROVE  i \in Gathered(text) \/ (i = final /\ Stream!Says(text, i) \in Stream!Data)
    <2>1. i \in Stream!LineEnds(text) /\ Stream!Says(text, i) \in Stream!Data
          /\ ~\E d \in Stream!EventEnds(text) : i <= d /\ d < final
      BY <1>2 DEF Stream!EventData
    <2>2. CASE i \in Stream!Breaks(text)
      <3>1. \A d \in Blanks(text) : d < i
        BY <2>1, <2>2, EndsOf
      <3> QED BY <2>1, <2>2, <3>1 DEF Gathered
    <2> QED BY <2>1, <2>2, EndsOf
  <1>3. ASSUME NEW i \in Gathered(text)  PROVE i \in Stream!EventData(text, final)
    <2>1. i \in Stream!Breaks(text) /\ Stream!Says(text, i) \in Stream!Data
          /\ \A d \in Blanks(text) : d < i
      BY DEF Gathered
    <2>2. ~\E d \in Stream!EventEnds(text) : i <= d /\ d < final
      BY <2>1, EndsOf
    <2>3. i \in Stream!LineEnds(text) /\ i <= final
      BY <2>1, EndsOf
    <2> QED BY <2>1, <2>2, <2>3 DEF Stream!EventData
  <1>4. Stream!Says(text, final) \in Stream!Data => final \in Stream!EventData(text, final)
    <2>1. final \in Stream!LineEnds(text) /\ final <= final
      BY EndsOf
    <2>2. ~\E d \in Stream!EventEnds(text) : final <= d /\ d < final
      BY EndsOf
    <2> QED BY <2>1, <2>2 DEF Stream!EventData
  <1> HIDE DEF final
  <1>5. Stream!EventData(text, final) = Gathered(text) \union {i \in {final} : Stream!Says(text, i) \in Stream!Data}
    BY <1>2, <1>3, <1>4
  <1> QED BY <1>1, <1>5 DEF final

\* An event that ended says what it said when it ended.
LEMMA EventStays ==
  ASSUME NEW text \in Texts, NEW a \in Atoms,
         NEW e \in Stream!LineEnds(text), e \in Stream!Breaks(Append(text, a))
  PROVE  Stream!EventData(Append(text, a), e) = Stream!EventData(text, e)
  <1> DEFINE longer == Append(text, a)
  <1>1. longer \in Texts /\ Len(longer) = Len(text) + 1 /\ Len(text) \in Nat
    BY BreaksGrow DEF Texts
  <1>2. \A i \in 1 .. (Len(text) + 1) : Stream!Says(longer, i) = Stream!Says(text, i)
    BY SaysTheSame
  <1>3. e \in 1 .. (Len(text) + 1)
    BY EndsOf
  <1>4. ASSUME NEW i, i <= e, i \in Stream!LineEnds(text) \/ i \in Stream!LineEnds(longer)
        PROVE  i \in Stream!LineEnds(text) /\ i \in Stream!LineEnds(longer) /\ i \in 1 .. (Len(text) + 1)
    <2>1. i \in 1 .. (Len(text) + 1)
      <3>1. i \in 1 .. (Len(longer) + 1)
        BY <1>1, <1>4, EndsOf
      <3> QED BY <1>1, <1>3, <1>4, <3>1
    <2>2. CASE i = Len(text) + 1
      <3>1. i = e
        BY <1>1, <1>3, <1>4, <2>2
      <3> QED BY <1>1, <2>1, <3>1, EndsOf
    <2>3. CASE i \in 1 .. Len(text)
      <3>1. i # Len(text) + 1 /\ i # Len(longer) + 1
        BY <1>1, <2>3
      <3>2. i \in Stream!Breaks(text) <=> i \in Stream!Breaks(longer)
        BY <2>3, BreaksGrow
      <3> HIDE DEF longer
      <3> QED BY <1>1, <1>4, <2>1, <3>1, <3>2, EndsOf
    <2> QED BY <1>1, <2>1, <2>2, <2>3
  <1>5. ASSUME NEW d, d < e, d \in Stream!EventEnds(text) \/ d \in Stream!EventEnds(longer)
        PROVE  d \in Stream!EventEnds(text) /\ d \in Stream!EventEnds(longer)
    <2>1. d \in 1 .. Len(text) /\ d # Len(text) + 1 /\ d # Len(longer) + 1
      <3>1. d \in 1 .. (Len(longer) + 1)
        BY <1>1, <1>5, EndsOf
      <3> QED BY <1>1, <1>3, <1>5, <3>1
    <2>2. d \in Stream!Breaks(text) <=> d \in Stream!Breaks(longer)
      BY <2>1, BreaksGrow
    <2>3. Stream!Says(longer, d) = Stream!Says(text, d)
      BY <1>2, <2>1
    <2> HIDE DEF longer
    <2> QED BY <1>5, <2>1, <2>2, <2>3 DEF Stream!EventEnds, Stream!LineEnds
  <1> HIDE DEF longer
  <1>6. Stream!EventData(longer, e) \subseteq Stream!EventData(text, e)
    <2> SUFFICES ASSUME NEW i \in Stream!EventData(longer, e)  PROVE i \in Stream!EventData(text, e)
      OBVIOUS
    <2>1. i \in Stream!LineEnds(longer) /\ i <= e /\ Stream!Says(longer, i) \in Stream!Data
          /\ ~\E d \in Stream!EventEnds(longer) : i <= d /\ d < e
      BY DEF Stream!EventData
    <2>2. i \in Stream!LineEnds(text) /\ Stream!Says(text, i) \in Stream!Data
      BY <1>2, <1>4, <2>1
    <2>3. ~\E d \in Stream!EventEnds(text) : i <= d /\ d < e
      BY <1>5, <2>1
    <2> QED BY <2>1, <2>2, <2>3 DEF Stream!EventData
  <1>7. Stream!EventData(text, e) \subseteq Stream!EventData(longer, e)
    <2> SUFFICES ASSUME NEW i \in Stream!EventData(text, e)  PROVE i \in Stream!EventData(longer, e)
      OBVIOUS
    <2>1. i \in Stream!LineEnds(text) /\ i <= e /\ Stream!Says(text, i) \in Stream!Data
          /\ ~\E d \in Stream!EventEnds(text) : i <= d /\ d < e
      BY DEF Stream!EventData
    <2>2. i \in Stream!LineEnds(longer) /\ Stream!Says(longer, i) \in Stream!Data
      BY <1>2, <1>4, <2>1
    <2>3. ~\E d \in Stream!EventEnds(longer) : i <= d /\ d < e
      BY <1>5, <2>1
    <2> QED BY <2>1, <2>2, <2>3 DEF Stream!EventData
  <1> QED BY <1>6, <1>7 DEF longer

LEMMA TellingTheSame ==
  ASSUME NEW text \in Texts, NEW a \in Atoms, NEW data, data \subseteq 1 .. (Len(text) + 1)
  PROVE  Telling(Append(text, a), data) = Telling(text, data)
  <1>1. \A i \in data : Stream!Says(Append(text, a), i) = Stream!Says(text, i)
    BY SaysTheSame
  <1> DEFINE alone(t) == {i \in data : Stream!Says(t, i) \in {"ok", "err"}}
  <1>2. alone(Append(text, a)) = alone(text)
    BY <1>1
  <1>3. alone(text) # {} => Stream!Min(alone(text)) \in data
    <2>1. alone(text) \subseteq data
      OBVIOUS
    <2>2. data \subseteq Nat
      BY EndsOf
    <2> HIDE DEF alone
    <2> QED BY <2>1, <2>2, LeastOf
  <1>4. alone(text) # {} => (Stream!Says(Append(text, a), Stream!Min(alone(text))) =
                              Stream!Says(text, Stream!Min(alone(text))))
    BY <1>1, <1>3
  <1>5. ASSUME NEW t
        PROVE  Telling(t, data) =
                 IF alone(t) # {} THEN IF Stream!Says(t, Stream!Min(alone(t))) = "ok" THEN "response" ELSE "error"
                 ELSE IF \E i, j \in data : /\ i < j /\ data = {i, j}
                                            /\ Stream!Says(t, i) = "open" /\ Stream!Says(t, j) = "rest"
                 THEN "response" ELSE Stream!NoResult
    BY DEF Telling
  <1>6. (\E i, j \in data : /\ i < j /\ data = {i, j}
                            /\ Stream!Says(Append(text, a), i) = "open" /\ Stream!Says(Append(text, a), j) = "rest")
        <=> (\E i, j \in data : /\ i < j /\ data = {i, j}
                                /\ Stream!Says(text, i) = "open" /\ Stream!Says(text, j) = "rest")
    BY <1>1
  <1> HIDE DEF alone
  <1> QED BY <1>2, <1>4, <1>5, <1>6

LEMMA ToldStays ==
  ASSUME NEW text \in Texts, NEW a \in Atoms,
         NEW e \in Stream!LineEnds(text), e \in Stream!Breaks(Append(text, a))
  PROVE  Stream!Told(Append(text, a), e) = Stream!Told(text, e)
  <1>1. Stream!EventData(Append(text, a), e) = Stream!EventData(text, e)
    BY EventStays
  <1>2. Stream!EventData(text, e) \subseteq 1 .. (Len(text) + 1)
    BY EndsOf DEF Stream!EventData
  <1>3. Telling(Append(text, a), Stream!EventData(text, e)) = Telling(text, Stream!EventData(text, e))
    BY <1>2, TellingTheSame
  <1> QED BY <1>1, <1>3, ToldIs

-----------------------------------------------------------------------------
(* A text means what its first telling event says.                         *)

LEMMA MeansTheFirst ==
  ASSUME NEW text \in Texts, NEW e \in Stream!EventEnds(text), Stream!Told(text, e) # Stream!NoResult,
         \A d \in Blanks(text) : d < e => Stream!Told(text, d) = Stream!NoResult
  PROVE  Stream!Meaning(text) = Stream!Told(text, e)
  <1> DEFINE telling == {d \in Stream!EventEnds(text) : Stream!Told(text, d) # Stream!NoResult}
  <1>1. telling \subseteq Nat /\ e \in telling
    BY EndsOf
  <1>2. \A d \in telling : e <= d
    BY EndsOf
  <1>3. Stream!Min(telling) = e
    <2> HIDE DEF telling
    <2> QED BY <1>1, <1>2, LeastIs
  <1>4. Stream!Meaning(text) = IF telling = {} THEN Stream!NoResult ELSE Stream!Told(text, Stream!Min(telling))
    BY DEF Stream!Meaning
  <1> HIDE DEF telling
  <1> QED BY <1>1, <1>3, <1>4

LEMMA MeansTheLast ==
  ASSUME NEW text \in Texts, \A d \in Blanks(text) : Stream!Told(text, d) = Stream!NoResult
  PROVE  Stream!Meaning(text) = Stream!Told(text, Len(text) + 1)
  <1>1. CASE Stream!Told(text, Len(text) + 1) # Stream!NoResult
    <2>1. Len(text) + 1 \in Stream!EventEnds(text)
      BY EndsOf
    <2> QED BY <1>1, <2>1, MeansTheFirst
  <1>2. CASE Stream!Told(text, Len(text) + 1) = Stream!NoResult
    <2>1. \A d \in Stream!EventEnds(text) : Stream!Told(text, d) = Stream!NoResult
      BY <1>2, EndsOf
    <2> QED BY <1>2, <2>1 DEF Stream!Meaning
  <1> QED BY <1>1, <1>2

-----------------------------------------------------------------------------
(* The reader holds the data lines of a set, in their order.               *)

Results == {Stream!NoResult, "response", "error"}
Readers == [pending : Texts, data : Seq(Stream!Data), sse : BOOLEAN, result : Results]

Collects(payloads, text, data) ==
  \E at \in [1 .. Len(payloads) -> data] :
    /\ \A i, j \in 1 .. Len(payloads) : i < j => at[i] < at[j]
    /\ \A x \in data : \E i \in 1 .. Len(payloads) : at[i] = x
    /\ \A i \in 1 .. Len(payloads) : payloads[i] = Stream!Says(text, at[i])

LEMMA CollectsNothing ==
  ASSUME NEW text
  PROVE  Collects(<<>>, text, {})
  <1>1. [i \in 1 .. Len(<<>>) |-> 0] \in [1 .. Len(<<>>) -> {}]
    OBVIOUS
  <1> QED BY <1>1 DEF Collects

LEMMA CollectsMore ==
  ASSUME NEW text, NEW longer, NEW payloads \in Seq(Stream!Data), NEW n \in Nat, NEW data, data \subseteq 1 .. n,
         Collects(payloads, text, data), Stream!Says(longer, n + 1) \in Stream!Data,
         \A i \in data : Stream!Says(longer, i) = Stream!Says(text, i)
  PROVE  Collects(Append(payloads, Stream!Says(longer, n + 1)), longer, data \union {n + 1})
  <1> DEFINE more == Append(payloads, Stream!Says(longer, n + 1))
  <1>1. PICK at \in [1 .. Len(payloads) -> data] :
          /\ \A i, j \in 1 .. Len(payloads) : i < j => at[i] < at[j]
          /\ \A x \in data : \E i \in 1 .. Len(payloads) : at[i] = x
          /\ \A i \in 1 .. Len(payloads) : payloads[i] = Stream!Says(text, at[i])
    BY DEF Collects
  <1> DEFINE then == [i \in 1 .. (Len(payloads) + 1) |-> IF i = Len(payloads) + 1 THEN n + 1 ELSE at[i]]
  <1>2. Len(payloads) \in Nat /\ Len(more) = Len(payloads) + 1 /\ more[Len(payloads) + 1] = Stream!Says(longer, n + 1)
        /\ \A i \in 1 .. Len(payloads) : more[i] = payloads[i]
    OBVIOUS
  <1>3. \A i \in 1 .. Len(payloads) : then[i] = at[i] /\ at[i] \in data /\ at[i] \in 1 .. n /\ i # Len(payloads) + 1
    <2> SUFFICES ASSUME NEW i \in 1 .. Len(payloads)
                 PROVE  then[i] = at[i] /\ at[i] \in data /\ at[i] \in 1 .. n /\ i # Len(payloads) + 1
      OBVIOUS
    <2>1. i # Len(payloads) + 1 /\ i \in 1 .. (Len(payloads) + 1)
      BY <1>2
    <2>2. at[i] \in data
      OBVIOUS
    <2> QED BY <2>1, <2>2
  <1>4. then[Len(payloads) + 1] = n + 1
    BY <1>2
  <1>5. \A i \in 1 .. (Len(payloads) + 1) : i \in 1 .. Len(payloads) \/ i = Len(payloads) + 1
    BY <1>2
  <1>6. then \in [1 .. (Len(payloads) + 1) -> data \union {n + 1}]
    BY <1>3
  <1> HIDE DEF then, more
  <1>7. ASSUME NEW i \in 1 .. (Len(payloads) + 1), NEW j \in 1 .. (Len(payloads) + 1), i < j
        PROVE  then[i] < then[j]
    <2>1. i \in 1 .. Len(payloads)
      BY <1>2, <1>7
    <2>2. CASE j \in 1 .. Len(payloads) BY <1>1, <1>3, <1>7, <2>1, <2>2
    <2>3. CASE j = Len(payloads) + 1 BY <1>3, <1>4, <2>1, <2>3
    <2> QED BY <1>5, <2>2, <2>3
  <1>8. ASSUME NEW x \in data \union {n + 1}
        PROVE  \E i \in 1 .. (Len(payloads) + 1) : then[i] = x
    <2>1. CASE x \in data
      <3>1. PICK i \in 1 .. Len(payloads) : at[i] = x
        BY <1>1, <2>1
      <3>2. i \in 1 .. (Len(payloads) + 1) /\ then[i] = x
        BY <1>2, <1>3, <3>1
      <3> QED BY <3>2
    <2>2. CASE x = n + 1
      <3>1. Len(payloads) + 1 \in 1 .. (Len(payloads) + 1)
        BY <1>2
      <3> QED BY <1>4, <2>2, <3>1
    <2> QED BY <2>1, <2>2
  <1>9. \A i \in 1 .. (Len(payloads) + 1) : more[i] = Stream!Says(longer, then[i])
    BY <1>1, <1>2, <1>3, <1>4, <1>5
  <1>10. Collects(more, longer, data \union {n + 1})
    <2>1. Len(more) = Len(payloads) + 1
      BY <1>2
    <2>2. then \in [1 .. Len(more) -> data \union {n + 1}]
      BY <1>6, <2>1
    <2>3. \A i, j \in 1 .. Len(more) : i < j => then[i] < then[j]
      BY <1>7, <2>1
    <2>4. \A x \in data \union {n + 1} : \E i \in 1 .. Len(more) : then[i] = x
      BY <1>8, <2>1
    <2>5. \A i \in 1 .. Len(more) : more[i] = Stream!Says(longer, then[i])
      BY <1>9, <2>1
    <2> QED BY <2>2, <2>3, <2>4, <2>5, Zenon DEF Collects
  <1> QED BY <1>10 DEF more

LEMMA CollectsTheSame ==
  ASSUME NEW text, NEW longer, NEW payloads, NEW data, Collects(payloads, text, data),
         \A i \in data : Stream!Says(longer, i) = Stream!Says(text, i)
  PROVE  Collects(payloads, longer, data)
  <1>1. PICK at \in [1 .. Len(payloads) -> data] :
          /\ \A i, j \in 1 .. Len(payloads) : i < j => at[i] < at[j]
          /\ \A x \in data : \E i \in 1 .. Len(payloads) : at[i] = x
          /\ \A i \in 1 .. Len(payloads) : payloads[i] = Stream!Says(text, at[i])
    BY DEF Collects
  <1>2. \A i \in 1 .. Len(payloads) : at[i] \in data
    BY <1>1
  <1>3. \A i \in 1 .. Len(payloads) : payloads[i] = Stream!Says(longer, at[i])
    BY <1>1, <1>2
  <1> QED BY <1>1, <1>3 DEF Collects

-----------------------------------------------------------------------------
(* A dispatch gives what the lines it collected tell.                      *)

LEMMA CandidatesAre ==
  ASSUME NEW payloads \in Seq(Stream!Data)
  PROVE  /\ Len(payloads) \in Nat
         /\ \A i \in 1 .. Len(payloads) : Stream!Candidates(payloads)[i] = <<payloads[i]>>
         /\ Stream!Candidates(payloads)[Len(payloads) + 1] = payloads
  <1> DEFINE singles == [i \in 1 .. Len(payloads) |-> <<payloads[i]>>]
  <1>1. singles \in Seq(Seq(Stream!Data)) /\ Len(singles) = Len(payloads) /\ Len(payloads) \in Nat
    <2>1. \A i \in 1 .. Len(payloads) : payloads[i] \in Stream!Data
      OBVIOUS
    <2>2. \A i \in 1 .. Len(payloads) : <<payloads[i]>> \in Seq(Stream!Data)
      BY <2>1
    <2>3. Len(payloads) \in Nat
      OBVIOUS
    <2>4. singles \in [1 .. Len(payloads) -> Seq(Stream!Data)]
      BY <2>2
    <2>5. singles \in Seq(Seq(Stream!Data))
      BY <2>3, <2>4, IsASeq
    <2> QED BY <2>3, <2>4, <2>5, LenProperties
  <1>2. \A i \in 1 .. Len(payloads) : singles[i] = <<payloads[i]>>
    OBVIOUS
  <1>3. Stream!Candidates(payloads) = Append(singles, payloads)
    BY DEF Stream!Candidates
  <1> HIDE DEF singles
  <1>4. /\ \A i \in 1 .. Len(payloads) : Append(singles, payloads)[i] = singles[i]
        /\ Append(singles, payloads)[Len(payloads) + 1] = payloads
    <2>1. payloads \in Seq(Stream!Data)
      OBVIOUS
    <2> QED BY <1>1, AppendProperties
  <1> QED BY <1>1, <1>2, <1>3, <1>4

LEMMA OnePayload ==
  ASSUME NEW p \in Stream!Data
  PROVE  Stream!Payload(<<p>>) = IF p = "ok" THEN "response" ELSE IF p = "err" THEN "error" ELSE Stream!NoResult
  <1>1. <<p>> = <<"ok">> <=> p = "ok"
    OBVIOUS
  <1>2. <<p>> = <<"err">> <=> p = "err"
    OBVIOUS
  <1>3. <<p>> # <<"open", "rest">>
    OBVIOUS
  <1> QED BY <1>1, <1>2, <1>3 DEF Stream!Payload

LEMMA DispatchTells ==
  ASSUME NEW text, NEW payloads \in Seq(Stream!Data), NEW data, data \subseteq Nat,
         Collects(payloads, text, data)
  PROVE  Stream!Dispatched(payloads) = Telling(text, data)
  <1> DEFINE n == Len(payloads)
             cand == Stream!Candidates(payloads)
             hits == {i \in 1 .. (n + 1) : Stream!Payload(cand[i]) # Stream!NoResult}
             alone == {i \in data : Stream!Says(text, i) \in {"ok", "err"}}
             split == \E i, j \in data : /\ i < j /\ data = {i, j}
                                         /\ Stream!Says(text, i) = "open" /\ Stream!Says(text, j) = "rest"
  <1>1. PICK at \in [1 .. n -> data] :
          /\ \A i, j \in 1 .. n : i < j => at[i] < at[j]
          /\ \A x \in data : \E i \in 1 .. n : at[i] = x
          /\ \A i \in 1 .. n : payloads[i] = Stream!Says(text, at[i])
    BY DEF Collects
  <1>2. n \in Nat /\ \A i \in 1 .. n : payloads[i] \in Stream!Data /\ at[i] \in data /\ at[i] \in Nat
    <2>1. n \in Nat /\ \A i \in 1 .. n : payloads[i] \in Stream!Data
      OBVIOUS
    <2>2. \A i \in 1 .. n : at[i] \in data
      OBVIOUS
    <2> QED BY <2>1, <2>2
  <1>3. /\ \A i \in 1 .. n : cand[i] = <<payloads[i]>>
        /\ cand[n + 1] = payloads
    BY CandidatesAre
  <1>4. Stream!Dispatched(payloads) =
          IF payloads = <<>> \/ hits = {} THEN Stream!NoResult ELSE Stream!Payload(cand[Stream!Min(hits)])
    BY DEF Stream!Dispatched
  <1>5. Telling(text, data) =
          IF alone # {} THEN IF Stream!Says(text, Stream!Min(alone)) = "ok" THEN "response" ELSE "error"
          ELSE IF split THEN "response" ELSE Stream!NoResult
    BY DEF Telling
  <1>6. \A i \in 1 .. n : i \in hits <=> at[i] \in alone
    <2> SUFFICES ASSUME NEW i \in 1 .. n  PROVE i \in hits <=> at[i] \in alone
      OBVIOUS
    <2>1. i \in hits <=> Stream!Payload(<<payloads[i]>>) # Stream!NoResult
      <3>1. i \in 1 .. (n + 1)
        BY <1>2
      <3> QED BY <1>3, <3>1
    <2>2. Stream!Payload(<<payloads[i]>>) # Stream!NoResult <=> payloads[i] \in {"ok", "err"}
      <3>1. payloads[i] \in Stream!Data
        BY <1>2
      <3> HIDE DEF n
      <3> QED BY <3>1, OnePayload DEF Stream!NoResult
    <2>3. at[i] \in alone <=> payloads[i] \in {"ok", "err"}
      BY <1>1, <1>2
    <2> QED BY <2>1, <2>2, <2>3
  <1>7. hits \subseteq Nat /\ hits \subseteq 1 .. (n + 1) /\ alone \subseteq Nat /\ alone \subseteq data
    <2>1. hits \subseteq 1 .. (n + 1)
      OBVIOUS
    <2>2. 1 .. (n + 1) \subseteq Nat
      BY <1>2
    <2>3. alone \subseteq data
      OBVIOUS
    <2> HIDE DEF hits, alone
    <2> QED BY <2>1, <2>2, <2>3
  <1>8. \A i \in 1 .. (n + 1) : i \in 1 .. n \/ i = n + 1
    BY <1>2
  <1>9. CASE alone # {}
    <2>1. PICK x \in alone : Stream!Min(alone) = x /\ \A y \in alone : x <= y
      <3> HIDE DEF alone
      <3> QED BY <1>7, <1>9, LeastOf
    <2>2. PICK i \in 1 .. n : at[i] = x
      BY <1>1, <1>7, <2>1
    <2>3. i \in hits
      BY <1>6, <2>1, <2>2
    <2>4. ASSUME NEW j \in hits  PROVE i <= j
      <3>1. CASE j = n + 1 BY <1>2, <3>1
      <3>2. CASE j \in 1 .. n /\ j < i
        <4>1. at[j] \in alone /\ at[j] < at[i]
          BY <1>1, <1>6, <2>4, <3>2
        <4>2. at[i] <= at[j] /\ at[j] \in Nat /\ at[i] \in Nat
          BY <1>2, <2>1, <2>2, <3>2, <4>1
        <4> QED BY <4>1, <4>2
      <3>3. j \in 1 .. (n + 1)
        BY <1>7, <2>4
      <3> HIDE DEF hits
      <3> QED BY <1>2, <1>8, <3>1, <3>2, <3>3
    <2>5. Stream!Min(hits) = i
      <3> HIDE DEF hits
      <3> QED BY <1>7, <2>3, <2>4, LeastIs
    <2>6. payloads # <<>>
      BY <2>2
    <2>7. Stream!Dispatched(payloads) = Stream!Payload(<<payloads[i]>>)
      <3> HIDE DEF hits, cand
      <3> QED BY <1>3, <1>4, <2>2, <2>3, <2>5, <2>6
    <2>8. payloads[i] = Stream!Says(text, x) /\ payloads[i] \in {"ok", "err"} /\ payloads[i] \in Stream!Data
      BY <1>1, <1>2, <2>1, <2>2
    <2>9. Stream!Payload(<<payloads[i]>>) = IF payloads[i] = "ok" THEN "response" ELSE "error"
      <3> HIDE DEF n
      <3> QED BY <2>8, OnePayload
    <2> HIDE DEF hits, cand, alone, split
    <2> QED BY <1>5, <1>9, <2>1, <2>7, <2>8, <2>9
  <1>10. CASE alone = {}
    <2>1. hits \subseteq {n + 1}
      BY <1>6, <1>7, <1>8, <1>10
    <2>2. hits # {} => Stream!Min(hits) = n + 1
      <3> HIDE DEF hits
      <3> QED BY <1>7, <2>1, LeastOf
    <2>3. n + 1 \in hits <=> Stream!Payload(payloads) # Stream!NoResult
      <3>1. n + 1 \in 1 .. (n + 1)
        BY <1>2
      <3> QED BY <1>3, <3>1
    <2>4. Stream!Dispatched(payloads) = IF payloads = <<>> THEN Stream!NoResult ELSE Stream!Payload(payloads)
      <3> HIDE DEF hits, cand
      <3> QED BY <1>3, <1>4, <2>1, <2>2, <2>3
    <2>5. \A i \in 1 .. n : payloads[i] \notin {"ok", "err"}
      BY <1>1, <1>2, <1>10
    <2>6. payloads # <<"ok">> /\ payloads # <<"err">>
      BY <2>5
    <2>7. Stream!Dispatched(payloads) = IF payloads = <<"open", "rest">> THEN "response" ELSE Stream!NoResult
      <3>1. Stream!Payload(payloads) = IF payloads = <<"open", "rest">> THEN "response" ELSE Stream!NoResult
        BY <2>6 DEF Stream!Payload
      <3> QED BY <2>4, <3>1
    <2>8. ASSUME payloads = <<"open", "rest">>  PROVE split
      <3>1. n = 2 /\ 1 \in 1 .. n /\ 2 \in 1 .. n
        BY <2>8
      <3>2. at[1] \in data /\ at[2] \in data /\ at[1] < at[2]
        BY <1>1, <3>1
      <3>3. \A i \in 1 .. n : i = 1 \/ i = 2
        BY <3>1
      <3>4. data = {at[1], at[2]}
        <4>1. \A x \in data : x = at[1] \/ x = at[2]
          <5> SUFFICES ASSUME NEW x \in data  PROVE x = at[1] \/ x = at[2]
            OBVIOUS
          <5>1. PICK i \in 1 .. n : at[i] = x
            BY <1>1
          <5>2. i = 1 \/ i = 2
            BY <3>3
          <5> QED BY <5>1, <5>2
        <4> QED BY <3>2, <4>1
      <3>5. Stream!Says(text, at[1]) = "open" /\ Stream!Says(text, at[2]) = "rest"
        <4>1. payloads[1] = "open" /\ payloads[2] = "rest"
          BY <2>8
        <4> QED BY <1>1, <3>1, <4>1
      <3> QED BY <3>2, <3>4, <3>5
    <2>9. ASSUME split  PROVE payloads = <<"open", "rest">>
      <3>1. PICK x \in data, y \in data : /\ x < y /\ data = {x, y}
                                           /\ Stream!Says(text, x) = "open" /\ Stream!Says(text, y) = "rest"
        BY <2>9
      <3>2. PICK i \in 1 .. n : at[i] = x
        BY <1>1
      <3>3. PICK j \in 1 .. n : at[j] = y
        BY <1>1
      <3>4. \A k, l \in 1 .. n : at[k] = at[l] => k = l
        <4> SUFFICES ASSUME NEW k \in 1 .. n, NEW l \in 1 .. n, at[k] = at[l], k # l  PROVE FALSE
          OBVIOUS
        <4>1. k < l \/ l < k
          OBVIOUS
        <4>2. at[k] < at[l] \/ at[l] < at[k]
          BY <1>1, <4>1
        <4> QED BY <1>2, <4>2
      <3>5. i < j
        <4>1. ~(j < i)
          BY <1>1, <1>2, <3>1, <3>2, <3>3
        <4>2. i # j
          BY <1>2, <3>1, <3>2, <3>3
        <4> QED BY <4>1, <4>2
      <3>6. \A k \in 1 .. n : k = i \/ k = j
        BY <1>2, <3>1, <3>2, <3>3, <3>4
      <3>7. n = 2 /\ i = 1 /\ j = 2
        <4>1. 1 \in 1 .. n /\ n \in 1 .. n
          BY <1>2
        <4>2. i = 1 \/ j = 1
          BY <3>6, <4>1
        <4>3. i = n \/ j = n
          BY <3>6, <4>1
        <4>4. i = 1 /\ j = n
          BY <3>5, <4>2, <4>3
        <4>5. n < 3
          <5> SUFFICES ASSUME n >= 3  PROVE FALSE
            BY <1>2
          <5>1. 2 \in 1 .. n
            BY <1>2
          <5> QED BY <3>6, <4>4, <5>1
        <4> HIDE DEF n
        <4> QED BY <1>2, <3>5, <4>4, <4>5
      <3>8. payloads[1] = "open" /\ payloads[2] = "rest"
        BY <1>1, <3>1, <3>2, <3>3, <3>7
      <3> QED BY <3>7, <3>8
    <2> HIDE DEF split, alone, hits, cand
    <2> QED BY <1>5, <1>10, <2>7, <2>8, <2>9
  <1> QED BY <1>9, <1>10

-----------------------------------------------------------------------------
(* What the reader holds of a text.                                        *)

Frames == (Stream!Data \ {"rest"}) \union {"done"}
FramedSoFar(text) == \E i \in Stream!Breaks(text) : Stream!Says(text, i) \in Frames

\* No event told anything yet, and what is pending and collected is the rest of the text.
Undecided(r, text) ==
  /\ r.result = Stream!NoResult /\ r.pending = Rest(text)
  /\ r.sse <=> FramedSoFar(text)
  /\ Collects(r.data, text, Gathered(text))
  /\ \A d \in Blanks(text) : Stream!Told(text, d) = Stream!NoResult

\* The first event that told something told the result.
Decided(r, text) ==
  /\ r.result # Stream!NoResult
  /\ \E e \in Blanks(text) : /\ Stream!Told(text, e) = r.result
                             /\ \A d \in Blanks(text) : d < e => Stream!Told(text, d) = Stream!NoResult

Carries(r, text) == r \in Readers /\ (Undecided(r, text) \/ Decided(r, text))

LEMMA EventsGrow ==
  ASSUME NEW text \in Texts, NEW a \in Atoms
  PROVE  LET longer == Append(text, a)
             n == Len(text) + 1
             says == Stream!Says(text, n)
         IN /\ a # Stream!Newline => /\ Blanks(longer) = Blanks(text) /\ Gathered(longer) = Gathered(text)
                                     /\ FramedSoFar(longer) <=> FramedSoFar(text)
            /\ a = Stream!Newline =>
                 /\ Blanks(longer) = Blanks(text) \union {i \in {n} : says = "blank"}
                 /\ Gathered(longer) = IF says = "blank" THEN {} ELSE Gathered(text) \union {i \in {n} : says \in Stream!Data}
                 /\ FramedSoFar(longer) <=> FramedSoFar(text) \/ says \in Frames
  <1> DEFINE longer == Append(text, a)
             n == Len(text) + 1
             says == Stream!Says(text, n)
  <1>1. /\ n \in Nat /\ Len(text) \in Nat /\ Stream!Breaks(text) \subseteq 1 .. Len(text)
        /\ Stream!Breaks(longer) \subseteq 1 .. n
        /\ \A i \in 1 .. Len(text) : i \in Stream!Breaks(longer) <=> i \in Stream!Breaks(text)
        /\ n \in Stream!Breaks(longer) <=> a = Stream!Newline
    BY BreaksGrow DEF Texts
  <1>2. \A i \in 1 .. n : Stream!Says(longer, i) = Stream!Says(text, i)
    BY SaysTheSame
  <1>3. \A i \in 1 .. n : i \in 1 .. Len(text) \/ i = n
    BY <1>1
  <1>4. n \in 1 .. n /\ n \notin 1 .. Len(text) /\ 1 .. Len(text) \subseteq 1 .. n /\ \A i \in 1 .. Len(text) : i < n
    BY <1>1
  <1>5. Blanks(text) \subseteq 1 .. Len(text) /\ Gathered(text) \subseteq 1 .. Len(text)
    BY EndsOf, LastEvent
  <1> HIDE DEF longer, n
  <1>6. a # Stream!Newline => Stream!Breaks(longer) = Stream!Breaks(text)
    BY <1>1, <1>3
  <1>7. a = Stream!Newline => Stream!Breaks(longer) = Stream!Breaks(text) \union {n}
    BY <1>1, <1>3
  <1>8. CASE a # Stream!Newline
    <2>1. \A i \in Stream!Breaks(text) : Stream!Says(longer, i) = Stream!Says(text, i)
      BY <1>1, <1>2, <1>4
    <2>2. Blanks(longer) = Blanks(text)
      BY <1>6, <1>8, <2>1 DEF Blanks
    <2>3. Gathered(longer) = Gathered(text)
      BY <1>6, <1>8, <2>1, <2>2 DEF Gathered
    <2>4. FramedSoFar(longer) <=> FramedSoFar(text)
      BY <1>6, <1>8, <2>1 DEF FramedSoFar
    <2> QED BY <1>8, <2>2, <2>3, <2>4 DEF longer, n
  <1>9. CASE a = Stream!Newline
    <2>1. \A i \in Stream!Breaks(text) : Stream!Says(longer, i) = Stream!Says(text, i)
      BY <1>1, <1>2, <1>4
    <2>2. Stream!Says(longer, n) = says
      BY <1>2, <1>4
    <2>3. Blanks(longer) = Blanks(text) \union {i \in {n} : says = "blank"}
      BY <1>7, <1>9, <2>1, <2>2 DEF Blanks
    <2>4. FramedSoFar(longer) <=> FramedSoFar(text) \/ says \in Frames
      BY <1>7, <1>9, <2>1, <2>2 DEF FramedSoFar
    <2>5. CASE says = "blank"
      <3>1. n \in Blanks(longer)
        BY <2>3, <2>5
      <3>2. \A i \in Stream!Breaks(longer) : i = n \/ ~(n < i)
        BY <1>1
      <3>3. n \notin Gathered(longer)
        <4>1. ~(n < n)
          BY <1>1
        <4> QED BY <3>1, <4>1 DEF Gathered
      <3>4. \A i \in 1 .. n : ~(n < i)
        BY <1>1
      <3>5. Gathered(longer) = {}
        BY <1>1, <3>1, <3>4 DEF Gathered
      <3> QED BY <1>9, <2>3, <2>4, <2>5, <3>5 DEF longer, n
    <2>6. CASE says # "blank"
      <3>1. Blanks(longer) = Blanks(text)
        BY <2>3, <2>6
      <3>2. \A d \in Blanks(text) : d < n
        BY <1>4, <1>5
      <3>3. Gathered(longer) = Gathered(text) \union {i \in {n} : says \in Stream!Data}
        <4>1. \A i : i \in Gathered(longer) <=>
                       (i \in Stream!Breaks(text) \/ i = n) /\ Stream!Says(longer, i) \in Stream!Data
                       /\ \A d \in Blanks(text) : d < i
          BY <1>7, <1>9, <3>1 DEF Gathered
        <4>2. n \in Gathered(longer) <=> says \in Stream!Data
          BY <2>2, <3>2, <4>1
        <4>3. \A i : i # n => (i \in Gathered(longer) <=> i \in Gathered(text))
          BY <2>1, <4>1 DEF Gathered
        <4>4. n \notin Gathered(text)
          BY <1>4, <1>5
        <4> QED BY <4>2, <4>3, <4>4
      <3> QED BY <1>9, <2>3, <2>4, <2>6, <3>3 DEF longer, n
    <2> QED BY <2>5, <2>6
  <1> QED BY <1>8, <1>9

LEMMA DispatchedIsResult ==
  ASSUME NEW payloads
  PROVE  Stream!Dispatched(payloads) \in Results
  <1>1. \A p : Stream!Payload(p) \in Results
    BY DEF Stream!Payload, Results
  <1> QED BY <1>1 DEF Stream!Dispatched, Results

\* A reader that went over a line, with what is pending after it.
Processed(r, says, rest) ==
  [pending : {rest},
   data : {IF says = "blank" THEN <<>> ELSE IF says \in Stream!Data THEN Append(r.data, says) ELSE r.data},
   sse : {b \in BOOLEAN : b <=> r.sse \/ (says # "blank" /\ says \in Frames)},
   result : {IF says = "blank" THEN Stream!Dispatched(r.data) ELSE r.result}]

LEMMA LineProcessed ==
  ASSUME NEW r \in Readers, NEW atoms, NEW says, says = Stream!ReadsAs(atoms)
  PROVE  Stream!ProcessLine(r, atoms) \in Processed(r, says, r.pending)
  <1>1. CASE says = "blank" BY <1>1 DEF Stream!ProcessLine, Readers, Processed
  <1>2. CASE says # "blank"
    BY <1>2 DEF Stream!ProcessLine, Readers, Frames, Processed
  <1> QED BY <1>1, <1>2

-----------------------------------------------------------------------------
(* One atom more.                                                          *)

LEMMA DecidedStays ==
  ASSUME NEW text \in Texts, NEW a \in Atoms, NEW r, Decided(r, text)
  PROVE  Decided(r, Append(text, a))
  <1>1. PICK e \in Blanks(text) : /\ Stream!Told(text, e) = r.result
                                  /\ \A d \in Blanks(text) : d < e => Stream!Told(text, d) = Stream!NoResult
    BY DEF Decided
  <1>2. \A i \in Blanks(text) : i \in Stream!LineEnds(text) /\ i \in 1 .. Len(text)
                                /\ i \in Stream!Breaks(Append(text, a))
    BY EndsOf, BreaksGrow DEF Blanks
  <1>3. \A d \in Blanks(text) : Stream!Told(Append(text, a), d) = Stream!Told(text, d)
    BY <1>2, ToldStays
  <1>4. Blanks(text) \subseteq Blanks(Append(text, a))
    BY EventsGrow
  <1>5. \A d \in Blanks(Append(text, a)) : d < e => d \in Blanks(text)
    <2>1. \A d \in Blanks(Append(text, a)) : d \in Blanks(text) \/ d = Len(text) + 1
      BY EventsGrow
    <2>2. ~(Len(text) + 1 < e)
      BY <1>2, EndsOf
    <2> QED BY <2>1, <2>2
  <1>6. Stream!Told(Append(text, a), e) = r.result
    BY <1>1, <1>3
  <1>7. \A d \in Blanks(Append(text, a)) : d < e => Stream!Told(Append(text, a), d) = Stream!NoResult
    BY <1>1, <1>3, <1>5
  <1>8. e \in Blanks(Append(text, a)) /\ r.result # Stream!NoResult
    BY <1>4 DEF Decided
  <1> QED BY <1>6, <1>7, <1>8 DEF Decided

\* What a dispatch at the end of a text gives is what its last event tells.
LEMMA LastTold ==
  ASSUME NEW text \in Texts, NEW payloads \in Seq(Stream!Data), NEW data,
         data = Stream!EventData(text, Len(text) + 1), Collects(payloads, text, data)
  PROVE  Stream!Dispatched(payloads) = Stream!Told(text, Len(text) + 1)
  <1>1. data \subseteq Nat
    BY EndsOf DEF Stream!EventData
  <1>2. Stream!Dispatched(payloads) = Telling(text, data)
    BY <1>1, DispatchTells
  <1> QED BY <1>2, ToldIs

LEMMA FeedWithin ==
  ASSUME NEW text \in Texts, NEW a \in Atoms, NEW r \in Readers, Undecided(r, text), a # Stream!Newline
  PROVE  Carries(Stream!Feed(r, a), Append(text, a)) /\ (r.sse => Stream!Feed(r, a).sse)
  <1> DEFINE longer == Append(text, a)
             f == Stream!Feed(r, a)
  <1>1. f \in [pending : {Append(r.pending, a)}, data : {r.data}, sse : {r.sse}, result : {r.result}]
    BY DEF Stream!Feed, Undecided, Readers
  <1>2. Append(r.pending, a) \in Texts
    <2>1. r.pending \in Texts
      BY DEF Readers
    <2> QED BY <2>1, BreaksGrow
  <1>3. f \in Readers
    <2> HIDE DEF f
    <2> QED BY <1>1, <1>2 DEF Readers
  <1>4. f.result = Stream!NoResult /\ f.pending = Append(r.pending, a) /\ f.data = r.data /\ f.sse = r.sse
    <2> HIDE DEF f
    <2> QED BY <1>1 DEF Undecided
  <1>5. Rest(longer) = Append(Rest(text), a)
    BY RestGrows
  <1>6. Blanks(longer) = Blanks(text) /\ Gathered(longer) = Gathered(text)
        /\ (FramedSoFar(longer) <=> FramedSoFar(text))
    BY EventsGrow
  <1>7. \A i \in Gathered(text) : Stream!Says(longer, i) = Stream!Says(text, i)
    <2>1. \A i \in Gathered(text) : i \in 1 .. (Len(text) + 1)
      BY LastEvent, EndsOf
    <2> QED BY <2>1, SaysTheSame
  <1>8. Collects(r.data, longer, Gathered(longer))
    BY <1>6, <1>7, CollectsTheSame DEF Undecided
  <1>9. \A d \in Blanks(longer) : Stream!Told(longer, d) = Stream!NoResult
    <2>1. \A d \in Blanks(text) : d \in Stream!LineEnds(text) /\ d \in Stream!Breaks(longer)
      BY <1>6, EndsOf DEF Blanks
    <2>2. \A d \in Blanks(text) : Stream!Told(longer, d) = Stream!Told(text, d)
      BY <2>1, ToldStays
    <2> QED BY <1>6, <2>2 DEF Undecided
  <1>10. f.sse <=> FramedSoFar(longer)
    BY <1>4, <1>6 DEF Undecided
  <1>11. f.pending = Rest(longer)
    BY <1>4, <1>5 DEF Undecided
  <1>12. Undecided(f, longer)
    <2> HIDE DEF f, longer
    <2> QED BY <1>4, <1>8, <1>9, <1>10, <1>11 DEF Undecided
  <1> QED BY <1>3, <1>4, <1>12 DEF Carries

LEMMA FeedNewline ==
  ASSUME NEW text \in Texts, NEW r \in Readers, Undecided(r, text)
  PROVE  /\ Carries(Stream!Feed(r, Stream!Newline), Append(text, Stream!Newline))
         /\ r.sse => Stream!Feed(r, Stream!Newline).sse
  <1> DEFINE longer == Append(text, Stream!Newline)
             f == Stream!Feed(r, Stream!Newline)
             p == Stream!ProcessLine(r, r.pending)
             n == Len(text) + 1
             says == Stream!Says(text, n)
  <1>1. Stream!Newline \in Atoms /\ <<>> \in Texts
    BY DEF Atoms, Texts
  <1>2. says = Stream!ReadsAs(r.pending)
    BY <1>1, RestGrows DEF Undecided
  <1>3. p \in Processed(r, says, r.pending)
    <2> HIDE DEF says
    <2> QED BY <1>2, LineProcessed
  <1>4. f = [p EXCEPT !.pending = <<>>]
    BY DEF Stream!Feed, Undecided
  <1> HIDE DEF p
  <1>5. f \in Processed(r, says, <<>>)
    <2> HIDE DEF says, f
    <2> QED BY <1>3, <1>4 DEF Processed
  <1> HIDE DEF f
  <1>6. f \in Readers
    <2>1. r.data \in Seq(Stream!Data) /\ <<>> \in Seq(Stream!Data)
      BY DEF Readers
    <2>2. says \in Stream!Data => Append(r.data, says) \in Seq(Stream!Data)
      BY <2>1
    <2>3. r.result \in Results /\ Stream!Dispatched(r.data) \in Results
      BY DispatchedIsResult DEF Readers
    <2> HIDE DEF says
    <2> QED BY <1>1, <1>5, <2>1, <2>2, <2>3 DEF Readers, Processed
  <1>7. f.sse <=> r.sse \/ (says # "blank" /\ says \in Frames)
    <2> HIDE DEF says
    <2> QED BY <1>5 DEF Processed
  <1>8. f.sse <=> FramedSoFar(longer)
    <2>1. "blank" \notin Frames
      BY DEF Frames, Stream!Data
    <2>2. FramedSoFar(longer) <=> FramedSoFar(text) \/ says \in Frames
      BY <1>1, EventsGrow
    <2>3. r.sse <=> FramedSoFar(text)
      BY DEF Undecided
    <2> HIDE DEF says, longer
    <2> QED BY <1>7, <2>1, <2>2, <2>3
  <1>9. f.pending = <<>> /\ Rest(longer) = <<>>
    <2>1. Rest(longer) = <<>>
      BY <1>1, RestGrows
    <2> HIDE DEF says
    <2> QED BY <1>5, <2>1 DEF Processed
  <1>10. /\ longer \in Texts /\ n \in Nat /\ n \in Stream!LineEnds(text) /\ n \in Stream!Breaks(longer)
         /\ n \notin Blanks(text) /\ \A d \in Blanks(text) : d < n
    <2>1. Len(text) \in Nat /\ Blanks(text) \subseteq 1 .. Len(text)
      BY EndsOf
    <2> QED BY <1>1, <2>1, EndsOf, BreaksGrow
  <1>11. \A d \in Blanks(text) : Stream!Told(longer, d) = Stream!NoResult
    <2>1. \A d \in Blanks(text) : d \in Stream!LineEnds(text) /\ d \in Stream!Breaks(longer)
      <3>1. Blanks(text) \subseteq Blanks(longer)
        BY <1>1, EventsGrow
      <3> QED BY <3>1, EndsOf DEF Blanks
    <2> QED BY <1>1, <2>1, ToldStays DEF Undecided
  <1>12. ASSUME says = "blank"  PROVE Carries(f, longer)
    <2>1. Blanks(longer) = Blanks(text) \union {n} /\ Gathered(longer) = {}
      BY <1>1, <1>12, EventsGrow
    <2>2. Stream!EventData(text, n) = Gathered(text)
      <3>1. says \notin Stream!Data
        BY <1>12 DEF Stream!Data
      <3> QED BY <3>1, LastEvent
    <2>3. Stream!Dispatched(r.data) = Stream!Told(text, n)
      <3>1. r.data \in Seq(Stream!Data) /\ Collects(r.data, text, Gathered(text))
        BY DEF Readers, Undecided
      <3> QED BY <2>2, <3>1, LastTold
    <2>4. Stream!Told(longer, n) = Stream!Told(text, n)
      BY <1>1, <1>10, ToldStays
    <2>5. f.result = Stream!Told(longer, n) /\ f.data = <<>>
      <3>1. f.result = Stream!Dispatched(r.data) /\ f.data = <<>>
        BY <1>5, <1>12 DEF Processed
      <3> QED BY <2>3, <2>4, <3>1
    <2> HIDE DEF n, longer, says
    <2>6. CASE f.result = Stream!NoResult
      <3>1. \A d \in Blanks(longer) : Stream!Told(longer, d) = Stream!NoResult
        BY <1>11, <2>1, <2>5, <2>6
      <3>2. Collects(f.data, longer, Gathered(longer))
        BY <2>1, <2>5, CollectsNothing
      <3> QED BY <1>6, <1>8, <1>9, <2>6, <3>1, <3>2 DEF Carries, Undecided
    <2>7. CASE f.result # Stream!NoResult
      <3>1. n \in Blanks(longer) /\ Stream!Told(longer, n) = f.result
        BY <2>1, <2>5
      <3>2. \A d \in Blanks(longer) : d < n => Stream!Told(longer, d) = Stream!NoResult
        <4>1. ~(n < n)
          BY <1>10
        <4> QED BY <1>11, <2>1, <4>1
      <3> QED BY <1>6, <2>7, <3>1, <3>2 DEF Carries, Decided
    <2> QED BY <2>6, <2>7
  <1>13. ASSUME says # "blank"  PROVE Carries(f, longer)
    <2>1. /\ Blanks(longer) = Blanks(text)
          /\ Gathered(longer) = Gathered(text) \union {i \in {n} : says \in Stream!Data}
      BY <1>1, <1>13, EventsGrow
    <2>2. \A d \in Blanks(longer) : Stream!Told(longer, d) = Stream!NoResult
      BY <1>11, <2>1
    <2>3. f.result = Stream!NoResult
      <3>1. f.result = r.result
        BY <1>5, <1>13 DEF Processed
      <3> QED BY <3>1 DEF Undecided
    <2>4. f.data = IF says \in Stream!Data THEN Append(r.data, says) ELSE r.data
      BY <1>5, <1>13 DEF Processed
    <2>5. r.data \in Seq(Stream!Data) /\ Collects(r.data, text, Gathered(text))
      BY DEF Readers, Undecided
    <2>6. Len(text) \in Nat /\ Gathered(text) \subseteq 1 .. Len(text)
      BY EndsOf, LastEvent
    <2>7. \A i \in 1 .. n : Stream!Says(longer, i) = Stream!Says(text, i)
      BY <1>1, SaysTheSame
    <2>8. Stream!Says(longer, n) = says /\ \A i \in Gathered(text) : Stream!Says(longer, i) = Stream!Says(text, i)
      <3>1. n \in 1 .. n /\ 1 .. Len(text) \subseteq 1 .. n
        BY <2>6
      <3> QED BY <2>6, <2>7, <3>1
    <2>9. Collects(f.data, longer, Gathered(longer))
      <3>1. CASE says \in Stream!Data
        <4>1. Collects(Append(r.data, Stream!Says(longer, Len(text) + 1)), longer, Gathered(text) \union {Len(text) + 1})
          <5>1. Stream!Says(longer, Len(text) + 1) \in Stream!Data
            BY <2>8, <3>1
          <5> HIDE DEF longer, says
          <5> QED BY <2>5, <2>6, <2>8, <5>1, CollectsMore
        <4>2. Gathered(longer) = Gathered(text) \union {n}
          BY <2>1, <3>1
        <4> QED BY <2>4, <2>8, <3>1, <4>1, <4>2
      <3>2. CASE says \notin Stream!Data
        <4>1. Gathered(longer) = Gathered(text) /\ f.data = r.data
          BY <2>1, <2>4, <3>2
        <4> QED BY <2>5, <2>8, <4>1, CollectsTheSame
      <3> QED BY <3>1, <3>2
    <2> HIDE DEF n, longer, says
    <2> QED BY <1>6, <1>8, <1>9, <2>2, <2>3, <2>9 DEF Carries, Undecided
  <1>14. Carries(f, longer) /\ (r.sse => f.sse)
    BY <1>7, <1>12, <1>13
  <1> QED BY <1>14 DEF f, longer

LEMMA FeedKeeps ==
  ASSUME NEW text \in Texts, NEW a \in Atoms, NEW r, Carries(r, text)
  PROVE  Carries(Stream!Feed(r, a), Append(text, a)) /\ (r.sse => Stream!Feed(r, a).sse)
  <1>1. CASE Decided(r, text)
    <2>1. Stream!Feed(r, a) = r
      BY <1>1 DEF Stream!Feed, Decided
    <2> QED BY <1>1, <2>1, DecidedStays DEF Carries
  <1>2. CASE Undecided(r, text) /\ a = Stream!Newline
    BY <1>2, FeedNewline DEF Carries
  <1>3. CASE Undecided(r, text) /\ a # Stream!Newline
    BY <1>3, FeedWithin DEF Carries
  <1> QED BY <1>1, <1>2, <1>3 DEF Carries

-----------------------------------------------------------------------------
(* The end of the stream: what is pending is a line, and ends the event.   *)

LEMMA FramedIs ==
  ASSUME NEW text \in Texts
  PROVE  Stream!Framed(text) <=> FramedSoFar(text) \/ Stream!Says(text, Len(text) + 1) \in Frames
  <1>1. Stream!LineEnds(text) = Stream!Breaks(text) \union {Len(text) + 1}
    BY DEF Stream!LineEnds
  <1> QED BY <1>1 DEF Stream!Framed, FramedSoFar, Frames

LEMMA FlushGives ==
  ASSUME NEW text \in Texts, NEW r \in Readers, Undecided(r, text)
  PROVE  LET f == Stream!FlushPending(r)
         IN /\ f \in Readers /\ f.result = Stream!Meaning(text)
            /\ f.result = Stream!NoResult => (f.sse <=> Stream!Framed(text))
            /\ r.sse => f.sse
  <1> DEFINE f == Stream!FlushPending(r)
             p == Stream!ProcessLine(r, r.pending)
             n == Len(text) + 1
             says == Stream!Says(text, n)
             ended == IF r.pending = <<>> THEN r ELSE [p EXCEPT !.pending = <<>>]
  <1>1. <<>> \in Texts /\ <<>> \in Seq(Stream!Data)
    BY DEF Texts
  <1>2. says = Stream!ReadsAs(r.pending)
    <2>1. Stream!Newline \in Atoms
      BY DEF Atoms
    <2> QED BY <2>1, RestGrows DEF Undecided
  <1>3. f = IF ended.result # Stream!NoResult THEN ended
            ELSE [ended EXCEPT !.data = <<>>, !.result = Stream!Dispatched(ended.data)]
    BY DEF Stream!FlushPending
  <1>4. Stream!Meaning(text) = Stream!Told(text, n)
    BY MeansTheLast DEF Undecided
  <1>5. r.data \in Seq(Stream!Data) /\ Collects(r.data, text, Gathered(text)) /\ r.result = Stream!NoResult
        /\ r.sse \in BOOLEAN
    BY DEF Readers, Undecided
  <1>6. "blank" \notin Frames /\ "blank" \notin Stream!Data
    BY DEF Frames, Stream!Data
  <1>7. Stream!EventData(text, n) = Gathered(text) \union {i \in {n} : says \in Stream!Data}
    BY LastEvent
  <1>8. Stream!Dispatched(<<>>) = Stream!NoResult
    BY DEF Stream!Dispatched
  <1>9. /\ ended \in Readers
        /\ ended.sse <=> r.sse \/ says \in Frames
        /\ ended.result # Stream!NoResult => ended.result = Stream!Told(text, n)
        /\ ended.result = Stream!NoResult => Stream!Dispatched(ended.data) = Stream!Told(text, n)
    <2>1. CASE r.pending = <<>>
      <3>1. ended = r
        BY <2>1
      <3>2. says = "blank"
        BY <1>2, <2>1 DEF Stream!ReadsAs
      <3>3. Stream!EventData(text, n) = Gathered(text)
        BY <1>6, <1>7, <3>2
      <3>4. Stream!Dispatched(r.data) = Stream!Told(text, n)
        BY <1>5, <3>3, LastTold
      <3> HIDE DEF ended, says, n
      <3> QED BY <1>5, <1>6, <3>1, <3>2, <3>4
    <2>2. CASE r.pending # <<>>
      <3>1. p \in Processed(r, says, r.pending)
        <4> HIDE DEF says
        <4> QED BY <1>2, LineProcessed
      <3>2. ended = [p EXCEPT !.pending = <<>>]
        BY <2>2
      <3> HIDE DEF ended, p
      <3>3. ended \in Processed(r, says, <<>>)
        <4> HIDE DEF says
        <4> QED BY <3>1, <3>2 DEF Processed
      <3>4. says \in Stream!Data => Append(r.data, says) \in Seq(Stream!Data)
        BY <1>5
      <3>5. ended.sse <=> r.sse \/ says \in Frames
        <4> HIDE DEF says
        <4> QED BY <1>6, <3>3 DEF Processed
      <3>6. ended \in Readers
        <4>1. Stream!Dispatched(r.data) \in Results /\ r.result \in Results
          BY DispatchedIsResult DEF Readers
        <4> HIDE DEF says
        <4> QED BY <1>1, <1>5, <3>3, <3>4, <4>1 DEF Readers, Processed
      <3>7. CASE says = "blank"
        <4>1. Stream!EventData(text, n) = Gathered(text)
          BY <1>6, <1>7, <3>7
        <4>2. Stream!Dispatched(r.data) = Stream!Told(text, n)
          BY <1>5, <4>1, LastTold
        <4>3. ended.result = Stream!Dispatched(r.data) /\ ended.data = <<>>
          BY <3>3, <3>7 DEF Processed
        <4> HIDE DEF says, n
        <4> QED BY <1>8, <3>5, <3>6, <4>2, <4>3
      <3>8. CASE says # "blank"
        <4>1. ended.result = Stream!NoResult
          BY <1>5, <3>3, <3>8 DEF Processed
        <4>2. ended.data = IF says \in Stream!Data THEN Append(r.data, says) ELSE r.data
          BY <3>3, <3>8 DEF Processed
        <4>3. ended.data \in Seq(Stream!Data)
          BY <1>5, <3>4, <4>2
        <4>4. Collects(ended.data, text, Stream!EventData(text, n))
          <5>1. CASE says \in Stream!Data
            <6>1. Stream!EventData(text, n) = Gathered(text) \union {n}
              BY <1>7, <5>1
            <6>2. Len(text) \in Nat /\ Gathered(text) \subseteq 1 .. Len(text)
              BY EndsOf, LastEvent
            <6>3. Collects(Append(r.data, Stream!Says(text, Len(text) + 1)), text, Gathered(text) \union {Len(text) + 1})
              BY <1>5, <5>1, <6>2, CollectsMore
            <6> QED BY <4>2, <5>1, <6>1, <6>3
          <5>2. CASE says \notin Stream!Data
            <6>1. Stream!EventData(text, n) = Gathered(text)
              BY <1>7, <5>2
            <6> QED BY <1>5, <4>2, <5>2, <6>1
          <5> QED BY <5>1, <5>2
        <4>5. Stream!Dispatched(ended.data) = Stream!Told(text, n)
          BY <4>3, <4>4, LastTold
        <4> HIDE DEF says, n
        <4> QED BY <3>5, <3>6, <4>1, <4>5
      <3> QED BY <3>7, <3>8
    <2> QED BY <2>1, <2>2
  <1>10. FramedSoFar(text) <=> r.sse
    BY DEF Undecided
  <1> HIDE DEF f, ended
  <1>11. CASE ended.result # Stream!NoResult
    <2>1. f = ended
      BY <1>3, <1>11
    <2> HIDE DEF n, says
    <2> QED BY <1>4, <1>9, <1>11, <2>1 DEF f
  <1>12. CASE ended.result = Stream!NoResult
    <2>1. f = [ended EXCEPT !.data = <<>>, !.result = Stream!Dispatched(ended.data)]
      BY <1>3, <1>12
    <2>2. Stream!Dispatched(ended.data) \in Results
      BY DispatchedIsResult
    <2>3. f \in Readers /\ f.sse = ended.sse /\ f.result = Stream!Dispatched(ended.data)
      BY <1>1, <1>9, <2>1, <2>2 DEF Readers
    <2>4. f.result = Stream!Meaning(text)
      BY <1>4, <1>9, <1>12, <2>3
    <2>5. f.sse <=> Stream!Framed(text)
      BY <1>9, <1>10, <2>3, FramedIs
    <2>6. r.sse => f.sse
      BY <1>9, <2>3
    <2> QED BY <2>3, <2>4, <2>5, <2>6 DEF f
  <1> QED BY <1>11, <1>12

-----------------------------------------------------------------------------
(* A chunk is drained atom by atom.                                        *)

Drains(after, r, chunk, n) ==
  after = [m \in 0 .. n |-> IF m = 0 THEN r ELSE Stream!Feed(after[m - 1], chunk[m])]

LEMMA SomeDrain ==
  ASSUME NEW r, NEW chunk, NEW n \in Nat
  PROVE  \E after : Drains(after, r, chunk, n)
  <1> DEFINE Missing == {k \in Nat : ~\E after : Drains(after, r, chunk, k)}
  <1>1. ASSUME Missing # {}  PROVE FALSE
    <2>1. Missing \subseteq Nat
      OBVIOUS
    <2>2. PICK k \in Missing : \A l \in Missing : k <= l
      <3> HIDE DEF Missing
      <3> QED BY <1>1, <2>1, Smallest
    <2>3. CASE k = 0
      <3> DEFINE first == [m \in 0 .. 0 |-> r]
      <3>1. first = [m \in 0 .. 0 |-> IF m = 0 THEN r ELSE Stream!Feed(first[m - 1], chunk[m])]
        OBVIOUS
      <3>2. Drains(first, r, chunk, k)
        <4> HIDE DEF first
        <4> QED BY <2>3, <3>1 DEF Drains
      <3> QED BY <3>2
    <2>4. CASE k # 0
      <3>1. k \in Nat /\ k - 1 \in Nat /\ ~(k <= k - 1)
        BY <2>4
      <3>2. PICK after : Drains(after, r, chunk, k - 1)
        <4>1. k - 1 \notin Missing
          BY <2>2, <3>1
        <4> QED BY <3>1, <4>1
      <3> DEFINE longer == [m \in 0 .. k |-> IF m = 0 THEN r ELSE Stream!Feed(after[m - 1], chunk[m])]
      <3>3. \A m \in 0 .. (k - 1) : longer[m] = after[m]
        <4>1. \A m \in 0 .. (k - 1) : after[m] = IF m = 0 THEN r ELSE Stream!Feed(after[m - 1], chunk[m])
          BY <3>2, Zenon DEF Drains
        <4>2. 0 .. (k - 1) \subseteq 0 .. k
          BY <3>1
        <4> QED BY <4>1, <4>2, Zenon
      <3>4. \A m \in 0 .. k : m # 0 => longer[m - 1] = after[m - 1]
        BY <3>1, <3>3
      <3>5. longer = [m \in 0 .. k |-> IF m = 0 THEN r ELSE Stream!Feed(longer[m - 1], chunk[m])]
        <4> DEFINE again == [m \in 0 .. k |-> IF m = 0 THEN r ELSE Stream!Feed(longer[m - 1], chunk[m])]
        <4>1. \A m \in 0 .. k : longer[m] = again[m]
          BY <3>4
        <4> QED BY <4>1
      <3>6. Drains(longer, r, chunk, k)
        <4> HIDE DEF longer
        <4> QED BY <3>5 DEF Drains
      <3> QED BY <3>6
    <2> QED BY <2>3, <2>4
  <1> QED BY <1>1

LEMMA DrainedIs ==
  ASSUME NEW r, NEW chunk \in Texts
  PROVE  \E after : Drains(after, r, chunk, Len(chunk)) /\ Stream!Drained(r, chunk) = after[Len(chunk)]
  <1> DEFINE after == CHOOSE f : f = [n \in 0 .. Len(chunk) |-> IF n = 0 THEN r ELSE Stream!Feed(f[n - 1], chunk[n])]
  <1>1. Stream!Drained(r, chunk) = after[Len(chunk)]
    BY Zenon DEF Stream!Drained
  <1>2. \E f : f = [n \in 0 .. Len(chunk) |-> IF n = 0 THEN r ELSE Stream!Feed(f[n - 1], chunk[n])]
    <2>1. Len(chunk) \in Nat
      BY DEF Texts
    <2>2. \E f : Drains(f, r, chunk, Len(chunk))
      BY <2>1, SomeDrain
    <2> QED BY <2>2, Zenon DEF Drains
  <1>3. Drains(after, r, chunk, Len(chunk))
    BY <1>2, Zenon DEF Drains
  <1> HIDE DEF after
  <1> QED BY <1>1, <1>3

LEMMA DrainedHolds ==
  ASSUME NEW text \in Texts, NEW chunk \in Texts, NEW r, Carries(r, text)
  PROVE  Carries(Stream!Drained(r, chunk), text \o chunk) /\ (r.sse => Stream!Drained(r, chunk).sse)
  <1>1. PICK after : Drains(after, r, chunk, Len(chunk)) /\ Stream!Drained(r, chunk) = after[Len(chunk)]
    BY DrainedIs
  <1>2. Len(chunk) \in Nat
    BY DEF Texts
  <1>3. after[0] = r /\ \A n \in 1 .. Len(chunk) : after[n] = Stream!Feed(after[n - 1], chunk[n])
    <2>1. \A m \in 0 .. Len(chunk) : after[m] = IF m = 0 THEN r ELSE Stream!Feed(after[m - 1], chunk[m])
      BY <1>1, Zenon DEF Drains
    <2>2. 0 \in 0 .. Len(chunk) /\ \A n \in 1 .. Len(chunk) : n \in 0 .. Len(chunk) /\ n # 0
      BY <1>2
    <2> QED BY <2>1, <2>2
  <1> DEFINE Read(n) == text \o SubSeq(chunk, 1, n)
             Fine(n) == Carries(after[n], Read(n)) /\ (r.sse => after[n].sse)
             Wrong == {n \in 0 .. Len(chunk) : ~Fine(n)}
  <1>4. Read(0) = text
    BY DEF Texts
  <1>5. ASSUME NEW n \in 1 .. Len(chunk)
        PROVE  /\ Read(n - 1) \in Texts /\ chunk[n] \in Atoms
               /\ Read(n) = Append(Read(n - 1), chunk[n])
    <2>1. SubSeq(chunk, 1, n) = Append(SubSeq(chunk, 1, n - 1), chunk[n]) /\ SubSeq(chunk, 1, n - 1) \in Texts
      BY DEF Texts
    <2>2. chunk[n] \in Atoms
      BY DEF Texts
    <2>3. \A x \in Texts : text \o Append(x, chunk[n]) = Append(text \o x, chunk[n]) /\ text \o x \in Texts
      BY <2>2 DEF Texts
    <2> QED BY <2>1, <2>2, <2>3
  <1>6. ASSUME Wrong # {}  PROVE FALSE
    <2>1. Wrong \subseteq Nat
      BY <1>2
    <2>2. PICK n \in Wrong : \A l \in Wrong : n <= l
      <3> HIDE DEF Wrong
      <3> QED BY <1>6, <2>1, Smallest
    <2>3. n \in 0 .. Len(chunk) /\ ~Fine(n)
      BY <2>2
    <2>4. n # 0
      BY <1>3, <1>4, <2>3
    <2>5. n \in 1 .. Len(chunk) /\ n - 1 \in 0 .. Len(chunk) /\ ~(n <= n - 1)
      BY <1>2, <2>3, <2>4
    <2>6. Fine(n - 1)
      BY <2>2, <2>5
    <2>7. /\ Carries(Stream!Feed(after[n - 1], chunk[n]), Append(Read(n - 1), chunk[n]))
          /\ after[n - 1].sse => Stream!Feed(after[n - 1], chunk[n]).sse
      <3>1. Read(n - 1) \in Texts /\ chunk[n] \in Atoms /\ Carries(after[n - 1], Read(n - 1))
        BY <1>5, <2>5, <2>6
      <3> HIDE DEF Read
      <3> QED BY <3>1, FeedKeeps
    <2>8. Fine(n)
      <3>1. after[n] = Stream!Feed(after[n - 1], chunk[n]) /\ Read(n) = Append(Read(n - 1), chunk[n])
        BY <1>3, <1>5, <2>5
      <3>2. r.sse => after[n - 1].sse
        BY <2>6
      <3> HIDE DEF Read
      <3> QED BY <2>7, <3>1, <3>2
    <2> QED BY <2>3, <2>8
  <1>7. Fine(Len(chunk))
    <2>1. Len(chunk) \in 0 .. Len(chunk)
      BY <1>2
    <2> HIDE DEF Fine
    <2> QED BY <1>6, <2>1
  <1>8. Read(Len(chunk)) = text \o chunk
    <2>1. SubSeq(chunk, 1, Len(chunk)) = chunk
      BY DEF Texts
    <2> QED BY <2>1
  <1> HIDE DEF Read
  <1> QED BY <1>1, <1>7, <1>8

-----------------------------------------------------------------------------
(* A body is a text.                                                       *)

Flattens(flat, seqs, n) == flat = [i \in 1 .. n |-> IF i = 1 THEN seqs[i] ELSE flat[i - 1] \o seqs[i]]

LEMMA SomeFlattening ==
  ASSUME NEW seqs, NEW n \in Nat
  PROVE  \E flat : Flattens(flat, seqs, n)
  <1> DEFINE Missing == {k \in Nat : ~\E flat : Flattens(flat, seqs, k)}
  <1>1. ASSUME Missing # {}  PROVE FALSE
    <2>1. Missing \subseteq Nat
      OBVIOUS
    <2>2. PICK k \in Missing : \A l \in Missing : k <= l
      <3> HIDE DEF Missing
      <3> QED BY <1>1, <2>1, Smallest
    <2>3. CASE k = 0
      <3> DEFINE none == [i \in 1 .. 0 |-> 0]
      <3>1. none = [i \in 1 .. 0 |-> IF i = 1 THEN seqs[i] ELSE none[i - 1] \o seqs[i]]
        OBVIOUS
      <3>2. Flattens(none, seqs, k)
        <4> HIDE DEF none
        <4> QED BY <2>3, <3>1 DEF Flattens
      <3> QED BY <3>2
    <2>4. CASE k # 0
      <3>1. k \in Nat /\ k - 1 \in Nat /\ ~(k <= k - 1)
        BY <2>4
      <3>2. PICK flat : Flattens(flat, seqs, k - 1)
        <4>1. k - 1 \notin Missing
          BY <2>2, <3>1
        <4> QED BY <3>1, <4>1
      <3> DEFINE longer == [i \in 1 .. k |-> IF i = 1 THEN seqs[i] ELSE flat[i - 1] \o seqs[i]]
      <3>3. \A i \in 1 .. (k - 1) : longer[i] = flat[i]
        <4>1. \A i \in 1 .. (k - 1) : flat[i] = IF i = 1 THEN seqs[i] ELSE flat[i - 1] \o seqs[i]
          BY <3>2, Zenon DEF Flattens
        <4>2. 1 .. (k - 1) \subseteq 1 .. k
          BY <3>1
        <4> QED BY <4>1, <4>2, Zenon
      <3>4. \A i \in 1 .. k : i # 1 => longer[i - 1] = flat[i - 1]
        <4>1. \A i \in 1 .. k : i # 1 => i - 1 \in 1 .. (k - 1)
          BY <3>1
        <4> HIDE DEF longer
        <4> QED BY <3>3, <4>1
      <3>5. longer = [i \in 1 .. k |-> IF i = 1 THEN seqs[i] ELSE longer[i - 1] \o seqs[i]]
        <4> DEFINE again == [i \in 1 .. k |-> IF i = 1 THEN seqs[i] ELSE longer[i - 1] \o seqs[i]]
        <4>1. \A i \in 1 .. k : longer[i] = again[i]
          BY <3>4
        <4> QED BY <4>1
      <3>6. Flattens(longer, seqs, k)
        <4> HIDE DEF longer
        <4> QED BY <3>5 DEF Flattens
      <3> QED BY <3>6
    <2> QED BY <2>3, <2>4
  <1> QED BY <1>1

LEMMA FlatIsText ==
  ASSUME NEW seqs \in Seq(Texts)
  PROVE  Stream!FlattenSeq(seqs) \in Texts
  <1> DEFINE flat == CHOOSE f : f = [i \in 1 .. Len(seqs) |-> IF i = 1 THEN seqs[i] ELSE f[i - 1] \o seqs[i]]
  <1>1. Stream!FlattenSeq(seqs) = IF Len(seqs) = 0 THEN seqs ELSE flat[Len(seqs)]
    BY Zenon DEF Stream!FlattenSeq
  <1>2. Len(seqs) \in Nat /\ \A i \in 1 .. Len(seqs) : seqs[i] \in Texts
    OBVIOUS
  <1>3. Flattens(flat, seqs, Len(seqs))
    <2>1. \E f : Flattens(f, seqs, Len(seqs))
      BY <1>2, SomeFlattening
    <2>2. \E f : f = [i \in 1 .. Len(seqs) |-> IF i = 1 THEN seqs[i] ELSE f[i - 1] \o seqs[i]]
      BY <2>1, Zenon DEF Flattens
    <2> QED BY <2>2, Zenon DEF Flattens
  <1> HIDE DEF flat
  <1>4. \A i \in 1 .. Len(seqs) : flat[i] = IF i = 1 THEN seqs[i] ELSE flat[i - 1] \o seqs[i]
    BY <1>3, Zenon DEF Flattens
  <1> DEFINE Wrong == {i \in 1 .. Len(seqs) : flat[i] \notin Texts}
  <1>5. ASSUME Wrong # {}  PROVE FALSE
    <2>1. Wrong \subseteq Nat
      BY <1>2
    <2>2. PICK i \in Wrong : \A l \in Wrong : i <= l
      <3> HIDE DEF Wrong
      <3> QED BY <1>5, <2>1, Smallest
    <2>3. i \in 1 .. Len(seqs) /\ flat[i] \notin Texts
      BY <2>2
    <2>4. i # 1
      BY <1>2, <1>4, <2>3
    <2>5. i - 1 \in 1 .. Len(seqs) /\ ~(i <= i - 1)
      BY <1>2, <2>3, <2>4
    <2>6. flat[i - 1] \in Texts
      BY <2>2, <2>5
    <2>7. flat[i] = flat[i - 1] \o seqs[i] /\ seqs[i] \in Texts
      BY <1>2, <1>4, <2>3, <2>4
    <2>8. \A x, y \in Texts : x \o y \in Texts
      BY DEF Texts
    <2> QED BY <2>3, <2>6, <2>7, <2>8
  <1>6. CASE Len(seqs) = 0
    <2>1. seqs = <<>>
      BY <1>6
    <2> QED BY <1>1, <1>6, <2>1 DEF Texts
  <1>7. CASE Len(seqs) # 0
    <2>1. Len(seqs) \in 1 .. Len(seqs)
      BY <1>2, <1>7
    <2>2. flat[Len(seqs)] \in Texts
      BY <1>5, <2>1
    <2> QED BY <1>1, <1>7, <2>2
  <1> QED BY <1>6, <1>7

LEMMA BodyIsText ==
  ASSUME NEW lines \in Seq(Stream!Lines)
  PROVE  Stream!TextOf(lines) \in Texts
  <1> DEFINE pieces == [i \in 1 .. Len(lines) |-> Stream!Sent(lines[i])]
  <1>1. \A text \in Stream!Lines : Stream!Sent(text) \in Texts
    <2> SUFFICES ASSUME NEW text \in Stream!Lines  PROVE Stream!Sent(text) \in Texts
      OBVIOUS
    <2>1. text \in Atoms /\ "end" \in Atoms /\ Stream!Newline \in Atoms
      BY DEF Atoms
    <2>2. <<Stream!Newline>> \in Texts /\ <<text, "end", Stream!Newline>> \in Texts
      BY <2>1 DEF Texts
    <2> QED BY <2>2 DEF Stream!Sent
  <1>2. Len(lines) \in Nat /\ \A i \in 1 .. Len(lines) : lines[i] \in Stream!Lines
    OBVIOUS
  <1>3. pieces \in Seq(Texts)
    <2>1. pieces \in [1 .. Len(lines) -> Texts]
      BY <1>1, <1>2
    <2> HIDE DEF pieces
    <2> QED BY <1>2, <2>1, IsASeq
  <1>4. Stream!FlattenSeq(pieces) \in Texts
    <2> HIDE DEF pieces
    <2> QED BY <1>3, FlatIsText
  <1> QED BY <1>4 DEF Stream!TextOf

-----------------------------------------------------------------------------
(* The reads.                                                              *)

Verdicts == {Stream!Running, "response", "error", "garbled", "incomplete", "passed through", "threw", "text"}

\* A verdict is that of the text that arrived.
Judges(v, text) ==
  /\ v.kind \in {"response", "garbled"} => Stream!Meaning(text) = "response"
  /\ v.kind = "error" => Stream!Meaning(text) = "error"
  /\ v.kind \in {"incomplete", "passed through"} => Stream!Meaning(text) = Stream!NoResult
  /\ v.kind = "incomplete" => v.status >= 400
  /\ v.kind = "passed through" => v.text = text /\ ~Stream!Framed(text)
  /\ v.kind = "text" => v.text = Stream!Kept(text)

\* A read that goes on holds the text that arrived.
InProgress(doing, r, kept, text) ==
  /\ doing = "convert" => Undecided(r, text) /\ (~r.sse => kept = text)
  /\ doing = "bounded" => kept = text

AnswerTypes ==
  /\ task \in {"convert", "bounded"} /\ status \in Status
  /\ body \in Texts /\ sent \in 0 .. Len(body)
  /\ clock \in Nat /\ clock <= Total /\ dueAt = Total
  /\ reader \in Readers /\ source \in {"open", "ended", "cancelled"}
  /\ verdict.kind \in Verdicts

AnswerInv ==
  /\ AnswerTypes
  /\ Judges(verdict, Stream!Received)
  /\ verdict.kind # Stream!Running => source # "open"
  /\ verdict.kind = Stream!Running => InProgress(task, reader, parts, Stream!Received)

LEMMA RunningJudgesNothing ==
  ASSUME NEW v, NEW text, v.kind \in {Stream!Running, "threw"}
  PROVE  Judges(v, text)
  BY DEF Judges, Stream!Running

LEMMA ReadsStart ==
  ASSUME AnswerConstants, Stream!Init
  PROVE  AnswerInv
  <1>1. PICK lines \in Bodies : body = Stream!TextOf(lines)
    BY DEF Stream!Init
  <1>2. body \in Texts
    BY <1>1, BodyIsText DEF AnswerConstants
  <1>3. <<>> \in Texts /\ Len(body) \in Nat /\ 0 \in 0 .. Len(body) /\ SubSeq(body, 1, 0) = <<>>
    BY <1>2 DEF Texts
  <1>4. Stream!Received = <<>>
    BY <1>3 DEF Stream!Received, Stream!Init
  <1>5. reader \in [pending : {<<>>}, data : {<<>>}, sse : {b \in BOOLEAN : ~b}, result : {Stream!NoResult}]
    BY DEF Stream!Init, Stream!NewReader
  <1>6. reader \in Readers /\ reader.pending = <<>> /\ reader.data = <<>> /\ ~reader.sse
        /\ reader.result = Stream!NoResult
    <2>1. <<>> \in Seq(Stream!Data)
      OBVIOUS
    <2>2. /\ reader.pending = <<>> /\ reader.data = <<>> /\ ~reader.sse
          /\ reader.result = Stream!NoResult
      BY <1>5
    <2>3. reader \in Readers
      BY <1>3, <1>5, <2>1 DEF Readers, Results
    <2> QED BY <2>2, <2>3
  <1>7. Stream!Breaks(<<>>) = {}
    BY DEF Stream!Breaks
  <1>8. Blanks(<<>>) = {} /\ Gathered(<<>>) = {} /\ ~FramedSoFar(<<>>)
    BY <1>7 DEF Blanks, Gathered, FramedSoFar
  <1>9. Rest(<<>>) = <<>>
    <2>1. Stream!LineStart(<<>>, Len(<<>>) + 1) = 1
      <3>1. Len(<<>>) + 1 \in 1 .. (Len(<<>>) + 1) /\ Len(<<>>) = 0
        OBVIOUS
      <3>2. Starts(Stream!LineStart(<<>>, Len(<<>>) + 1), <<>>, Len(<<>>) + 1)
        BY <1>3, <3>1, LineStartIs
      <3> QED BY <3>1, <3>2 DEF Starts
    <2>2. SubSeq(<<>>, 1, Len(<<>>)) = <<>>
      OBVIOUS
    <2> QED BY <2>1, <2>2 DEF Rest
  <1>10. Undecided(reader, <<>>)
    <2>1. Collects(<<>>, <<>>, {})
      BY CollectsNothing
    <2> QED BY <1>6, <1>8, <1>9, <2>1 DEF Undecided
  <1>11. verdict.kind = Stream!Running /\ parts = <<>> /\ source = "open"
    BY DEF Stream!Init
  <1>12. InProgress(task, reader, parts, Stream!Received)
    BY <1>4, <1>10, <1>11 DEF InProgress
  <1>13. Judges(verdict, Stream!Received)
    BY <1>11, RunningJudgesNothing
  <1>14. AnswerTypes
    BY <1>2, <1>3, <1>6, <1>11 DEF AnswerTypes, Stream!Init, AnswerConstants, Verdicts
  <1> QED BY <1>11, <1>12, <1>13, <1>14 DEF AnswerInv

\* What arrived grows by the chunk.
LEMMA ChunkArrives ==
  ASSUME AnswerInv, NEW n \in 1 .. Len(body), sent + n <= Len(body), sent' = sent + n, body' = body
  PROVE  /\ Stream!Received \in Texts /\ SubSeq(body, sent + 1, sent + n) \in Texts
         /\ Stream!Received' = Stream!Received \o SubSeq(body, sent + 1, sent + n)
         /\ sent' \in 0 .. Len(body')
  <1>1. body \in Seq(Atoms) /\ sent \in 0 .. Len(body) /\ Len(body) \in Nat
    BY DEF AnswerInv, AnswerTypes, Texts
  <1>2. SubSeq(body, 1, sent) \in Seq(Atoms) /\ SubSeq(body, sent + 1, sent + n) \in Seq(Atoms)
    BY <1>1
  <1>3. SubSeq(body, 1, sent + n) = SubSeq(body, 1, sent) \o SubSeq(body, sent + 1, sent + n)
    BY <1>1
  <1> QED BY <1>1, <1>2, <1>3 DEF Stream!Received, Texts

\* The ways a result becomes a verdict.
LEMMA JudgedRight ==
  ASSUME NEW r, NEW text, r.result # Stream!NoResult => Stream!Meaning(text) = r.result, Stream!Judged(r)
  PROVE  Judges(verdict', text) /\ verdict'.kind \in Verdicts /\ verdict'.kind # Stream!Running
  <1>1. CASE r.result = "error" /\ Stream!Ends("error", Stream!FailedStatus, <<>>)
    <2>1. verdict'.kind = "error"
      BY <1>1 DEF Stream!Ends
    <2> QED BY <1>1, <2>1 DEF Judges, Verdicts, Stream!Running, Stream!NoResult
  <1>2. CASE r.result = "response" /\ (Stream!Ends("response", status, <<>>) \/ Stream!Ends("garbled", 502, <<>>))
    <2>1. verdict'.kind \in {"response", "garbled"}
      BY <1>2 DEF Stream!Ends
    <2> QED BY <1>2, <2>1 DEF Judges, Verdicts, Stream!Running, Stream!NoResult
  <1> QED BY <1>1, <1>2 DEF Stream!Judged

LEMMA ChunkKeeps ==
  ASSUME AnswerConstants, AnswerInv, NEW n \in 1 .. Len(body), Stream!Chunk(n)
  PROVE  AnswerInv'
  <1> DEFINE chunk == SubSeq(body, sent + 1, sent + n)
             r == Stream!Drained(reader, chunk)
             arrived == Stream!Received \o chunk
  <1>1. /\ task = "convert" /\ verdict.kind = Stream!Running /\ source = "open"
        /\ sent + n <= Len(body) /\ sent' = sent + n
        /\ UNCHANGED <<task, status, body, clock>>
    BY DEF Stream!Chunk, Stream!Reading
  <1>2. Stream!Received \in Texts /\ chunk \in Texts /\ Stream!Received' = arrived /\ sent' \in 0 .. Len(body')
    BY <1>1, ChunkArrives
  <1>3. Undecided(reader, Stream!Received) /\ (~reader.sse => parts = Stream!Received) /\ reader \in Readers
    BY <1>1 DEF AnswerInv, AnswerTypes, InProgress
  <1>4. Carries(r, arrived) /\ (reader.sse => r.sse)
    <2>1. Carries(reader, Stream!Received)
      BY <1>3 DEF Carries
    <2> HIDE DEF chunk
    <2> QED BY <1>2, <2>1, DrainedHolds
  <1>5. CASE sent + n > Limit
    <2>1. source' = "cancelled" /\ Stream!Ends("threw", 0, <<>>) /\ UNCHANGED <<reader, parts, stallAt, dueAt>>
      BY <1>5 DEF Stream!Chunk
    <2>2. verdict'.kind = "threw"
      BY <2>1 DEF Stream!Ends
    <2>3. AnswerTypes'
      BY <1>1, <1>2, <2>1, <2>2 DEF AnswerInv, AnswerTypes, Verdicts
    <2>4. Judges(verdict', Stream!Received')
      BY <2>2, RunningJudgesNothing
    <2> QED BY <2>1, <2>2, <2>3, <2>4 DEF AnswerInv, Stream!Running
  <1>6. CASE ~(sent + n > Limit)
    <2>1. /\ reader' = r /\ parts' = Stream!Retained(parts, chunk, r)
          /\ IF r.result # Stream!NoResult
             THEN source' = "cancelled" /\ UNCHANGED <<stallAt, dueAt>> /\ Stream!Judged(r)
             ELSE Stream!Rearm /\ UNCHANGED <<source, verdict>>
      BY <1>6 DEF Stream!Chunk
    <2>2. r \in Readers
      BY <1>4 DEF Carries
    <2>3. CASE r.result # Stream!NoResult
      <3>1. Decided(r, arrived)
        BY <1>4, <2>3 DEF Carries, Undecided
      <3>2. arrived \in Texts
        BY <1>2 DEF Texts
      <3>3. Stream!Meaning(arrived) = r.result
        <4> HIDE DEF arrived, r
        <4>1. PICK e \in Blanks(arrived) : /\ Stream!Told(arrived, e) = r.result
                                       /\ \A d \in Blanks(arrived) : d < e => Stream!Told(arrived, d) = Stream!NoResult
          BY <3>1 DEF Decided
        <4>2. e \in Stream!EventEnds(arrived)
          BY <3>2, EndsOf
        <4> QED BY <2>3, <3>2, <4>1, <4>2, MeansTheFirst
      <3>4. source' = "cancelled" /\ Stream!Judged(r) /\ UNCHANGED dueAt
        BY <2>1, <2>3
      <3>5. Judges(verdict', arrived) /\ verdict'.kind \in Verdicts /\ verdict'.kind # Stream!Running
        <4> HIDE DEF arrived, r
        <4> QED BY <3>3, <3>4, JudgedRight
      <3>6. AnswerTypes'
        BY <1>1, <1>2, <2>1, <2>2, <3>4, <3>5 DEF AnswerInv, AnswerTypes
      <3> HIDE DEF arrived, r
      <3> QED BY <1>2, <3>4, <3>5, <3>6 DEF AnswerInv
    <2>4. CASE r.result = Stream!NoResult
      <3>1. Undecided(r, arrived)
        BY <1>4, <2>4 DEF Carries, Decided
      <3>2. UNCHANGED <<source, verdict, dueAt>>
        BY <2>1, <2>4 DEF Stream!Rearm
      <3>3. ~r.sse => parts' = arrived
        BY <1>3, <1>4, <2>1 DEF Stream!Retained
      <3>4. InProgress(task', reader', parts', Stream!Received')
        BY <1>1, <1>2, <2>1, <3>1, <3>3 DEF InProgress
      <3>5. AnswerTypes'
        BY <1>1, <1>2, <2>1, <2>2, <3>2 DEF AnswerInv, AnswerTypes
      <3>6. Judges(verdict', Stream!Received')
        BY <1>1, <3>2, RunningJudgesNothing
      <3> QED BY <1>1, <3>2, <3>4, <3>5, <3>6 DEF AnswerInv
    <2> QED BY <2>3, <2>4
  <1> QED BY <1>5, <1>6

LEMMA EndOfStreamKeeps ==
  ASSUME AnswerConstants, AnswerInv, Stream!EndOfStream
  PROVE  AnswerInv'
  <1> DEFINE r == Stream!FlushPending(reader)
             text == Stream!Received
  <1>1. /\ task = "convert" /\ verdict.kind = Stream!Running /\ source' = "ended" /\ reader' = r
        /\ UNCHANGED <<task, status, body, sent, clock, stallAt, dueAt>>
        /\ \/ Stream!Judged(r)
           \/ r.result = Stream!NoResult /\ ~r.sse /\ Stream!Ends("passed through", status, parts)
           \/ r.result = Stream!NoResult /\ r.sse /\ Stream!Ends("incomplete", Stream!FailedStatus, <<>>)
    BY DEF Stream!EndOfStream, Stream!Reading
  <1>2. Undecided(reader, text) /\ (~reader.sse => parts = text) /\ reader \in Readers
    BY <1>1 DEF AnswerInv, AnswerTypes, InProgress
  <1>3. text \in Texts /\ Stream!Received' = text
    <2>1. body \in Seq(Atoms) /\ sent \in 0 .. Len(body)
      BY DEF AnswerInv, AnswerTypes, Texts
    <2>2. SubSeq(body, 1, sent) \in Seq(Atoms)
      BY <2>1
    <2> QED BY <1>1, <2>2 DEF Stream!Received, Texts
  <1>4. /\ r \in Readers /\ r.result = Stream!Meaning(text)
        /\ r.result = Stream!NoResult => (r.sse <=> Stream!Framed(text))
        /\ reader.sse => r.sse
    <2> HIDE DEF text
    <2> QED BY <1>2, <1>3, FlushGives
  <1> HIDE DEF r, text
  <1>5. Judges(verdict', text) /\ verdict'.kind \in Verdicts /\ verdict'.kind # Stream!Running
    <2>1. CASE Stream!Judged(r) BY <1>4, <2>1, JudgedRight
    <2>2. CASE r.result = Stream!NoResult /\ ~r.sse /\ Stream!Ends("passed through", status, parts)
      <3>1. verdict'.kind = "passed through" /\ verdict'.text = parts
        BY <2>2 DEF Stream!Ends
      <3>2. ~Stream!Framed(text) /\ parts = text /\ Stream!Meaning(text) = Stream!NoResult
        BY <1>2, <1>4, <2>2
      <3> QED BY <3>1, <3>2 DEF Judges, Verdicts, Stream!Running
    <2>3. CASE r.result = Stream!NoResult /\ r.sse /\ Stream!Ends("incomplete", Stream!FailedStatus, <<>>)
      <3>1. verdict'.kind = "incomplete" /\ verdict'.status = Stream!FailedStatus
        BY <2>3 DEF Stream!Ends
      <3>2. Stream!FailedStatus >= 400
        <4>1. status \in Nat
          BY DEF AnswerInv, AnswerTypes, AnswerConstants
        <4> QED BY <4>1 DEF Stream!FailedStatus
      <3> QED BY <1>4, <2>3, <3>1, <3>2 DEF Judges, Verdicts, Stream!Running
    <2> QED BY <1>1, <2>1, <2>2, <2>3
  <1>6. AnswerTypes'
    BY <1>1, <1>4, <1>5 DEF AnswerInv, AnswerTypes
  <1> QED BY <1>1, <1>3, <1>5, <1>6 DEF AnswerInv

LEMMA GiveUpKeeps ==
  ASSUME AnswerInv, Stream!GiveUp
  PROVE  AnswerInv'
  <1>1. /\ source' = "cancelled" /\ verdict'.kind = "threw"
        /\ UNCHANGED <<task, status, body, sent, reader, parts, clock, stallAt, dueAt>>
    BY DEF Stream!GiveUp, Stream!Ends
  <1>2. AnswerTypes'
    BY <1>1 DEF AnswerInv, AnswerTypes, Verdicts
  <1>3. Judges(verdict', Stream!Received')
    BY <1>1, RunningJudgesNothing
  <1> QED BY <1>1, <1>2, <1>3 DEF AnswerInv, Stream!Running

LEMMA BoundedTextIsKept ==
  ASSUME NEW text, verdict'.kind = "text", verdict'.text = Stream!Kept(text)
  PROVE  Judges(verdict', text) /\ verdict'.kind \in Verdicts /\ verdict'.kind # Stream!Running
  BY DEF Judges, Verdicts, Stream!Running

LEMMA BoundedChunkKeeps ==
  ASSUME AnswerInv, NEW n \in 1 .. Len(body), Stream!BoundedChunk(n)
  PROVE  AnswerInv'
  <1> DEFINE chunk == SubSeq(body, sent + 1, sent + n)
             all == parts \o chunk
  <1>1. /\ task = "bounded" /\ verdict.kind = Stream!Running /\ source = "open"
        /\ sent + n <= Len(body) /\ sent' = sent + n /\ parts' = all
        /\ IF Len(all) >= Keep THEN source' = "cancelled" /\ Stream!Ends("text", status, Stream!Kept(all))
           ELSE UNCHANGED <<source, verdict>>
        /\ UNCHANGED <<task, status, body, reader, clock, stallAt, dueAt>>
    BY DEF Stream!BoundedChunk, Stream!Reading
  <1>2. Stream!Received' = Stream!Received \o chunk /\ sent' \in 0 .. Len(body')
    BY <1>1, ChunkArrives
  <1>3. parts = Stream!Received
    BY <1>1 DEF AnswerInv, InProgress
  <1>4. Stream!Received' = all
    BY <1>2, <1>3
  <1> HIDE DEF all
  <1>5. CASE Len(all) >= Keep
    <2>1. verdict'.kind = "text" /\ verdict'.text = Stream!Kept(all) /\ source' = "cancelled"
      BY <1>1, <1>5 DEF Stream!Ends
    <2>2. Judges(verdict', all) /\ verdict'.kind \in Verdicts /\ verdict'.kind # Stream!Running
      BY <2>1, BoundedTextIsKept
    <2>3. AnswerTypes'
      BY <1>1, <1>2, <2>1, <2>2 DEF AnswerInv, AnswerTypes
    <2> QED BY <1>4, <2>1, <2>2, <2>3 DEF AnswerInv
  <1>6. CASE ~(Len(all) >= Keep)
    <2>1. UNCHANGED <<source, verdict>>
      BY <1>1, <1>6
    <2>2. AnswerTypes'
      BY <1>1, <1>2, <2>1 DEF AnswerInv, AnswerTypes
    <2>3. Judges(verdict', Stream!Received')
      BY <1>1, <2>1, RunningJudgesNothing
    <2>4. InProgress(task', reader', parts', Stream!Received')
      BY <1>1, <1>4 DEF InProgress
    <2> QED BY <1>1, <2>1, <2>2, <2>3, <2>4 DEF AnswerInv
  <1> QED BY <1>5, <1>6

LEMMA BoundedEndKeeps ==
  ASSUME AnswerInv, Stream!BoundedEnd
  PROVE  AnswerInv'
  <1>1. /\ task = "bounded" /\ verdict.kind = Stream!Running /\ source' \in {"ended", "cancelled"}
        /\ verdict'.kind = "text" /\ verdict'.text = Stream!Kept(parts)
        /\ UNCHANGED <<task, status, body, sent, reader, parts, clock, stallAt, dueAt>>
    BY DEF Stream!BoundedEnd, Stream!Reading, Stream!Ends
  <1>2. parts = Stream!Received
    BY <1>1 DEF AnswerInv, InProgress
  <1>3. Stream!Received' = Stream!Received
    BY <1>1 DEF Stream!Received
  <1>4. Judges(verdict', Stream!Received) /\ verdict'.kind \in Verdicts /\ verdict'.kind # Stream!Running
    BY <1>1, <1>2, BoundedTextIsKept
  <1>5. AnswerTypes'
    BY <1>1, <1>4 DEF AnswerInv, AnswerTypes
  <1> QED BY <1>1, <1>3, <1>4, <1>5 DEF AnswerInv

LEMMA AnswerIdles ==
  ASSUME AnswerInv, UNCHANGED Stream!vars
  PROVE  AnswerInv'
  <1>1. UNCHANGED <<task, status, body, sent, reader, parts, clock, dueAt, source, verdict>>
    BY DEF Stream!vars
  <1>2. Stream!Received' = Stream!Received
    BY <1>1 DEF Stream!Received
  <1> QED BY <1>1, <1>2 DEF AnswerInv, AnswerTypes

LEMMA AnswerTick ==
  ASSUME AnswerConstants, AnswerInv, Stream!Tick
  PROVE  AnswerInv'
  <1>1. /\ clock' = clock + 1 /\ clock < dueAt
        /\ UNCHANGED <<task, status, body, sent, reader, parts, dueAt, source, verdict>>
    BY DEF Stream!Tick, Stream!InTime
  <1>2. Stream!Received' = Stream!Received
    BY <1>1 DEF Stream!Received
  <1>3. clock' \in Nat /\ clock' <= Total
    BY <1>1 DEF AnswerInv, AnswerTypes, AnswerConstants
  <1>4. AnswerTypes'
    BY <1>1, <1>3 DEF AnswerInv, AnswerTypes
  <1> QED BY <1>1, <1>2, <1>4 DEF AnswerInv

LEMMA AnswerNext ==
  ASSUME AnswerConstants, AnswerInv, [Stream!Next]_Stream!vars
  PROVE  AnswerInv'
  <1>1. CASE \E n \in 1 .. Len(body) : Stream!Chunk(n) \/ Stream!BoundedChunk(n)
    BY <1>1, ChunkKeeps, BoundedChunkKeeps
  <1>2. CASE Stream!EndOfStream \/ Stream!GiveUp \/ Stream!BoundedEnd
    BY <1>2, EndOfStreamKeeps, GiveUpKeeps, BoundedEndKeeps
  <1>3. CASE Stream!Tick \/ UNCHANGED Stream!vars
    BY <1>3, AnswerTick, AnswerIdles
  <1> QED BY <1>1, <1>2, <1>3 DEF Stream!Next

LEMMA AnswerImplies ==
  ASSUME AnswerInv
  PROVE  Stream!TypeOK /\ Stream!ReadSafe
  <1>1. Stream!TypeOK
    BY DEF AnswerInv, AnswerTypes, Stream!TypeOK, Readers, Results, Verdicts
  <1>2. Stream!ChunkingIsInvisible /\ Stream!CutIsNoSuccess
    BY DEF AnswerInv, Judges, Stream!ChunkingIsInvisible, Stream!CutIsNoSuccess
  <1>3. Stream!DripIsBounded
    BY DEF AnswerInv, AnswerTypes, Stream!DripIsBounded
  <1> QED BY <1>1, <1>2, <1>3 DEF Stream!ReadSafe

\* The verdict on an answer is that of the text that arrived, however it was cut: a result
\* that was sent is the result that is read, a stream that broke off is no success, a body
\* that is no stream comes back as it was sent, and no drip holds a read past its deadline
\* (request/response-handler.ts): for any bodies, statuses, limits and deadlines.
THEOREM AnswersAreReadWhole ==
  ASSUME AnswerConstants
  PROVE  Stream!Spec => [](Stream!TypeOK /\ Stream!ReadSafe)
  <1>1. Stream!Init => AnswerInv
    BY ReadsStart
  <1>2. AnswerInv /\ [Stream!Next]_Stream!vars => AnswerInv'
    BY AnswerNext
  <1>3. AnswerInv => Stream!TypeOK /\ Stream!ReadSafe
    BY AnswerImplies
  <1> QED BY <1>1, <1>2, <1>3, PTL DEF Stream!Spec

=============================================================================
