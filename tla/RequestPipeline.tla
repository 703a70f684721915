--------------------------- MODULE RequestPipeline ---------------------------
(***************************************************************************)
(* The plugin's fetch (index.ts, with lib/request/ and                     *)
(* lib/accounts/rotation.ts): a request walks the account pool until an    *)
(* account serves it, a retry budget is spent, or the pool is exhausted;   *)
(* then it may degrade the model or wait and walk the pool again.          *)
(*                                                                         *)
(* Requests run concurrently in one process and interleave wherever the    *)
(* code awaits: a token refresh, the upstream call, a backoff.  What they  *)
(* share is each account's health.  Clocks are abstracted: a block lapses, *)
(* a bucket refills and a breaker cools down at any time, and a refund may *)
(* find its 30 s window over.  A model stands for its quota key; the gate  *)
(* of an account and a model family is the circuit breaker that            *)
(* CircuitBreaker describes, seen as a Gate.                               *)
(***************************************************************************)
EXTENDS Integers, Sequences, FiniteSets, TLC

CONSTANTS
  Requests,          \* the fetches of a run, which may be concurrent
  Accounts,          \* the accounts of the pool
  Login,             \* account -> the login whose refresh token it shares
  Chain,             \* model -> its fallback targets, in order
  Family,            \* model -> its family
  FirstModel,        \* the model every fetch asks for
  Plans,             \* the configurations a process may run with
  MaxAuthFailures,   \* MAX_AUTH_FAILURES_BEFORE_REMOVAL
  MaxSwitches,       \* MAX_QUOTA_FALLBACK_SWITCHES
  MaxEmpties,        \* emptyResponseMaxRetries
  WaitUnit,          \* RETRY_WAIT_BUDGET_UNIT_MS, in the unit of waits
  TokenCap,          \* tokens of a full bucket
  MaxChanges,        \* bound: how often time or the operator changes an account
  HostStoreFails     \* the host may fail to store a refreshed login

Models == DOMAIN Chain

Families == {Family[m] : m \in Models}

Logins == {Login[a] : a \in Accounts}

BudgetClasses ==
  {"authRefresh", "network", "server", "rateLimitShort", "rateLimitGlobal", "emptyResponse"}

(***************************************************************************)
(* A plan is what loadPluginConfig yields for one process: limits of the   *)
(* retry budgets, strict is the account pool of strict mode ({} for none), *)
(* credits is spendCredits, hybrid the strategy with a last resort,        *)
(* fallback the default or configured model degradation, maxRounds bounds  *)
(* the all-limited waits (-1 for the default, no bound).                   *)
(***************************************************************************)
ASSUME PipelineAssumption ==
  /\ IsFiniteSet(Accounts) /\ Accounts # {}
  /\ Login \in [Accounts -> Logins]
  /\ FirstModel \in Models
  /\ Family \in [Models -> Families]
  /\ {MaxAuthFailures, WaitUnit, TokenCap} \subseteq Nat \ {0}
  /\ {MaxSwitches, MaxEmpties, MaxChanges} \subseteq Nat
  /\ HostStoreFails \in BOOLEAN
  /\ \A p \in Plans :
       /\ p.limits \in [BudgetClasses -> Nat]
       /\ p.strict \subseteq Accounts
       /\ {p.credits, p.hybrid, p.fallback, p.retryAll} \subseteq BOOLEAN
       /\ p.maxRounds \in Nat \cup {-1}

VARIABLES
  plan,       \* the configuration of this process
  enabled,    \* account.enabled
  blocked,    \* the blocks of each account: models, "quota", "cooling"
  tokens,     \* the proactive token buckets
  gate,       \* the circuit breakers
  failures,   \* authFailuresByRefreshToken
  ledger,     \* broke: accounts without credits; unsupported: accounts without a model
  req,        \* the fetches
  changes,    \* how often time or the operator has changed an account
  evidence    \* history: what the provider said since the last proof of a login

vars ==
  <<plan, enabled, blocked, tokens, gate, failures, ledger, req, changes, evidence>>

\* What a breaker promises, an operator at a time.
OneGate == INSTANCE Gate WITH gate <- "closed"

health == <<enabled, blocked, tokens, gate, failures, ledger>>

Idle(answer) ==
  [stage |-> "idle", account |-> CHOOSE a \in Accounts : TRUE, model |-> FirstModel,
   attempted |-> {}, tried |-> {FirstModel}, used |-> [c \in BudgetClasses |-> 0],
   carry |-> 0, empties |-> 0, rounds |-> 0, switches |-> 0, paid |-> FALSE,
   answer |-> answer]

\* The stored accounts may be loaded with their plan quota spent.
Init ==
  /\ plan \in Plans
  /\ enabled = [a \in Accounts |-> TRUE]
  /\ blocked \in [Accounts -> {{}, {"quota"}}]
  /\ tokens = [a \in Accounts |-> [m \in Models |-> TokenCap]]
  /\ gate = [a \in Accounts |-> [f \in Families |-> "closed"]]
  /\ failures = [l \in Logins |-> 0]
  /\ ledger = [broke |-> {}, unsupported |-> {}]
  /\ req = [r \in Requests |-> Idle("none")]
  /\ changes = 0
  /\ evidence = [refusals |-> [l \in Logins |-> 0], deactivated |-> {}]

(***************************************************************************)
(* A request's record, updated field by field.                             *)
(***************************************************************************)
At(r, stage) == req[r].stage = stage

Updated(record, fields) ==
  [f \in DOMAIN record |-> IF f \in DOMAIN fields THEN fields[f] ELSE record[f]]

Set(r, fields) == req' = [req EXCEPT ![r] = Updated(@, fields)]

Answer(r, answer) == req' = [req EXCEPT ![r] = Idle(answer)]

Rotate(r) == Set(r, [stage |-> "select"])

Account(r) == req[r].account

Model(r) == req[r].model

\* The circuit breaker of its account and family.
Breaker(r) == gate[Account(r)][Family[Model(r)]]

BreakerIs(r, g) == gate' = [gate EXCEPT ![Account(r)][Family[Model(r)]] = g]

(***************************************************************************)
(* Retry budgets.                                                          *)
(***************************************************************************)
Remaining(r, class) == plan.limits[class] - req[r].used[class]

CanSpend(r, class) == Remaining(r, class) > 0

Spent(r, class) == [req[r].used EXCEPT ![class] = @ + 1]

\* Mutant: a wait shorter than the unit is never charged.
ChargeLongWaitsOnly(r, w) ==
  [stage |-> "waiting", carry |-> 0,
   used  |-> IF w >= WaitUnit THEN Spent(r, "rateLimitGlobal") ELSE req[r].used]

\* consumeWait: a wait of a unit or more costs one; shorter waits add up to one.
ChargeWait(r, w) ==
  LET carried == req[r].carry + w
      paid == Spent(r, "rateLimitGlobal")
  IN IF w >= WaitUnit
       THEN [stage |-> "waiting", used |-> paid, carry |-> req[r].carry]
     ELSE IF carried < WaitUnit
       THEN [stage |-> "waiting", used |-> req[r].used, carry |-> carried]
     ELSE [stage |-> "waiting", used |-> paid, carry |-> carried - WaitUnit]

(***************************************************************************)
(* The pool, as selection sees it.                                         *)
(***************************************************************************)
Blocks(a, m) == blocked[a] \cap {m, "quota", "cooling"}

Eligible(a, m) == enabled[a] /\ Blocks(a, m) = {} /\ tokens[a][m] > 0

InPool(a) == plan.strict # {} => a \in plan.strict

Candidates(r) == {a \in Accounts \ req[r].attempted : InPool(a) /\ Eligible(a, Model(r))}

\* hasPlanQuota: at most delayed.  It looks for the reason "disabled", which the
\* accounts the plugin itself disabled do not give ("disabled:auth-failures").
HasPlanQuota(a, m) == Blocks(a, m) \cap {"quota", "cooling"} = {}

\* planCreditsFallback: no pool member has plan quota, and a spent window is the
\* only thing that holds this account back.
OnCredits(r) ==
  LET m == Model(r)
  IN IF \/ ~plan.credits
        \/ \E a \in Accounts : InPool(a) /\ <<a, m>> \notin ledger.unsupported /\ HasPlanQuota(a, m)
       THEN {}
       ELSE {a \in Accounts \ req[r].attempted :
               /\ InPool(a) /\ enabled[a] /\ tokens[a][m] > 0
               /\ Blocks(a, m) = {"quota"}
               /\ a \notin ledger.broke /\ <<a, m>> \notin ledger.unsupported}

(***************************************************************************)
(* What a verdict does to the health of an account.                        *)
(***************************************************************************)
Refund(a, m) ==
  \E back \in {tokens[a][m], tokens[a][m] + 1} :
    tokens' = [tokens EXCEPT ![a][m] = IF back > TokenCap THEN TokenCap ELSE back]

Group(a) == {b \in Accounts : Login[b] = Login[a]}

CoolDown(as) ==
  blocked' = [a \in Accounts |-> IF a \in as THEN blocked[a] \cup {"cooling"} ELSE blocked[a]]

Disable(as) == enabled' = [a \in Accounts |-> enabled[a] /\ a \notin as]

\* The provider refused the login of account a (or will be taken to have).
Refused(a) ==
  evidence' = [evidence EXCEPT !.refusals[Login[a]] = IF @ < MaxAuthFailures THEN @ + 1 ELSE @]

Proved(a) == evidence' = [evidence EXCEPT !.refusals[Login[a]] = 0]

\* incrementAuthFailures and what follows it: past the limit the refresh-token
\* group is disabled, below it, or when it was disabled already, it cools down.
CountAuthFailure(a) ==
  LET count == IF failures[Login[a]] < MaxAuthFailures THEN failures[Login[a]] + 1
               ELSE MaxAuthFailures
      last == count = MaxAuthFailures /\ \E b \in Group(a) : enabled[b]
  IN /\ failures' = [failures EXCEPT ![Login[a]] = count]
     /\ IF last THEN Disable(Group(a)) /\ UNCHANGED blocked
                ELSE CoolDown(Group(a)) /\ UNCHANGED enabled

ClearAuthFailures(a) == failures' = [failures EXCEPT ![Login[a]] = 0]

RecordFailure(r) == \E g \in OneGate!AfterFailure(Breaker(r)) : BreakerIs(r, g)

(***************************************************************************)
(* A fetch begins, and selection chooses its next account.                 *)
(***************************************************************************)
Start(r) ==
  /\ At(r, "idle") /\ req[r].answer = "none"
  /\ Set(r, [stage |-> "select"])
  /\ UNCHANGED <<plan, health, changes, evidence>>

MoreToTry(r) == Cardinality(req[r].attempted) < Cardinality(Accounts)

Take(r, a, onCredits) ==
  Set(r, [stage |-> "auth", account |-> a, paid |-> onCredits,
          attempted |-> req[r].attempted \cup {a}])

Select(r) ==
  /\ At(r, "select") /\ MoreToTry(r)
  /\ \E a \in Candidates(r) : Take(r, a, FALSE)
  /\ UNCHANGED <<plan, health, changes, evidence>>

\* pickCreditsAccount: a balance that is not known is read first and may be zero.
SelectOnCredits(r) ==
  /\ At(r, "select") /\ MoreToTry(r) /\ Candidates(r) = {}
  /\ \E a \in OnCredits(r) :
       \/ Take(r, a, TRUE) /\ UNCHANGED ledger
       \/ ledger' = [ledger EXCEPT !.broke = @ \cup {a}] /\ UNCHANGED req
  /\ UNCHANGED <<plan, enabled, blocked, tokens, gate, failures, changes, evidence>>

\* The hybrid strategy's last resort is an account that is not eligible; the
\* request loop discards it.
LastResorts(r) ==
  IF plan.hybrid THEN {a \in Accounts \ req[r].attempted : InPool(a) /\ enabled[a]} ELSE {}

SkipLastResort(r) ==
  /\ At(r, "select") /\ MoreToTry(r) /\ Candidates(r) \cup OnCredits(r) = {}
  /\ \E a \in LastResorts(r) : Set(r, [attempted |-> req[r].attempted \cup {a}])
  /\ UNCHANGED <<plan, health, changes, evidence>>

(***************************************************************************)
(* The account's access token is refreshed when it is about to expire.     *)
(***************************************************************************)
TokenFresh(r) ==
  /\ At(r, "auth")
  /\ Set(r, [stage |-> "send"])
  /\ UNCHANGED <<plan, health, changes, evidence>>

TokenRefreshed(r) ==
  /\ At(r, "auth")
  /\ ClearAuthFailures(Account(r)) /\ Proved(Account(r))
  /\ Set(r, [stage |-> "send"])
  /\ UNCHANGED <<plan, enabled, blocked, tokens, gate, ledger, changes>>

\* An account that yields no accountId cannot be routed.
Unroutable(r) ==
  /\ At(r, "auth")
  /\ CoolDown({Account(r)})
  /\ Rotate(r)
  /\ UNCHANGED <<plan, enabled, tokens, gate, failures, ledger, changes, evidence>>

RefreshBudgetSpent(r) ==
  /\ At(r, "auth") /\ ~CanSpend(r, "authRefresh")
  /\ Answer(r, "budget")
  /\ UNCHANGED <<plan, health, changes, evidence>>

SpendRefresh(r) ==
  /\ At(r, "auth") /\ CanSpend(r, "authRefresh")
  /\ Set(r, [stage |-> "select", used |-> Spent(r, "authRefresh")])

\* Mutant: a transient failure counts like a rejection.
RefreshUnavailableCounted(r) ==
  /\ SpendRefresh(r)
  /\ CountAuthFailure(Account(r))
  /\ UNCHANGED <<plan, tokens, gate, ledger, changes, evidence>>

\* The store is unavailable, or the provider does not answer: no verdict.
RefreshUnavailable(r) ==
  /\ SpendRefresh(r)
  /\ CoolDown(Group(Account(r)))
  /\ UNCHANGED <<plan, enabled, tokens, gate, failures, ledger, changes, evidence>>

RefreshRejected(r) ==
  /\ SpendRefresh(r)
  /\ CountAuthFailure(Account(r)) /\ Refused(Account(r))
  /\ UNCHANGED <<plan, tokens, gate, ledger, changes>>

\* The provider rotated the token and the store has it, but the host's auth.set
\* fails: the same handler counts it.
HostRefusesLogin(r) ==
  /\ HostStoreFails
  /\ SpendRefresh(r)
  /\ CountAuthFailure(Account(r)) /\ Proved(Account(r))
  /\ UNCHANGED <<plan, tokens, gate, ledger, changes>>

(***************************************************************************)
(* The request goes out: a token of the bucket, then the circuit breaker.  *)
(***************************************************************************)
\* Mutant: a depleted bucket ends the traversal, whatever other accounts hold.
DepletedGivesUp(r) ==
  /\ At(r, "send") /\ tokens[Account(r)][Model(r)] = 0
  /\ Answer(r, "pool")
  /\ UNCHANGED <<plan, health, changes, evidence>>

\* The bucket was emptied by other requests since the selection.
Depleted(r) ==
  /\ At(r, "send") /\ tokens[Account(r)][Model(r)] = 0
  /\ Rotate(r)
  /\ UNCHANGED <<plan, health, changes, evidence>>

PassGate(r) ==
  /\ OneGate!Admits(Breaker(r))
  /\ BreakerIs(r, OneGate!AfterAdmission(Breaker(r)))
  /\ Set(r, [stage |-> "sent"])

Send(r) ==
  /\ At(r, "send") /\ tokens[Account(r)][Model(r)] > 0
  /\ \/ /\ PassGate(r)
        /\ tokens' = [tokens EXCEPT ![Account(r)][Model(r)] = @ - 1]
     \/ /\ ~OneGate!Admits(Breaker(r))
        /\ Rotate(r)
        /\ UNCHANGED <<gate, tokens>>
  /\ UNCHANGED <<plan, enabled, blocked, failures, ledger, changes, evidence>>

\* A short backoff ended: the same account again, on the token it already holds,
\* but past the breaker once more.
Reissue(r) ==
  /\ At(r, "retry")
  /\ \/ PassGate(r) /\ UNCHANGED tokens
     \/ /\ ~OneGate!Admits(Breaker(r))
        /\ Refund(Account(r), Model(r))
        /\ Rotate(r)
        /\ UNCHANGED gate
  /\ UNCHANGED <<plan, enabled, blocked, failures, ledger, changes, evidence>>

(***************************************************************************)
(* What comes back.                                                        *)
(***************************************************************************)
\* The caller gave up; in a backoff no token is returned.
Aborted(r) ==
  /\ \/ At(r, "sent") /\ Refund(Account(r), Model(r))
     \/ (At(r, "retry") \/ At(r, "waiting")) /\ UNCHANGED tokens
  /\ Answer(r, "aborted")
  /\ UNCHANGED <<plan, enabled, blocked, gate, failures, ledger, changes, evidence>>

\* A spent network budget answers at once, and the breaker hears nothing.
NetworkError(r) ==
  /\ At(r, "sent")
  /\ Refund(Account(r), Model(r))
  /\ IF CanSpend(r, "network")
       THEN /\ RecordFailure(r)
            /\ Set(r, [stage |-> "select", used |-> Spent(r, "network")])
       ELSE Answer(r, "budget") /\ UNCHANGED gate
  /\ UNCHANGED <<plan, enabled, blocked, failures, ledger, changes, evidence>>

\* A redirect, which is refunded, a context overflow, an error of the request's
\* own, or a success whose body is an error: the answer is the caller's.
Returned(r) ==
  /\ At(r, "sent")
  /\ Refund(Account(r), Model(r)) \/ UNCHANGED tokens
  /\ Answer(r, "error")
  /\ UNCHANGED <<plan, enabled, blocked, gate, failures, ledger, changes, evidence>>

\* The workspace is disabled and the traversal starts again; one that is disabled
\* already cools down.  (Accounts name their members: no two share a workspace identity.
\* The flagged store is not modelled here.)
Deactivated(r) ==
  LET a == Account(r)
  IN /\ At(r, "sent")
     /\ Refund(a, Model(r))
     /\ evidence' = [evidence EXCEPT !.deactivated = @ \cup {a}]
     /\ IF enabled[a]
          THEN Disable({a}) /\ Set(r, [stage |-> "select", attempted |-> {}]) /\ UNCHANGED blocked
          ELSE CoolDown({a}) /\ Rotate(r) /\ UNCHANGED enabled
     /\ UNCHANGED <<plan, gate, failures, ledger, changes>>

(***************************************************************************)
(* pickFallbackChainTarget and applyModelFallback.                         *)
(***************************************************************************)
Targets(r) ==
  LET chain == Chain[Model(r)]
  IN {i \in DOMAIN chain : chain[i] \notin req[r].tried \cup {Model(r)}}

FirstTarget(r, is) == Chain[Model(r)][CHOOSE i \in is : \A j \in is : i <= j]

Degrade(r, m, switches) ==
  Set(r, [stage |-> "select", model |-> m, attempted |-> {}, switches |-> switches,
          tried |-> req[r].tried \cup {Model(r), m}])

\* The account is not entitled to the model: the others are tried before the
\* model is degraded.
Unsupported(r) ==
  /\ At(r, "sent")
  /\ ledger' = [ledger EXCEPT !.unsupported = @ \cup {<<Account(r), Model(r)>>}]
  /\ \/ MoreToTry(r) /\ Rotate(r) /\ Refund(Account(r), Model(r))
     \/ /\ ~MoreToTry(r) /\ plan.fallback /\ Targets(r) # {}
        /\ Degrade(r, FirstTarget(r, Targets(r)), req[r].switches)
        /\ Refund(Account(r), Model(r))
     \/ /\ ~MoreToTry(r) /\ (~plan.fallback \/ Targets(r) = {})
        /\ Answer(r, "error") /\ UNCHANGED tokens
  /\ UNCHANGED <<plan, enabled, blocked, gate, failures, changes, evidence>>

\* A 5xx, or an overload in the dress of a 429, which blocks the model as well.
ServerError(r) ==
  LET a == Account(r)
  IN /\ At(r, "sent")
     /\ \/ UNCHANGED blocked
        \/ blocked' = [blocked EXCEPT ![a] = @ \cup {Model(r)}]
     /\ Refund(a, Model(r)) /\ RecordFailure(r)
     /\ IF CanSpend(r, "server")
          THEN Set(r, [stage |-> "select", used |-> Spent(r, "server")])
          ELSE Answer(r, "error")
     /\ UNCHANGED <<plan, enabled, failures, ledger, changes, evidence>>

\* recordRateLimit drains the bucket.
Drain(a, m) == tokens' = [tokens EXCEPT ![a][m] = 0]

\* A 429.  spent: its headers say with authority that the window is used up;
\* turnedDown: that a paid turn was refused; short: the backoff is at most 5 s.
RateLimited(r, spent, turnedDown, short) ==
  LET a == Account(r)
      blocks == IF spent THEN {"quota"} ELSE {Model(r)}
  IN /\ At(r, "sent")
     /\ turnedDown => req[r].paid
     /\ ledger' = IF turnedDown THEN [ledger EXCEPT !.broke = @ \cup {a}] ELSE ledger
     /\ IF short /\ ~spent /\ ~turnedDown /\ CanSpend(r, "rateLimitShort")
          THEN /\ Set(r, [stage |-> "retry", used |-> Spent(r, "rateLimitShort")])
               /\ UNCHANGED <<blocked, tokens>>
          ELSE /\ blocked' = [blocked EXCEPT ![a] = @ \cup blocks]
               /\ Drain(a, Model(r))
               /\ Rotate(r)
     /\ UNCHANGED <<plan, enabled, gate, failures, changes, evidence>>

\* A 401 for the access token; it does not concern the breaker.
Invalidated(r) ==
  /\ At(r, "sent")
  /\ Refund(Account(r), Model(r))
  /\ CountAuthFailure(Account(r)) /\ Refused(Account(r))
  /\ Rotate(r)
  /\ UNCHANGED <<plan, gate, ledger, changes>>

\* The stream stalls or cannot be parsed after a 200; the server budget is
\* charged but never refuses.
StreamFailed(r) ==
  /\ At(r, "sent")
  /\ Refund(Account(r), Model(r)) /\ RecordFailure(r)
  /\ Set(r, [stage |-> "select",
             used |-> IF CanSpend(r, "server") THEN Spent(r, "server") ELSE req[r].used])
  /\ UNCHANGED <<plan, enabled, blocked, failures, ledger, changes, evidence>>

Empty(r) ==
  /\ At(r, "sent")
  /\ req[r].empties < MaxEmpties /\ CanSpend(r, "emptyResponse")
  /\ Set(r, [stage |-> "retry", empties |-> req[r].empties + 1,
             used |-> Spent(r, "emptyResponse")])
  /\ UNCHANGED <<plan, health, changes, evidence>>

\* Served, or empty once too often.  Its headers may show the window used up.
Served(r) ==
  LET a == Account(r)
  IN /\ At(r, "sent")
     /\ blocked' = blocked \/ blocked' = [blocked EXCEPT ![a] = @ \cup {"quota"}]
     /\ ClearAuthFailures(a) /\ Proved(a)
     /\ \E g \in OneGate!AfterSuccess(Breaker(r)) : BreakerIs(r, g)
     /\ Answer(r, "served")
     /\ UNCHANGED <<plan, enabled, tokens, ledger, changes>>

(***************************************************************************)
(* The pool is exhausted.                                                  *)
(***************************************************************************)
Exhausted(r) ==
  /\ At(r, "select")
  /\ MoreToTry(r) => Candidates(r) \cup OnCredits(r) \cup LastResorts(r) = {}

\* getMinWaitTimeForFamily: nobody can serve now, but somebody is enabled.
MustWait(m) ==
  /\ \A a \in Accounts : ~Eligible(a, m)
  /\ \E a \in Accounts : enabled[a]

UpstreamBlocked(m) ==
  \A a \in Accounts : enabled[a] => blocked[a] \cap {m, "quota"} # {}

Usable(r) ==
  {i \in Targets(r) : \E a \in Accounts : InPool(a) /\ Eligible(a, Chain[Model(r)][i])}

\* Degrading on quota is preferred to waiting.
CanDegrade(r) ==
  /\ plan.fallback /\ MustWait(Model(r)) /\ UpstreamBlocked(Model(r))
  /\ req[r].switches < MaxSwitches /\ Usable(r) # {}

DegradeOnQuota(r) ==
  /\ Exhausted(r) /\ plan.strict = {} /\ CanDegrade(r)
  /\ Degrade(r, FirstTarget(r, Usable(r)), req[r].switches + 1)
  /\ UNCHANGED <<plan, health, changes, evidence>>

CanWait(r) ==
  /\ plan.retryAll /\ MustWait(Model(r))
  /\ plan.maxRounds = -1 \/ req[r].rounds < plan.maxRounds
  /\ CanSpend(r, "rateLimitGlobal")

\* A wait of w units of time, if the ceiling allows it.
WaitForPool(r) ==
  /\ Exhausted(r) /\ plan.strict = {} /\ ~CanDegrade(r) /\ CanWait(r)
  /\ \E w \in 1..WaitUnit : Set(r, ChargeWait(r, w))
  /\ UNCHANGED <<plan, health, changes, evidence>>

\* The countdown ends, is cut short by a recovered account or a new manager.
Waited(r) ==
  /\ At(r, "waiting")
  /\ Set(r, [stage |-> "select", attempted |-> {},
             rounds |-> IF plan.maxRounds = -1 THEN 0 ELSE req[r].rounds + 1])
  /\ UNCHANGED <<plan, health, changes, evidence>>

\* 429, 503, or the strict pool's envelope; also when the wait is too long.
GiveUp(r) ==
  /\ Exhausted(r)
  /\ plan.strict # {} \/ ~CanDegrade(r)
  /\ Answer(r, "pool")
  /\ UNCHANGED <<plan, health, changes, evidence>>

(***************************************************************************)
(* Time, and the operator.                                                 *)
(***************************************************************************)
Change == changes < MaxChanges /\ changes' = changes + 1

Lapse(a) ==
  /\ Change
  /\ \E b \in blocked[a] : blocked' = [blocked EXCEPT ![a] = @ \ {b}]
  /\ UNCHANGED <<plan, enabled, tokens, gate, failures, ledger, req, evidence>>

Refill(a) ==
  /\ Change
  /\ \E m \in Models : tokens[a][m] < TokenCap /\ tokens' = [tokens EXCEPT ![a][m] = @ + 1]
  /\ UNCHANGED <<plan, enabled, blocked, gate, failures, ledger, req, evidence>>

Cool(a) ==
  /\ Change
  /\ \E f \in Families :
       /\ gate[a][f] # OneGate!AfterTime(gate[a][f])
       /\ gate' = [gate EXCEPT ![a][f] = OneGate!AfterTime(@)]
  /\ UNCHANGED <<plan, enabled, blocked, tokens, failures, ledger, req, evidence>>

Reenable(a) ==
  /\ Change
  /\ ~enabled[a] /\ enabled' = [enabled EXCEPT ![a] = TRUE]
  /\ UNCHANGED <<plan, blocked, tokens, gate, failures, ledger, req, evidence>>

Step(r) ==
  \/ Select(r) \/ SelectOnCredits(r) \/ SkipLastResort(r)
  \/ TokenFresh(r) \/ TokenRefreshed(r) \/ Unroutable(r) \/ RefreshBudgetSpent(r)
  \/ RefreshUnavailable(r) \/ RefreshRejected(r) \/ HostRefusesLogin(r)
  \/ Depleted(r) \/ Send(r) \/ Reissue(r)
  \/ Aborted(r) \/ NetworkError(r) \/ Returned(r) \/ Deactivated(r) \/ Unsupported(r)
  \/ ServerError(r) \/ Invalidated(r) \/ StreamFailed(r) \/ Empty(r) \/ Served(r)
  \/ \E spent, turnedDown, short \in BOOLEAN : RateLimited(r, spent, turnedDown, short)
  \/ DegradeOnQuota(r) \/ WaitForPool(r) \/ Waited(r) \/ GiveUp(r)

Next ==
  \/ \E r \in Requests : Start(r) \/ Step(r)
  \/ \E a \in Accounts : Lapse(a) \/ Refill(a) \/ Cool(a) \/ Reenable(a)

Spec == Init /\ [][Next]_vars

\* Every wait of a fetch is bounded: the fetch timeout, the stall and duration
\* limits of a stream, the countdown.  Nothing obliges a block to lapse.
FairSpec == Spec /\ \A r \in Requests : WF_vars(Step(r))

-----------------------------------------------------------------------------
TypeOK ==
  /\ plan \in Plans
  /\ enabled \in [Accounts -> BOOLEAN]
  /\ blocked \in [Accounts -> SUBSET (Models \cup {"quota", "cooling"})]
  /\ tokens \in [Accounts -> [Models -> 0..TokenCap]]
  /\ gate \in [Accounts -> [Families -> OneGate!GateStates]]
  /\ failures \in [Logins -> 0..MaxAuthFailures]
  /\ ledger \in [broke : SUBSET Accounts, unsupported : SUBSET (Accounts \X Models)]
  /\ \A r \in Requests :
       /\ req[r].stage \in {"idle", "select", "auth", "send", "sent", "retry", "waiting"}
       /\ req[r].account \in Accounts /\ req[r].model \in Models
       /\ req[r].attempted \subseteq Accounts /\ req[r].tried \subseteq Models
       /\ \A c \in BudgetClasses : req[r].used[c] \in 0..plan.limits[c]
       /\ req[r].carry \in 0..(WaitUnit - 1)
       /\ req[r].empties \in 0..MaxEmpties /\ req[r].switches \in 0..MaxSwitches
       /\ req[r].answer \in {"none", "served", "error", "budget", "pool", "aborted"}
  /\ changes \in 0..MaxChanges
  /\ evidence \in [refusals : [Logins -> 0..MaxAuthFailures], deactivated : SUBSET Accounts]

(***************************************************************************)
(* An account is switched off on its own only after the provider refused   *)
(* its login as often in a row as the limit says, whoever asked, or called *)
(* its workspace deactivated.  Requests fail concurrently and count into   *)
(* one counter that local failures must not reach.                         *)
(***************************************************************************)
AutoDisableJustified ==
  [][\A a \in Accounts :
       enabled[a] /\ ~enabled'[a] =>
         \/ evidence'.refusals[Login[a]] = MaxAuthFailures
         \/ a \in evidence'.deactivated]_vars

(***************************************************************************)
(* "All accounts are limited" or "all failed" is only said when no account *)
(* that could serve the request now was left untried, whatever other       *)
(* requests did to the buckets, blocks and breakers in the meantime.       *)
(***************************************************************************)
PoolAnswerMeansPoolTried ==
  [][\A r \in Requests :
       ~At(r, "idle") /\ req'[r].answer = "pool" => Candidates(r) = {}]_vars

(***************************************************************************)
(* Every fetch ends.  Retries, restarts after a deactivation, degradations *)
(* along a chain that may be cyclic, short waits that cost nothing: their  *)
(* budgets together leave no way to go round for ever.                     *)
(***************************************************************************)
EveryFetchEnds == \A r \in Requests : ~At(r, "idle") ~> At(r, "idle")

(***************************************************************************)
(* An empty response is retried against the same account (the comment at   *)
(* index.ts:4442); only the caller's abort may stop the retry.             *)
(***************************************************************************)
EmptyRetryReissues ==
  [][\A r \in Requests :
       At(r, "retry") /\ req'[r].stage # "retry" =>
         req'[r].stage = "sent" \/ req'[r].answer = "aborted"]_vars

(***************************************************************************)
(* With spendCredits, once no account that is enabled has plan quota left, *)
(* an account held back only by its spent window serves on its credits     *)
(* (codex-credits.ts:257): the pool is not exhausted before.               *)
(***************************************************************************)
CreditsServeASpentPool ==
  [][\A r \in Requests :
       /\ plan.credits /\ ~At(r, "idle") /\ req'[r].answer = "pool"
       /\ \A b \in Accounts :
            InPool(b) /\ enabled[b] => Blocks(b, Model(r)) \cap {"quota", "cooling"} # {}
       => \A a \in Accounts \ req[r].attempted :
            \/ ~(InPool(a) /\ enabled[a] /\ tokens[a][Model(r)] > 0)
            \/ Blocks(a, Model(r)) # {"quota"}
            \/ a \in ledger.broke \/ <<a, Model(r)>> \in ledger.unsupported]_vars
=============================================================================
