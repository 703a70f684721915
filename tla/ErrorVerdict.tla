----------------------------- MODULE ErrorVerdict -----------------------------
(***************************************************************************)
(* What the plugin makes of one account's answers: which kind of failure   *)
(* an error response is, whether its quota headers may be believed, how    *)
(* long the account is blocked and what the request does next              *)
(* (fetch-helpers.ts, quota-windows.ts, rate-limit-backoff.ts,             *)
(* accounts/rotation.ts and the handler in index.ts).                      *)
(*                                                                         *)
(* The provider's side keeps the true quota windows and may copy an old    *)
(* snapshot of them (echo) onto a failure that has nothing to do with the  *)
(* quota. Answers of requests in flight are handled in any order.          *)
(***************************************************************************)
EXTENDS Integers, FiniteSets, FiniteSetsExt

CONSTANTS
  Windows,      \* the quota windows of the account
  Length,       \* how long each lasts
  Off,          \* the windows the plan switches off (window-minutes 0)
  Causes,       \* what an answer may be about
  Retries,      \* the delays a limit may ask for, 0 for none
  Bare,         \* may an error body come without a message?
  MaxInFlight,  \* requests in flight at once
  MaxClock

VARIABLES
  clock,
  quota,      \* provider: the true [full, reset] of each window
  echo,       \* provider: an older snapshot of quota
  inFlight,   \* answers sent and not yet handled
  limited,    \* the account's rateLimitResetTimes for the family and model asked for
  exhausted,  \* its quotaExhaustedUntil
  backoff,    \* rateLimitStateByAccountQuota: [attempts, at]
  last,       \* history: the answer just handled: [cause, outcome, long]
  spentUntil  \* history: the latest reset of a spent window the provider answered for

vars == <<clock, quota, echo, inFlight, limited, exhausted, backoff, last, spentUntil>>

\* Lengths in the order of the code: 5 s, 1 min (both defaults), 5 min, 30 days.
Short == 1
DefaultDelay == 2
BackoffCap == 2
RetryCap == 3
Horizon == 8
BackoffMemory == 2

AllCauses ==
  {"served", "usage", "throttle", "overload", "plan", "deactivated",
   "unsupported", "overflow", "auth", "server", "other"}

\* The statuses under which the provider reports each of them.
Statuses ==
  [served |-> {200}, usage |-> {429, 404}, throttle |-> {429}, overload |-> {400, 429, 503},
   plan |-> {403, 404, 429}, deactivated |-> {402}, unsupported |-> {400}, overflow |-> {400},
   auth |-> {401}, server |-> {500}, other |-> {400, 403}]

-----------------------------------------------------------------------------
(* Headers *)

Window == [full : BOOLEAN, reset : Nat]

\* parseQuotaResetAtMs: a reset further than any window is no reset (0).
ResetAt(w) == IF w.reset - clock > Horizon THEN 0 ELSE w.reset

\* parseCodexQuotaWindows of an answer, the windows switched off left out.
Reported(r) == {w \in Windows \ Off : r.headers # <<>>}

\* Mutant: the soonest reset of the spent windows.
SoonestReset(r) ==
  LET resets == {ResetAt(r.headers[w]) : w \in {v \in Reported(r) : r.headers[v].full}}
      ahead == {t \in resets : t > clock}
  IN  IF ahead = {} THEN 0 ELSE Min(ahead)

\* getQuotaExhaustedResetAtMs: the latest reset of the windows that are spent.
ExhaustedReset(r) ==
  Max({0} \cup {ResetAt(r.headers[w]) :
    w \in {v \in Reported(r) : r.headers[v].full /\ ResetAt(r.headers[v]) > clock}})

-----------------------------------------------------------------------------
(* handleErrorResponse *)

\* mapUsageLimit404WithBody: a 404 about the plan is a 403, one about usage a 429.
Status(r) ==
  IF r.status # 404 THEN r.status
  ELSE IF r.cause = "plan" THEN 403 ELSE IF r.cause = "usage" THEN 429 ELSE 404

\* normalizeErrorPayload keeps an error's type and code only beside a message.
CodeKept(r) == ~r.bare

\* isServerOverloadedError of the normalised payload, and of the body as it came.
RetryAsServerError(r) == r.cause = "overload" /\ CodeKept(r)

OverloadBody(r) == r.cause = "overload"

\* isQuotaHeaderAuthority
Authoritative(r) == Status(r) = 429 /\ ~RetryAsServerError(r)

\* extractRateLimitInfoFromBody: whether the response is a rate limit at all.
RateLimited(r) ==
  /\ ~(OverloadBody(r) /\ Status(r) # 429)
  /\ r.cause # "plan"
  /\ Status(r) = 429 \/ OverloadBody(r) \/ r.cause \in {"usage", "throttle"}

\* parseRetryAfterMs
RetryAfter(r) ==
  LET spent == IF Authoritative(r) THEN ExhaustedReset(r) ELSE 0
      resets == {ResetAt(r.headers[w]) : w \in Reported(r)}
      ahead == {t - clock : t \in {u \in resets : u > clock}}
  IN  IF spent > clock THEN spent - clock
      ELSE IF r.retry > 0 THEN Min({r.retry, RetryCap})
      ELSE IF Authoritative(r) /\ ahead # {} THEN Min(ahead)
      ELSE DefaultDelay

\* isDeactivatedWorkspaceError, isInvalidatedAuthTokenError
Deactivated(r) == Status(r) = 402 /\ r.cause = "deactivated"

Invalidated(r) == Status(r) = 401

-----------------------------------------------------------------------------
(* Blocks and backoff *)

\* extendRateLimitReset, markQuotaExhausted: a block never gets shorter.
Extended(block, until) == Max({block, until})

\* recordQuotaHeaders: it says whether a window is spent, whatever it wrote.
QuotaBlock(r) == Extended(exhausted, ExhaustedReset(r))

\* getRateLimitBackoff: an answer of the same moment does not count again.
Attempts ==
  IF backoff.attempts = 0 \/ clock - backoff.at >= BackoffMemory THEN 1
  ELSE IF clock = backoff.at THEN backoff.attempts
  ELSE backoff.attempts + 1

\* The delays a quarter of jitter allows, the server's own as their floor.
Delays(base) ==
  LET plain == Min({base * (2 ^ (Attempts - 1)), BackoffCap})
  IN  {Max({1, base, Min({d, BackoffCap})}) : d \in (3 * plain) \div 4 .. (5 * plain) \div 4}

-----------------------------------------------------------------------------
(* The provider *)

\* The windows of an account that begins; w ends Length[w] later.
Fresh == [w \in Windows |-> [full |-> FALSE, reset |-> Length[w]]]

Idle == [cause |-> "served", outcome |-> "return", long |-> FALSE]

Init ==
  /\ clock = 0 /\ quota = Fresh /\ echo = Fresh
  /\ inFlight = {} /\ limited = 0 /\ exhausted = 0
  /\ backoff = [attempts |-> 0, at |-> 0]
  /\ last = Idle /\ spentUntil = 0

plugin == <<limited, exhausted, backoff>>

ForgetLast == last' = Idle

\* A window that ends begins anew.
Tick ==
  /\ clock < MaxClock
  /\ clock' = clock + 1
  /\ quota' = [w \in Windows |->
                 IF quota[w].reset > clock + 1 THEN quota[w]
                 ELSE [full |-> FALSE, reset |-> clock + 1 + Length[w]]]
  /\ spentUntil' = IF spentUntil > clock + 1 THEN spentUntil ELSE 0
  /\ ForgetLast
  /\ UNCHANGED <<echo, inFlight, plugin>>

Spend(w) ==
  /\ ~quota[w].full
  /\ quota' = [quota EXCEPT ![w].full = TRUE]
  /\ ForgetLast
  /\ UNCHANGED <<clock, echo, inFlight, spentUntil, plugin>>

\* A reset credit is redeemed, or the plan changes: every window begins anew.
Lift ==
  /\ \E w \in Windows : quota[w].full
  /\ quota' = [w \in Windows |-> [full |-> FALSE, reset |-> clock + Length[w]]]
  /\ ForgetLast
  /\ UNCHANGED <<clock, echo, inFlight, spentUntil, plugin>>

\* Some cache before the provider keeps a copy of headers that show a spent window.
Copy ==
  /\ echo # quota
  /\ \E w \in Windows : quota[w].full
  /\ echo' = quota
  /\ ForgetLast
  /\ UNCHANGED <<clock, quota, inFlight, spentUntil, plugin>>

\* The provider weighs a request against the quota and answers for it.
Weighed == {"served", "usage", "throttle"}

MayAnswer(cause) ==
  CASE cause = "usage" -> \E w \in Windows \ Off : quota[w].full
    [] cause = "served" -> \A w \in Windows \ Off : ~quota[w].full
    [] OTHER -> TRUE

Answer(cause, status, retry, bare) ==
  /\ Cardinality(inFlight) < MaxInFlight
  /\ MayAnswer(cause)
  /\ cause \in Weighed => ~bare
  /\ status \notin {429, 503} => retry = 0
  /\ \E headers \in IF cause \in Weighed THEN {quota} ELSE {<<>>, echo} :
       inFlight' = inFlight \cup
         {[cause |-> cause, status |-> status, retry |-> retry, bare |-> bare, headers |-> headers]}
  /\ ForgetLast
  /\ UNCHANGED <<clock, quota, echo, spentUntil, plugin>>

-----------------------------------------------------------------------------
(* The plugin *)

\* A block of the answer outlasts the cap on a delay the server asks for.
Long(block, old) == block > old /\ block > clock + RetryCap

\* When the last spent window of the provider's own headers resets.
TrueReset(h) ==
  Max({0} \cup {h[w].reset : w \in {v \in Windows \ Off : h[v].full /\ h[v].reset > clock}})

Done(r, outcome) ==
  /\ inFlight' = inFlight \ {r}
  /\ last' = [cause |-> r.cause, outcome |-> outcome,
              long |-> Long(exhausted', exhausted) \/ Long(limited', limited)]
  /\ spentUntil' = IF r.cause \in Weighed THEN Max({spentUntil, TrueReset(r.headers)}) ELSE spentUntil
  /\ UNCHANGED <<clock, quota, echo>>

\* A served request may have spent the window: its headers are believed.
HandleServed(r) ==
  /\ r.status = 200
  /\ exhausted' = QuotaBlock(r)
  /\ backoff' = [attempts |-> 0, at |-> 0]
  /\ UNCHANGED limited
  /\ Done(r, "return")

\* handleContextOverflow answers for the provider before anything is recorded.
HandleOverflow(r) ==
  /\ r.cause = "overflow"
  /\ UNCHANGED <<limited, exhausted, backoff>>
  /\ Done(r, "notice")

\* quotaHeadersAuthoritative: a believed error that is a rate limit too.
Believed(r) == Authoritative(r) /\ RateLimited(r)

QuotaExhausted(r) == Believed(r) /\ ExhaustedReset(r) > clock

\* The errors the handler settles before it asks about limits.
Settled(r) == Deactivated(r) \/ r.cause = "unsupported"

RecordError(r) == exhausted' = IF Believed(r) THEN QuotaBlock(r) ELSE exhausted

HandleSettled(r) ==
  /\ Settled(r)
  /\ RecordError(r)
  /\ UNCHANGED <<limited, backoff>>
  /\ Done(r, IF Deactivated(r) THEN "disable" ELSE "model")

ServerFault(r) == RetryAsServerError(r) \/ Status(r) >= 500

\* An overload rotates; it blocks the account when it came as a limit.
HandleServerFault(r) ==
  /\ ~Settled(r) /\ ServerFault(r)
  /\ RecordError(r)
  /\ limited' = IF RetryAsServerError(r) /\ RateLimited(r)
                THEN Extended(limited, clock + RetryAfter(r)) ELSE limited
  /\ UNCHANGED backoff
  /\ Done(r, "server")

\* A short limit is waited out on the same account while the budget allows it.
HandleLimit(r) ==
  /\ ~Settled(r) /\ ~ServerFault(r) /\ RateLimited(r)
  /\ RecordError(r)
  /\ backoff' = [attempts |-> Attempts, at |-> clock]
  /\ \E delay \in Delays(RetryAfter(r)) :
       \/ /\ ~QuotaExhausted(r) /\ delay <= Short
          /\ UNCHANGED limited
          /\ Done(r, "retry")
       \/ /\ limited' = IF QuotaExhausted(r) THEN limited ELSE Extended(limited, clock + delay)
          /\ Done(r, "rotate")

HandleRefusal(r) ==
  /\ ~Settled(r) /\ ~ServerFault(r) /\ ~RateLimited(r) /\ r.cause # "overflow"
  /\ RecordError(r)
  /\ UNCHANGED <<limited, backoff>>
  /\ Done(r, IF Invalidated(r) THEN "cool" ELSE "return")

HandleError(r) ==
  /\ r.status # 200
  /\ r.cause # "overflow"
  /\ HandleSettled(r) \/ HandleServerFault(r) \/ HandleLimit(r) \/ HandleRefusal(r)

\* clearExpiredRateLimits, clearExpiredQuotaExhaustion on a selection.
Lapse ==
  /\ limited \in 1 .. clock \/ exhausted \in 1 .. clock
  /\ limited' = IF limited <= clock THEN 0 ELSE limited
  /\ exhausted' = IF exhausted <= clock THEN 0 ELSE exhausted
  /\ ForgetLast
  /\ UNCHANGED <<clock, quota, echo, inFlight, backoff, spentUntil>>

Next ==
  \/ Tick \/ Lift \/ Copy \/ Lapse
  \/ \E w \in Windows : Spend(w)
  \/ \E cause \in Causes : \E status \in Statuses[cause] :
       \E retry \in Retries : \E bare \in {FALSE, Bare} :
         Answer(cause, status, retry, bare)
  \/ \E r \in inFlight : HandleServed(r) \/ HandleOverflow(r) \/ HandleError(r)

Spec == Init /\ [][Next]_vars

-----------------------------------------------------------------------------
(* Properties *)

Outcomes == {"return", "notice", "disable", "model", "server", "retry", "rotate", "cool"}

TypeOK ==
  /\ clock \in 0 .. MaxClock
  /\ quota \in [Windows -> Window] /\ echo \in [Windows -> Window]
  /\ limited \in Nat /\ exhausted \in Nat /\ spentUntil \in Nat
  /\ backoff \in [attempts : Nat, at : Nat]
  /\ last \in [cause : AllCauses, outcome : Outcomes, long : BOOLEAN]

\* A block that outlasts the cap on a server's delay comes from an answer about
\* the quota, never from the headers a failure merely echoed.
LongBlocksAreReal == last.long => last.cause \in Weighed

\* An account the provider called spent stays out until the last of its
\* spent windows resets, whatever answers are handled before or after.
SpentStaysBlocked == spentUntil > clock => exhausted >= spentUntil

\* Waiting is the answer to limits alone: a plan that lacks the model, a dead
\* token, a closed workspace and a full context each get their own.
VerdictFits ==
  LET cause == last.cause  outcome == last.outcome
  IN  /\ cause \in {"served", "plan", "other"} => outcome = "return"
      /\ cause \in {"usage", "throttle"} => outcome \in {"retry", "rotate"}
      /\ cause \in {"overload", "server"} => outcome = "server"
      /\ cause = "auth" => outcome = "cool"
      /\ cause = "deactivated" => outcome = "disable"

VerdictSafe == LongBlocksAreReal /\ SpentStaysBlocked /\ VerdictFits
=============================================================================
