----------------------------- MODULE QuotaGuard -----------------------------
(***************************************************************************)
(* The block that keeps an account of spent quota out of rotation: what    *)
(* the processes that share the accounts file do with one account's usage  *)
(* (quota-notifications.ts, codex-usage.ts, codex-reset.ts, the tools      *)
(* codex-limits and codex-reset, and the recovery of a warmed account).    *)
(*                                                                         *)
(* A job loads the account, reads its usage from the backend and writes    *)
(* what it concludes in a transaction of its own.  Between those three the *)
(* quota is spent, reset or bought back, and other jobs write.             *)
(***************************************************************************)
EXTENDS Naturals, FiniteSets, FiniteSetsExt, Functions

CONSTANTS
  Monitors,  \* quota monitors, one per process
  Commands,  \* tools a user runs: each "limits", "reset" or "warm"
  Windows,   \* the quota windows, of which "week" is the one credits are spent on
  Credits,   \* banked resets
  Protect,   \* autoProtectCredits
  Redeem,    \* autoRedeemResets
  Week,      \* AUTO_REDEEM_WEEKLY_COOLDOWN_MS
  MaxClock   \* bound

VARIABLES
  clock,
  backend,  \* [until: window -> when it resets, once it was spent; renewed: the
            \* windows bought back since; banked: the credits left]
  record,   \* the stored account: [until, stamp, claimed]
  jobs,     \* job -> [kind, phase, loaded, read, credit]
  tried,    \* monitor -> autoRedeemAttemptedCreditIds
  bought,   \* history: automatic redemptions since the week was last spent
  evidence  \* history: the reset of the spent quota that was last written down

vars == <<clock, backend, record, jobs, tried, bought, evidence>>

Jobs == Monitors \cup Commands

Unblocked == [until |-> 0, stamp |-> 0]

NoJob == [kind |-> "none", phase |-> "idle", loaded |-> Unblocked, read |-> 0, credit |-> {}]

Init ==
  /\ clock = 1
  /\ backend = [until |-> [w \in Windows |-> 0], renewed |-> {}, banked |-> Credits]
  /\ record = [until |-> 0, stamp |-> 0, claimed |-> 0]
  /\ jobs = [j \in Jobs |-> NoJob]
  /\ tried = [m \in Monitors |-> {}]
  /\ bought = 0 /\ evidence = 0

-----------------------------------------------------------------------------
\* getUsageQuotaExhaustedResetAtMs: the latest reset of a spent window, 0 when none is.
Spent(w) == backend.until[w] > clock /\ w \notin backend.renewed

SpentUntil == Max({0} \cup {backend.until[w] : w \in {v \in Windows : Spent(v)}})

Goes(j, phase) == jobs' = [jobs EXCEPT ![j].phase = phase]

Ends(j) == jobs' = [jobs EXCEPT ![j] = NoJob]

\* persistUsageQuotaRecovery, clearUnchangedRecoveryState: a block that is not
\* the one the job loaded is left alone.
ClearIfUnchanged(j) ==
  IF jobs[j].loaded = [until |-> record.until, stamp |-> record.stamp]
    THEN [record EXCEPT !.until = 0, !.stamp = 0] ELSE record

\* persistUsageQuotaExhaustion, markQuotaExhausted: the longer block stays.
Stamp(until) ==
  IF until > clock /\ until > record.until
    THEN [record EXCEPT !.until = until, !.stamp = clock] ELSE record

Witness(until) == evidence' = IF until > clock THEN until ELSE evidence

(***************************************************************************)
(* The backend, and requests, whose responses carry the same windows.      *)
(***************************************************************************)
Tick ==
  /\ clock < MaxClock
  /\ clock' = clock + 1
  /\ UNCHANGED <<backend, record, jobs, tried, bought, evidence>>

\* A window that is spent again resets later than it did before, no two at once.
Deplete(w) ==
  /\ ~Spent(w)
  /\ \E until \in clock + 1 .. MaxClock + 1 :
       /\ until > backend.until[w] /\ until \notin Range(backend.until)
       /\ backend' = [backend EXCEPT !.until[w] = until, !.renewed = @ \ {w}]
  /\ bought' = IF w = "week" THEN 0 ELSE bought
  /\ UNCHANGED <<clock, record, jobs, tried, evidence>>

Request ==
  /\ SpentUntil > 0
  /\ record' = Stamp(SpentUntil)
  /\ Witness(SpentUntil)
  /\ UNCHANGED <<clock, backend, jobs, tried, bought>>

\* The backend spends a credit: every window is new.
Redeemed(c) ==
  IF c \in backend.banked
    THEN [backend EXCEPT !.renewed = Windows, !.banked = @ \ {c}] ELSE backend

(***************************************************************************)
(* A job.                                                                  *)
(***************************************************************************)
Start(j, kind) ==
  /\ jobs[j].phase = "idle"
  /\ (kind = "monitor") = (j \in Monitors)
  /\ jobs' = [jobs EXCEPT ![j] = [NoJob EXCEPT !.kind = kind,
                 !.phase = IF kind = "reset" THEN "listing" ELSE "reading",
                 !.loaded = [until |-> record.until, stamp |-> record.stamp]]]
  /\ UNCHANGED <<clock, backend, record, tried, bought, evidence>>

\* An unattended job redeems when the week is spent: autoRedeemResetsBelowPercent is 0.
Read(j) ==
  /\ jobs[j].phase \in {"reading", "rereading"}
  /\ jobs' = [jobs EXCEPT ![j].read = SpentUntil,
                          ![j].phase = IF @ = "reading" /\ jobs[j].kind = "monitor" /\ Redeem
                                            /\ Spent("week") /\ backend.banked # {}
                                         THEN "listing" ELSE "judging"]
  /\ UNCHANGED <<clock, backend, record, tried, bought, evidence>>

\* A read that fails ends the job; a failing redemption is reported to the user.
Fail(j) ==
  /\ jobs[j].phase \in {"reading", "rereading"} \/ (jobs[j].kind = "reset" /\ jobs[j].phase = "listing")
  /\ Ends(j)
  /\ UNCHANGED <<clock, backend, record, tried, bought, evidence>>

\* selectRedeemableCredit: the first one that is available.
List(j) ==
  LET listed == IF backend.banked = {} THEN {} ELSE {CHOOSE c \in backend.banked : TRUE}
      usable == IF j \in Monitors THEN listed \ tried[j] ELSE listed
  IN /\ jobs[j].phase = "listing"
     /\ IF usable # {}
          THEN jobs' = [jobs EXCEPT ![j].credit = usable,
                                    ![j].phase = IF j \in Monitors THEN "claiming" ELSE "posting"]
          ELSE IF j \in Monitors THEN Goes(j, "judging") ELSE Ends(j)
     /\ UNCHANGED <<clock, backend, record, tried, bought, evidence>>

ListFails(j) ==
  /\ j \in Monitors /\ jobs[j].phase \in {"listing", "claiming"}
  /\ Goes(j, "judging")
  /\ UNCHANGED <<clock, backend, record, tried, bought, evidence>>

\* persistAutoRedeemWeeklyClaim: one attempt a week, whoever makes it.
Claim(j) ==
  /\ jobs[j].phase = "claiming"
  /\ IF record.claimed # 0 /\ clock - record.claimed < Week
       THEN Goes(j, "judging") /\ UNCHANGED <<record, tried>>
       ELSE /\ Goes(j, "posting")
            /\ record' = [record EXCEPT !.claimed = clock]
            /\ tried' = [tried EXCEPT ![j] = @ \cup jobs[j].credit]
  /\ UNCHANGED <<clock, backend, bought, evidence>>

\* consumeCodexResetCredit.  The answer may be an error although the credit is spent.
Post(j) ==
  LET c == CHOOSE c \in jobs[j].credit : TRUE
  IN /\ jobs[j].phase = "posting"
     /\ \E reached, answered \in BOOLEAN :
          /\ answered => reached
          /\ backend' = IF reached THEN Redeemed(c) ELSE backend
          /\ bought' = IF reached /\ c \in backend.banked /\ j \in Monitors THEN bought + 1 ELSE bought
          /\ IF answered THEN Goes(j, "clearing")
             ELSE IF j \in Monitors THEN Goes(j, "judging") ELSE Ends(j)
     /\ UNCHANGED <<clock, record, tried, evidence>>

\* After a redemption; codex-reset ends with it.
Clear(j) ==
  /\ jobs[j].phase = "clearing"
  /\ record' = ClearIfUnchanged(j)
  /\ IF j \in Monitors THEN Goes(j, "rereading") ELSE Ends(j)
  /\ UNCHANGED <<clock, backend, tried, bought, evidence>>

\* Mutant: recovery is part of the protection of credits.
JudgeProtected(j) ==
  LET read == jobs[j].read
      blocks == jobs[j].kind = "limits" \/ (jobs[j].kind = "monitor" /\ Protect)
  IN /\ jobs[j].phase = "judging"
     /\ IF ~blocks THEN UNCHANGED <<record, evidence>>
        ELSE IF read > clock THEN record' = Stamp(read) /\ Witness(read)
        ELSE /\ record' = IF read = 0 THEN ClearIfUnchanged(j) ELSE record
             /\ UNCHANGED evidence
     /\ Ends(j)
     /\ UNCHANGED <<clock, backend, tried, bought>>

\* What the usage says is written down.
Judge(j) ==
  LET read == jobs[j].read
      kind == jobs[j].kind
      blocks == kind = "limits" \/ (kind = "monitor" /\ Protect)
  IN /\ jobs[j].phase = "judging"
     /\ IF read > clock /\ blocks
          THEN record' = Stamp(read) /\ Witness(read)
          ELSE /\ record' = IF read = 0 THEN ClearIfUnchanged(j) ELSE record
               /\ UNCHANGED evidence
     /\ Ends(j)
     /\ UNCHANGED <<clock, backend, tried, bought>>

Kinds == {"monitor", "limits", "reset", "warm"}

Step(j) == Read(j) \/ List(j) \/ ListFails(j) \/ Claim(j) \/ Post(j) \/ Clear(j) \/ Judge(j)

Next ==
  \/ Tick \/ Request \/ \E w \in Windows : Deplete(w)
  \/ \E j \in Jobs : Step(j) \/ Fail(j) \/ \E kind \in Kinds : Start(j, kind)

\* Monitors poll on a timer, and the backend does not refuse them for ever.
Fairness ==
  \A m \in Monitors : WF_vars(Start(m, "monitor")) /\ WF_vars(Step(m)) /\ SF_vars(Read(m))

Spec == Init /\ [][Next]_vars /\ Fairness

-----------------------------------------------------------------------------
TypeOK ==
  /\ clock \in 1..MaxClock /\ bought \in Nat /\ evidence \in 0..MaxClock + 1
  /\ backend \in [until : [Windows -> 0..MaxClock + 1], renewed : SUBSET Windows, banked : SUBSET Credits]
  /\ record \in [until : 0..MaxClock + 1, stamp : 0..MaxClock, claimed : 0..MaxClock]
  /\ tried \in [Monitors -> SUBSET Credits]
  /\ \A j \in Jobs : jobs[j].phase \in
       {"idle", "reading", "rereading", "listing", "claiming", "posting", "clearing", "judging"}

(***************************************************************************)
(* Processes that read the same spent week do not each burn a credit.      *)
(***************************************************************************)
RedeemedOnce == bought <= 1

(***************************************************************************)
(* While the quota that a process has reported as spent is still spent,    *)
(* the stored account stays blocked: no job whose reading is older, a      *)
(* recovery or a redemption, takes the block away.                         *)
(***************************************************************************)
SpentStaysBlocked ==
  evidence # 0 /\ evidence = SpentUntil => record.until >= evidence

GuardSafe == RedeemedOnce /\ SpentStaysBlocked

(***************************************************************************)
(* A block whose quota came back, by time or by a credit, is lifted.       *)
(***************************************************************************)
BlockLifted == <>[](SpentUntil = 0) => []<>(record.until <= clock)
=============================================================================
