--------------------------- MODULE CircuitBreaker ---------------------------
(***************************************************************************)
(* One circuit breaker (lib/circuit-breaker.ts) and the requests that pass *)
(* through it (the account loop of index.ts).                              *)
(*                                                                         *)
(* The code keeps wall-clock timestamps and only ever compares differences *)
(* of them, so the model keeps ages: sinceChange is now - lastStateChange  *)
(* and failures holds now - t for every recorded failure time t.  Ages     *)
(* saturate one past the largest delay they are compared with, which makes *)
(* time unbounded and the state space finite.                              *)
(***************************************************************************)
EXTENDS Naturals, Sequences, FiniteSets, FiniteSetTheorems, SequenceTheorems, TLAPS

CONSTANTS
  Requests,             \* the fetch attempts that share this breaker's key
  FailureThreshold,     \* failures that open a closed breaker
  FailureWindow,        \* age beyond which a failure no longer counts
  ResetTimeout,         \* cooldown of an open breaker, lifetime of a probe slot
  HalfOpenMaxAttempts   \* probe slots of a half-open breaker

ASSUME BreakerAssumption ==
  /\ FailureThreshold \in Nat \ {0}
  /\ FailureWindow \in Nat \ {0}
  /\ ResetTimeout \in Nat \ {0}
  /\ HalfOpenMaxAttempts \in Nat \ {0}

VARIABLES
  state,             \* "closed", "open" or "half-open"
  failures,          \* ages of the recorded failures, oldest first
  sinceChange,       \* age of lastStateChange
  halfOpenAttempts,  \* probe slots taken
  request,           \* where each request stands with the gate
  probeAge           \* time since a request was admitted as a probe

vars == <<state, failures, sinceChange, halfOpenAttempts, request, probeAge>>

breakerVars == <<state, failures, sinceChange, halfOpenAttempts>>

Saturate(age, limit) == IF age < limit THEN age + 1 ELSE limit

Init ==
  /\ state = "closed"
  /\ failures = << >>
  /\ sinceChange = 0
  /\ halfOpenAttempts = 0
  /\ request = [r \in Requests |-> "idle"]
  /\ probeAge = [r \in Requests |-> 0]

(***************************************************************************)
(* pruneFailures filters on the timestamp; failures are appended in time   *)
(* order, so the filter drops a prefix.                                    *)
(***************************************************************************)
Pruned(fs) ==
  SubSeq(fs, Cardinality({i \in DOMAIN fs : fs[i] > FailureWindow}) + 1, Len(fs))

Elapsed == sinceChange >= ResetTimeout

\* Mutant: an off-by-one in the slot test.
SlotFreeOffByOne == halfOpenAttempts <= HalfOpenMaxAttempts

SlotFree == halfOpenAttempts < HalfOpenMaxAttempts

\* Mutant: the slot of a probe that never reports is kept for ever.
SlotNeverAbandoned == FALSE

\* Every slot is taken, but by probes that never reported.
SlotAbandoned == ~SlotFree /\ Elapsed

ToOpen ==
  /\ state' = "open"
  /\ sinceChange' = 0
  /\ halfOpenAttempts' = 0

ToClosed ==
  /\ state' = "closed"
  /\ sinceChange' = 0
  /\ halfOpenAttempts' = 0
  /\ failures' = << >>

\* Mutant: a late failure re-opens a breaker that is open already.
MustOpenAgain(fs) == state = "half-open" \/ Len(fs) >= FailureThreshold

MustOpen(fs) ==
  \/ state = "half-open"
  \/ state = "closed" /\ Len(fs) >= FailureThreshold

(***************************************************************************)
(* canAttempt, one action per outcome.                                     *)
(***************************************************************************)
AdmitClosed(r) ==
  /\ request[r] = "idle"
  /\ state = "closed"
  /\ request' = [request EXCEPT ![r] = "admitted"]
  /\ UNCHANGED <<breakerVars, probeAge>>

\* A probe is admitted by the open-to-half-open transition, by a free slot, or
\* by abandoning the slots of probes that never reported.
AdmitProbe(r) ==
  /\ request[r] = "idle"
  /\ \/ /\ state = "open" /\ Elapsed
        /\ sinceChange' = 0
        /\ halfOpenAttempts' = 1
     \/ /\ state = "half-open" /\ SlotFree
        /\ halfOpenAttempts' = halfOpenAttempts + 1
        /\ UNCHANGED sinceChange
     \/ /\ state = "half-open" /\ SlotAbandoned
        /\ sinceChange' = 0
        /\ halfOpenAttempts' = 1
  /\ state' = "half-open"
  /\ request' = [request EXCEPT ![r] = "probing"]
  /\ probeAge' = [probeAge EXCEPT ![r] = 0]
  /\ UNCHANGED failures

\* The gate refuses and the request rotates to another account.
Denied ==
  \/ state = "open" /\ ~Elapsed
  \/ state = "half-open" /\ ~SlotFree /\ ~SlotAbandoned

Deny(r) ==
  /\ request[r] = "idle"
  /\ Denied
  /\ request' = [request EXCEPT ![r] = "denied"]
  /\ UNCHANGED <<breakerVars, probeAge>>

Rotate(r) ==
  /\ request[r] = "denied"
  /\ request' = [request EXCEPT ![r] = "idle"]
  /\ UNCHANGED <<breakerVars, probeAge>>

(***************************************************************************)
(* Verdicts.  A request reports to whatever state the breaker is in when   *)
(* its response arrives, not to the one that admitted it.                  *)
(***************************************************************************)
InFlight(r) == request[r] \in {"admitted", "probing"}

Finish(r) ==
  /\ InFlight(r)
  /\ request' = [request EXCEPT ![r] = "idle"]
  /\ UNCHANGED probeAge

\* Mutant: a late success closes a breaker that is open.
RecordSuccessAnyState(r) == Finish(r) /\ ToClosed

RecordSuccess(r) ==
  /\ Finish(r)
  /\ \/ /\ state = "half-open"
        /\ ToClosed
     \/ /\ state = "closed"
        /\ failures' = Pruned(failures)
        /\ UNCHANGED <<state, sinceChange, halfOpenAttempts>>
     \/ /\ state = "open"
        /\ UNCHANGED breakerVars

RecordFailure(r) ==
  /\ Finish(r)
  /\ failures' = Append(Pruned(failures), 0)
  /\ IF MustOpen(failures')
     THEN ToOpen
     ELSE UNCHANGED <<state, sinceChange, halfOpenAttempts>>

\* The request ends on a path that never reports: a user abort, a 401, 404 or
\* 429, an exhausted network budget, or an empty response that re-enters the gate.
NoVerdict(r) ==
  /\ Finish(r)
  /\ UNCHANGED breakerVars

Tick ==
  /\ sinceChange' = Saturate(sinceChange, ResetTimeout)
  /\ failures' = [i \in DOMAIN failures |-> Saturate(failures[i], FailureWindow + 1)]
  /\ probeAge' = [r \in Requests |-> Saturate(probeAge[r], ResetTimeout)]
  /\ UNCHANGED <<state, halfOpenAttempts, request>>

Next ==
  \/ Tick
  \/ \E r \in Requests :
       \/ AdmitClosed(r) \/ AdmitProbe(r) \/ Deny(r) \/ Rotate(r)
       \/ RecordSuccess(r) \/ RecordFailure(r) \/ NoVerdict(r)

Spec == Init /\ [][Next]_vars

\* Only the clock is sure to advance: no request is obliged to finish.
FairSpec == Spec /\ WF_vars(Tick)

-----------------------------------------------------------------------------
TypeOK ==
  /\ state \in {"closed", "open", "half-open"}
  /\ failures \in Seq(Nat)
  /\ sinceChange \in 0..ResetTimeout
  /\ halfOpenAttempts \in 0..HalfOpenMaxAttempts
  /\ request \in [Requests -> {"idle", "admitted", "probing", "denied"}]
  /\ probeAge \in [Requests -> 0..ResetTimeout]

FreshProbe(r) == request[r] = "probing" /\ probeAge[r] < ResetTimeout

(***************************************************************************)
(* canAttempt promises that an endpoint under suspicion sees one probe at a*)
(* time.  A slow probe loses its slot after the reset timeout, so the      *)
(* promise is about probes younger than that, whatever verdicts of older   *)
(* requests moved the breaker in between.  The code only ever builds       *)
(* breakers with one slot.                                                 *)
(***************************************************************************)
OneFreshProbe ==
  HalfOpenMaxAttempts = 1 =>
    \A r, q \in Requests : FreshProbe(r) /\ FreshProbe(q) => r = q

(***************************************************************************)
(* A closed breaker holds fewer live failures than the threshold: no       *)
(* interleaving of late verdicts, closings and window expiry leaves it     *)
(* closed with the evidence that should have opened it.                    *)
(***************************************************************************)
ClosedMeansBelowThreshold ==
  state = "closed" => Len(Pruned(failures)) < FailureThreshold

(***************************************************************************)
(* Late verdicts of requests admitted earlier never prolong or cut short   *)
(* the cooldown of an open breaker: its age only grows, and it leaves the  *)
(* open state only towards a probe after the full reset timeout.           *)
(***************************************************************************)
CooldownIsFixed ==
  [][state = "open" =>
       /\ state' = "open" => sinceChange' >= sinceChange
       /\ state' # "open" => state' = "half-open" /\ sinceChange = ResetTimeout
    ]_vars

(***************************************************************************)
(* Seen from outside the breaker is a gate: what Gate allows is all it     *)
(* ever does, whichever requests report to it and when.  This is the view  *)
(* RequestPipeline has of it.  The code only builds breakers with one slot.*)
(***************************************************************************)
GateOf ==
  IF state = "closed" THEN "closed"
  ELSE IF Elapsed THEN "ready"
  ELSE IF state = "open" THEN "cooling" ELSE "probing"

Abstract == INSTANCE Gate WITH gate <- GateOf

ImplementsGate == Abstract!Spec

(***************************************************************************)
(* The gate never refuses for ever, even if no admitted probe reports.     *)
(***************************************************************************)
GateReopens == []<>(~Denied)

-----------------------------------------------------------------------------
(***************************************************************************)
(* Its safety, for every set of requests and every threshold, window and   *)
(* timeout.                                                                *)
(***************************************************************************)

Expired(fs) == {i \in DOMAIN fs : fs[i] > FailureWindow}

\* Pruning keeps a suffix: a sequence again, shorter by the expired failures.
LEMMA PrunedProperties ==
  ASSUME NEW fs \in Seq(Nat)
  PROVE  /\ Cardinality(Expired(fs)) \in 0..Len(fs)
         /\ Pruned(fs) \in Seq(Nat)
         /\ Len(Pruned(fs)) = Len(fs) - Cardinality(Expired(fs))
<1> DEFINE c == Cardinality(Expired(fs))
<1>1. Len(fs) \in Nat /\ DOMAIN fs = 1..Len(fs) /\ \A i \in 1..Len(fs) : fs[i] \in Nat
  BY LenProperties, ElementOfSeq
<1>2. IsFiniteSet(1..Len(fs)) /\ Cardinality(1..Len(fs)) = Len(fs)
  BY <1>1, FS_Interval
<1>3. Expired(fs) \in SUBSET (1..Len(fs))
  BY <1>1 DEF Expired
<1>4. c \in Nat /\ c <= Len(fs)
  BY <1>2, <1>3, FS_Subset, FS_CardinalityType
<1>5. Pruned(fs) = SubSeq(fs, c + 1, Len(fs))
  BY DEF Pruned, Expired
<1>6. \A i \in (c + 1)..Len(fs) : fs[i] \in Nat
  BY <1>1, <1>4
<1> HIDE DEF c
<1>7. /\ SubSeq(fs, c + 1, Len(fs)) \in Seq(Nat)
      /\ Len(SubSeq(fs, c + 1, Len(fs))) = IF c + 1 <= Len(fs) THEN Len(fs) - (c + 1) + 1 ELSE 0
  BY <1>1, <1>4, <1>6, SubSeqProperties
<1> QED
  BY <1>1, <1>4, <1>5, <1>7 DEF c

\* Saturating an age keeps it within its limit and never lowers it.
LEMMA SaturateProperties ==
  ASSUME NEW limit \in Nat, NEW age \in Nat
  PROVE  /\ Saturate(age, limit) \in Nat
         /\ Saturate(age, limit) <= limit
         /\ age <= limit => Saturate(age, limit) >= age
BY DEF Saturate

(***************************************************************************)
(* Why one probe at a time: while the breaker is not closed, every request *)
(* still counted as a probe is at least as old as the last state change,   *)
(* and every new slot is handed out only when that age has reached the     *)
(* reset timeout.                                                          *)
(***************************************************************************)
ProbesOlderThanChange ==
  HalfOpenMaxAttempts = 1 /\ state # "closed" =>
    \A r \in Requests : request[r] = "probing" => probeAge[r] >= sinceChange

HalfOpenSlotTaken == state = "half-open" => halfOpenAttempts >= 1

ProbeInv == TypeOK /\ ProbesOlderThanChange /\ HalfOpenSlotTaken /\ OneFreshProbe

LEMMA InitTypeOK == Init => TypeOK
BY BreakerAssumption DEF Init, TypeOK

\* Each step keeps the variables in their types.
LEMMA NextTypeOK == TypeOK /\ [Next]_vars => TypeOK'
<1> SUFFICES ASSUME TypeOK, [Next]_vars PROVE TypeOK'
  OBVIOUS
<1> USE BreakerAssumption DEF TypeOK
<1>1. CASE Tick
  <2>1. sinceChange' \in 0..ResetTimeout
    BY <1>1, SaturateProperties DEF Tick
  <2>2. failures' \in Seq(Nat)
    <3>1. /\ Len(failures) \in Nat
          /\ DOMAIN failures = 1..Len(failures)
          /\ \A i \in 1..Len(failures) : failures[i] \in Nat
      BY LenProperties, ElementOfSeq
    <3>2. \A i \in 1..Len(failures) : Saturate(failures[i], FailureWindow + 1) \in Nat
      BY <3>1 DEF Saturate
    <3>3. failures' = [i \in 1..Len(failures) |-> Saturate(failures[i], FailureWindow + 1)]
      BY <1>1, <3>1 DEF Tick
    <3> QED
      BY <3>1, <3>2, <3>3, IsASeq
  <2>3. probeAge' \in [Requests -> 0..ResetTimeout]
    BY <1>1, SaturateProperties DEF Tick
  <2> QED
    BY <1>1, <2>1, <2>2, <2>3 DEF Tick
<1>2. ASSUME NEW r \in Requests, AdmitClosed(r) \/ Deny(r) \/ Rotate(r) \/ NoVerdict(r)
      PROVE  TypeOK'
  BY <1>2 DEF AdmitClosed, Deny, Rotate, NoVerdict, Finish, breakerVars
<1>3. ASSUME NEW r \in Requests, AdmitProbe(r) PROVE TypeOK'
  BY <1>3 DEF AdmitProbe, SlotFree, SlotAbandoned, Elapsed
<1>4. ASSUME NEW r \in Requests, RecordSuccess(r) PROVE TypeOK'
  <2>1. failures' \in Seq(Nat)
    BY <1>4, PrunedProperties, EmptySeq DEF RecordSuccess, ToClosed, breakerVars
  <2>2. QED
    BY <1>4, <2>1 DEF RecordSuccess, Finish, ToClosed, breakerVars
<1>5. ASSUME NEW r \in Requests, RecordFailure(r) PROVE TypeOK'
  <2>1. failures' \in Seq(Nat)
    BY <1>5, PrunedProperties, AppendProperties DEF RecordFailure
  <2>2. QED
    BY <1>5, <2>1 DEF RecordFailure, Finish, ToOpen
<1>6. CASE UNCHANGED vars
  BY <1>6 DEF vars
<1> QED
  BY <1>1, <1>2, <1>3, <1>4, <1>5, <1>6 DEF Next

\* The breaker's variables have their types in every reachable state of
\* lib/circuit-breaker.ts, whatever the configuration.
THEOREM TypeCorrect == Spec => []TypeOK
BY InitTypeOK, NextTypeOK, PTL DEF Spec

LEMMA InitProbeInv == Init => ProbeInv
BY InitTypeOK DEF Init, ProbeInv, ProbesOlderThanChange, HalfOpenSlotTaken,
                  OneFreshProbe, FreshProbe

\* Only a request admitted through a half-open gate can disturb the invariant,
\* and it is admitted when every older probe has outlived its slot.
LEMMA NextProbeInv == ProbeInv /\ [Next]_vars => ProbeInv'
<1> SUFFICES ASSUME ProbeInv, [Next]_vars PROVE ProbeInv'
  OBVIOUS
<1> USE BreakerAssumption DEF ProbeInv
<1>0. TypeOK'
  BY NextTypeOK
<1> USE DEF TypeOK, ProbesOlderThanChange, HalfOpenSlotTaken, OneFreshProbe, FreshProbe
<1>1. CASE Tick
  <2>1. \A r \in Requests : probeAge'[r] = Saturate(probeAge[r], ResetTimeout)
    BY <1>1 DEF Tick
  <2>2. \A r \in Requests : FreshProbe(r)' => FreshProbe(r)
    BY <1>1, <2>1 DEF Tick, Saturate
  <2>3. OneFreshProbe'
    BY <2>2
  <2>4. ProbesOlderThanChange'
    BY <1>1, <2>1 DEF Tick, Saturate
  <2>5. QED
    BY <1>0, <1>1, <2>3, <2>4 DEF Tick
<1>2. ASSUME NEW r \in Requests, AdmitClosed(r) \/ Deny(r) \/ Rotate(r) \/ NoVerdict(r)
      PROVE  ProbeInv'
  BY <1>0, <1>2 DEF AdmitClosed, Deny, Rotate, NoVerdict, Finish, breakerVars
<1>3. ASSUME NEW r \in Requests, AdmitProbe(r) PROVE ProbeInv'
  <2>1. HalfOpenMaxAttempts = 1 => sinceChange' = 0 /\ sinceChange = ResetTimeout
    BY <1>3 DEF AdmitProbe, SlotFree, SlotAbandoned, Elapsed
  <2>2. state # "closed"
    BY <1>3 DEF AdmitProbe
  <2>3. HalfOpenSlotTaken'
    BY <1>3 DEF AdmitProbe
  <2>4. HalfOpenMaxAttempts = 1 => \A q \in Requests : ~FreshProbe(q)
    BY <2>1, <2>2
  <2>5. \A q \in Requests \ {r} : FreshProbe(q)' => FreshProbe(q)
    BY <1>3 DEF AdmitProbe
  <2>6. OneFreshProbe'
    BY <2>4, <2>5
  <2>7. ProbesOlderThanChange'
    BY <1>0, <2>1
  <2> QED
    BY <1>0, <2>3, <2>6, <2>7
<1>4. ASSUME NEW r \in Requests, RecordSuccess(r) PROVE ProbeInv'
  BY <1>0, <1>4 DEF RecordSuccess, Finish, ToClosed, breakerVars
<1>5. ASSUME NEW r \in Requests, RecordFailure(r) PROVE ProbeInv'
  BY <1>0, <1>5 DEF RecordFailure, Finish, ToOpen
<1>6. CASE UNCHANGED vars
  BY <1>6 DEF vars
<1> QED
  BY <1>1, <1>2, <1>3, <1>4, <1>5, <1>6 DEF Next

\* canAttempt never has two probes younger than the reset timeout in flight.
THEOREM OneProbeAtATime == Spec => []OneFreshProbe
<1>1. ProbeInv => OneFreshProbe
  BY DEF ProbeInv
<1> QED
  BY <1>1, InitProbeInv, NextProbeInv, PTL DEF Spec
-----------------------------------------------------------------------------
\* A step that finds the breaker open lets its age grow, or admits a probe after
\* the full reset timeout.
LEMMA OpenStep ==
  ASSUME TypeOK, state = "open", [Next]_vars
  PROVE  /\ state' = "open" => sinceChange' >= sinceChange
         /\ state' # "open" => state' = "half-open" /\ sinceChange = ResetTimeout
<1> USE BreakerAssumption DEF TypeOK
<1>1. CASE Tick
  BY <1>1, SaturateProperties DEF Tick
<1>2. ASSUME NEW r \in Requests, AdmitClosed(r) \/ Deny(r) \/ Rotate(r) \/ NoVerdict(r)
      PROVE  UNCHANGED <<state, sinceChange>>
  BY <1>2 DEF AdmitClosed, Deny, Rotate, NoVerdict, breakerVars
<1>3. ASSUME NEW r \in Requests, AdmitProbe(r)
      PROVE  state' = "half-open" /\ sinceChange = ResetTimeout
  BY <1>3 DEF AdmitProbe, Elapsed
<1>4. ASSUME NEW r \in Requests, RecordSuccess(r) \/ RecordFailure(r)
      PROVE  UNCHANGED <<state, sinceChange>>
  BY <1>4 DEF RecordSuccess, RecordFailure, MustOpen, breakerVars
<1>5. CASE UNCHANGED vars
  BY <1>5 DEF vars
<1> QED
  BY <1>1, <1>2, <1>3, <1>4, <1>5 DEF Next

(***************************************************************************)
(* Late verdicts neither prolong nor cut short a cooldown: recordFailure   *)
(* on an open breaker keeps its lastStateChange, and only canAttempt, once *)
(* the reset timeout has passed in full, takes it out of the open state.   *)
(***************************************************************************)
THEOREM CooldownHolds == Spec => CooldownIsFixed
<1> DEFINE Fixed ==
      state = "open" =>
        /\ state' = "open" => sinceChange' >= sinceChange
        /\ state' # "open" => state' = "half-open" /\ sinceChange = ResetTimeout
<1>1. TypeOK /\ [Next]_vars => [Fixed]_vars
  BY OpenStep
<1>2. [][Fixed]_vars <=> CooldownIsFixed
  BY DEF CooldownIsFixed
<1> QED
  BY <1>1, <1>2, InitTypeOK, NextTypeOK, PTL DEF Spec

-----------------------------------------------------------------------------
(***************************************************************************)
(* The refinement.  A half-open breaker with one slot has handed it out,   *)
(* so the gate it shows is one of the four of Gate, and every step of the  *)
(* breaker moves it as Gate allows.                                        *)
(***************************************************************************)
GateStep == Abstract!Next \/ UNCHANGED GateOf

LEMMA GateShown ==
  ASSUME TypeOK
  PROVE  /\ state = "closed" => GateOf = "closed"
         /\ state = "open" /\ ~Elapsed => GateOf = "cooling"
         /\ state = "half-open" /\ ~Elapsed => GateOf = "probing"
         /\ state # "closed" /\ Elapsed => GateOf = "ready"
BY DEF GateOf, TypeOK

LEMMA GateShownNext ==
  ASSUME TypeOK'
  PROVE  /\ state' = "closed" => GateOf' = "closed"
         /\ state' = "open" /\ sinceChange' < ResetTimeout => GateOf' = "cooling"
         /\ state' = "half-open" /\ sinceChange' < ResetTimeout => GateOf' = "probing"
         /\ state' # "closed" /\ sinceChange' >= ResetTimeout => GateOf' = "ready"
BY BreakerAssumption DEF GateOf, Elapsed, TypeOK

LEMMA StepIsGateStep ==
  ASSUME HalfOpenMaxAttempts = 1, ProbeInv, ProbeInv', Next
  PROVE  GateStep
<1> USE BreakerAssumption
<1>1. TypeOK /\ TypeOK' /\ (state = "half-open" => ~SlotFree)
  BY DEF ProbeInv, HalfOpenSlotTaken, SlotFree, TypeOK
<1>2. state \in {"closed", "open", "half-open"} /\ sinceChange \in Nat /\ ResetTimeout \in Nat
  BY <1>1 DEF TypeOK
<1>3. CASE Tick
  <2>1. state' = state /\ sinceChange' \in Nat /\ sinceChange' >= sinceChange
    BY <1>2, <1>3, <1>1 DEF Tick, Saturate, TypeOK
  <2>2. GateOf' = GateOf \/ GateOf' = Abstract!AfterTime(GateOf)
    BY <1>1, <1>2, <2>1, GateShown, GateShownNext DEF Elapsed, Abstract!AfterTime
  <2> QED
    BY <2>2 DEF GateStep, Abstract!Next, Abstract!Wait
<1>4. ASSUME NEW r \in Requests, AdmitClosed(r) \/ Deny(r) \/ Rotate(r) \/ NoVerdict(r)
      PROVE  GateStep
  <2>1. UNCHANGED <<state, sinceChange>>
    BY <1>4 DEF AdmitClosed, Deny, Rotate, NoVerdict, breakerVars
  <2>2. QED
    BY <2>1 DEF GateStep, GateOf, Elapsed
<1>5. ASSUME NEW r \in Requests, AdmitProbe(r)
      PROVE  GateStep
  <2>1. state # "closed" /\ Elapsed /\ state' = "half-open" /\ sinceChange' = 0
    BY <1>1, <1>5 DEF AdmitProbe, SlotAbandoned
  <2>2. GateOf = "ready" /\ GateOf' = "probing"
    BY <1>1, <2>1, GateShown, GateShownNext
  <2> QED
    BY <2>2 DEF GateStep, Abstract!Next, Abstract!Admit, Abstract!Admits, Abstract!AfterAdmission
<1>6. ASSUME NEW r \in Requests, RecordSuccess(r)
      PROVE  GateStep
  <2>1. GateOf' \in Abstract!AfterSuccess(GateOf)
    <3>1. CASE state = "closed"
      BY <1>1, <1>6, <3>1, GateShown, GateShownNext DEF RecordSuccess, Abstract!AfterSuccess
    <3>2. CASE state = "half-open"
      BY <1>1, <1>6, <3>2, GateShown, GateShownNext DEF RecordSuccess, ToClosed, Abstract!AfterSuccess
    <3>3. CASE state = "open"
      <4>1. GateOf' = GateOf
        BY <1>6, <3>3 DEF RecordSuccess, breakerVars, GateOf, Elapsed
      <4> QED
        BY <1>1, <3>3, <4>1, GateShown DEF Abstract!AfterSuccess
    <3> QED
      BY <1>2, <3>1, <3>2, <3>3
  <2>2. QED
    BY <2>1 DEF GateStep, Abstract!Next, Abstract!Succeed
<1>7. ASSUME NEW r \in Requests, RecordFailure(r)
      PROVE  GateStep
  <2>1. \/ state # "open" /\ state' = "open" /\ sinceChange' = 0
        \/ state # "half-open" /\ UNCHANGED <<state, sinceChange>>
    BY <1>2, <1>7 DEF RecordFailure, MustOpen, ToOpen
  <2>2. GateOf' \in Abstract!AfterFailure(GateOf)
    <3>1. CASE state # "open" /\ state' = "open" /\ sinceChange' = 0
      <4>1. GateOf' = "cooling" /\ GateOf \in {"closed", "probing", "ready"}
        BY <1>1, <1>2, <3>1, GateShown, GateShownNext
      <4> QED
        BY <4>1 DEF Abstract!AfterFailure
    <3>2. CASE state # "half-open" /\ UNCHANGED <<state, sinceChange>>
      <4>1. GateOf' = GateOf /\ GateOf \in {"closed", "cooling", "ready"}
        BY <1>1, <1>2, <3>2, GateShown DEF GateOf, Elapsed
      <4> QED
        BY <4>1 DEF Abstract!AfterFailure
    <3>3. QED
      BY <2>1, <3>1, <3>2
  <2> QED
    BY <2>2 DEF GateStep, Abstract!Next, Abstract!Fail
<1> QED
  BY <1>3, <1>4, <1>5, <1>6, <1>7 DEF Next

\* Seen from outside, a breaker with one probe slot is a gate (ImplementsGate), for
\* every number of requests and every threshold, window and timeout.
THEOREM BreakerIsGate ==
  ASSUME HalfOpenMaxAttempts = 1
  PROVE  Spec => ImplementsGate
<1>1. Init => Abstract!Init
  BY DEF Init, Abstract!Init, GateOf
<1>2. ProbeInv /\ ProbeInv' /\ [Next]_vars => [Abstract!Next]_GateOf
  <2>1. CASE UNCHANGED vars
    BY <2>1 DEF vars, GateOf, Elapsed
  <2> QED
    BY <2>1, StepIsGateStep DEF GateStep
<1> QED
  BY <1>1, <1>2, InitProbeInv, NextProbeInv, PTL DEF Spec, ImplementsGate, Abstract!Spec

=============================================================================
