---------------------- MODULE CoordinatedRefreshProofs ----------------------
(***************************************************************************)
(* Safety of the coordinated refresh for every set of processes and every  *)
(* number of rotations and faults: first the types and the order of the    *)
(* tokens, then the invariant that no consumed token is presented again.   *)
(***************************************************************************)
EXTENDS CoordinatedRefresh, TLAPS

-----------------------------------------------------------------------------
(***************************************************************************)
(* Types, and what the steps of a refresh do to a call.                    *)
(***************************************************************************)
(* The building blocks of the actions keep the types.                      *)

\* The locals of a new call.
LEMMA NewCallTyped ==
  ASSUME NEW s \in Stores
  PROVE  /\ NewCall(s) \in Calls
         /\ NewCall(s).primary = s /\ NewCall(s).exch = 0 /\ NewCall(s).got = 0
         /\ NewCall(s).todo = {} /\ NewCall(s).visit = {} /\ NewCall(s).kept = {}
BY RefreshAssumption DEF NewCall, Calls, Tokens, COMMIT_ATTEMPTS

\* Replacing one process's locals leaves the others' alone.
LEMMA CallPut ==
  ASSUME call \in [Procs -> Calls], NEW p \in Procs, NEW c \in Calls,
         call' = [call EXCEPT ![p] = c]
  PROVE  /\ call' \in [Procs -> Calls]
         /\ call'[p] = c
         /\ \A q \in Procs : q # p => call'[q] = call[q]
OBVIOUS

LEMMA GotoTyped ==
  ASSUME pc \in [Procs -> Steps], NEW p \in Procs, NEW step \in Steps, Goto(p, step)
  PROVE  /\ pc' \in [Procs -> Steps]
         /\ pc'[p] = step
         /\ \A q \in Procs : q # p => pc'[q] = pc[q]
BY DEF Goto

\* Leaving a call: idle, the lease still typed, the locals reset.
LEMMA LeaveTyped ==
  ASSUME TypeOK, NEW p \in Procs, Leave(p)
  PROVE  /\ pc' \in [Procs -> Steps]
         /\ pc'[p] = "idle"
         /\ \A q \in Procs : q # p => pc'[q] = pc[q]
         /\ call' \in [Procs -> Calls]
         /\ call'[p] = NewCall("accounts")
         /\ \A q \in Procs : q # p => call'[q] = call[q]
         /\ lease' \in Procs \cup {Free, Abandoned}
<1>1. pc' \in [Procs -> Steps] /\ pc'[p] = "idle" /\ \A q \in Procs : q # p => pc'[q] = pc[q]
  BY GotoTyped DEF TypeOK, Leave, Steps
<1>2. "accounts" \in Stores
  BY DEF Stores
<1>3. /\ call' \in [Procs -> Calls]
      /\ call'[p] = NewCall("accounts")
      /\ \A q \in Procs : q # p => call'[q] = call[q]
  BY <1>2, NewCallTyped, CallPut DEF TypeOK, Leave
<1> QED BY <1>1, <1>3 DEF TypeOK, Leave

LEMMA ReturnTyped ==
  ASSUME TypeOK, NEW p \in Procs, NEW t \in Tokens, Return(p, t)
  PROVE  Leave(p) /\ mem' \in [Procs -> Tokens]
BY DEF TypeOK, Return

LEMMA FailTyped ==
  ASSUME TypeOK, NEW p \in Procs, Fail(p)
  PROVE  Leave(p) /\ mem' \in [Procs -> Tokens]
BY DEF TypeOK, Fail

LEMMA FaultTyped ==
  ASSUME TypeOK, Fault \/ UNCHANGED faults
  PROVE  faults' \in 0 .. MaxFaults
BY RefreshAssumption DEF TypeOK, Fault

LEMMA OutcomeTyped ==
  ASSUME TypeOK, NEW ok \in BOOLEAN, Outcome(ok)
  PROVE  faults' \in 0 .. MaxFaults
BY FaultTyped DEF Outcome

LEMMA StampTyped ==
  ASSUME TypeOK, NEW s \in Stores, NEW c \in Tokens, NEW r \in Tokens,
         Stamp(s, c, r) \/ UNCHANGED <<record, fresh>>
  PROVE  record' \in [Stores -> Tokens \cup {Absent}] /\ fresh' \in BOOLEAN
BY DEF TypeOK, Stamp

LEMMA WriteJournalTyped ==
  ASSUME TypeOK, NEW c \in Tokens, NEW r \in Tokens,
         WriteJournal(c, r) \/ UNCHANGED journal
  PROVE  journal' \in [Tokens -> Entries \cup {NoEntry}]
BY DEF TypeOK, WriteJournal, JournalFile, Entries

LEMMA DeleteJournalTyped ==
  ASSUME TypeOK, NEW c \in Tokens, DeleteJournal(c)
  PROVE  /\ journal' \in [Tokens -> Entries \cup {NoEntry}]
         /\ faults' \in 0 .. MaxFaults
<1>1. journal' \in [Tokens -> Entries \cup {NoEntry}]
  BY DEF TypeOK, DeleteJournal, JournalFile
<1> QED BY <1>1, FaultTyped DEF DeleteJournal

LEMMA PendingTyped ==
  ASSUME TypeOK
  PROVE  Pending \in SUBSET Entries
BY DEF TypeOK, Pending

\* The record fields of a call, one at a time.
LEMMA CallFields ==
  ASSUME NEW c \in Calls
  PROVE  /\ c.primary \in Stores /\ Sibling(c.primary) \in Stores
         /\ c.exch \in Tokens /\ c.got \in Tokens /\ c.landed \in BOOLEAN
         /\ c.tries \in 0 .. COMMIT_ATTEMPTS
         /\ c.todo \in SUBSET Entries /\ c.visit \in SUBSET Entries
         /\ c.kept \in SUBSET Entries
BY DEF Calls, Stores, Sibling

-----------------------------------------------------------------------------
(* Each action keeps the types.                                            *)

LEMMA BeginTyped ==
  ASSUME TypeOK, NEW p \in Procs, NEW s \in Stores, Begin(p, s)
  PROVE  TypeOK'
<1>1. call' \in [Procs -> Calls]
  BY NewCallTyped, CallPut DEF TypeOK, Begin
<1>2. pc' \in [Procs -> Steps]
  BY GotoTyped DEF TypeOK, Begin, Steps
<1>3. faults' \in 0 .. MaxFaults
  BY FaultTyped DEF Begin
<1> QED BY <1>1, <1>2, <1>3 DEF TypeOK, Begin

LEMMA StartPassTyped ==
  ASSUME TypeOK, NEW p \in Procs, NEW E \in SUBSET Entries, StartPass(p, E)
  PROVE  /\ pc' \in [Procs -> Steps]
         /\ call' \in [Procs -> Calls]
         /\ lease' \in Procs \cup {Free, Abandoned}
         /\ mem' \in [Procs -> Tokens]
<1>1. call[p] \in Calls /\ call[p].primary \in Stores
  BY CallFields DEF TypeOK
<1>2. CASE E = {}
  <2>1. call' = [call EXCEPT ![p] = NewCall(call[p].primary)]
    BY <1>2, <1>1 DEF StartPass, TypeOK
  <2>2. call' \in [Procs -> Calls]
    BY <2>1, <1>1, NewCallTyped, CallPut DEF TypeOK
  <2>3. pc' \in [Procs -> Steps]
    BY <1>2, GotoTyped DEF TypeOK, StartPass, Steps
  <2> QED BY <1>2, <2>2, <2>3 DEF TypeOK, StartPass
<1>3. CASE E # {} /\ Ready(E) = {} BY <1>3, FailTyped, LeaveTyped DEF StartPass
<1>4. CASE E # {} /\ Ready(E) # {}
  <2>1. Ready(E) \in SUBSET Entries /\ E \ Ready(E) \in SUBSET Entries
    BY DEF Ready
  <2>2. call' = [call EXCEPT ![p] = [call[p] EXCEPT !.todo = E, !.visit = Ready(E),
                                                   !.kept = E \ Ready(E)]]
    BY <1>4 DEF StartPass, TypeOK
  <2>3. [call[p] EXCEPT !.todo = E, !.visit = Ready(E), !.kept = E \ Ready(E)] \in Calls
    BY <1>1, <2>1 DEF Calls
  <2>4. call' \in [Procs -> Calls]
    BY <2>2, <2>3, CallPut DEF TypeOK
  <2>5. pc' \in [Procs -> Steps]
    BY <1>4, GotoTyped DEF TypeOK, StartPass, Steps
  <2> QED BY <1>4, <2>4, <2>5 DEF TypeOK, StartPass
<1> QED BY <1>2, <1>3, <1>4

LEMMA RecoverTyped ==
  ASSUME TypeOK, NEW p \in Procs, Recover(p)
  PROVE  TypeOK'
<1>1. PICK unread \in SUBSET Pending :
         Outcome(unread = {}) /\ StartPass(p, Pending \ unread)
  BY DEF Recover
<1>2. faults' \in 0 .. MaxFaults
  BY <1>1, OutcomeTyped
<1>3. Pending \ unread \in SUBSET Entries
  BY PendingTyped
<1> QED BY <1>1, <1>2, <1>3, StartPassTyped DEF TypeOK, Recover

LEMMA ReplayAccountsTyped ==
  ASSUME TypeOK, NEW p \in Procs, ReplayAccounts(p)
  PROVE  TypeOK'
<1>1. PICK e \in call[p].visit, ok \in BOOLEAN :
         /\ Outcome(ok)
         /\ IF ok THEN Stamp("accounts", e.consumed, e.rotated)
                  ELSE UNCHANGED <<record, fresh>>
         /\ call' = [call EXCEPT ![p].exch = e.consumed, ![p].got = e.rotated,
                                 ![p].landed = ok]
  BY DEF ReplayAccounts
<1>2. call[p] \in Calls /\ e.consumed \in Tokens /\ e.rotated \in Tokens
  BY CallFields DEF TypeOK, Entries
<1>3. [call[p] EXCEPT !.exch = e.consumed, !.got = e.rotated, !.landed = ok] \in Calls
  BY <1>2 DEF Calls
<1>4. call' = [call EXCEPT ![p] = [call[p] EXCEPT !.exch = e.consumed, !.got = e.rotated,
                                                  !.landed = ok]]
  BY <1>1 DEF TypeOK
<1>5. call' \in [Procs -> Calls]
  BY <1>3, <1>4, CallPut DEF TypeOK
<1>6. record' \in [Stores -> Tokens \cup {Absent}] /\ fresh' \in BOOLEAN
  BY <1>1, <1>2, StampTyped DEF Stores
<1>7. faults' \in 0 .. MaxFaults
  BY <1>1, OutcomeTyped
<1>8. pc' \in [Procs -> Steps]
  BY GotoTyped DEF TypeOK, ReplayAccounts, Steps
<1> QED BY <1>5, <1>6, <1>7, <1>8 DEF TypeOK, ReplayAccounts

LEMMA FinishEntryTyped ==
  ASSUME TypeOK, NEW p \in Procs, NEW e \in Entries, NEW replayed \in BOOLEAN,
         FinishEntry(p, e, replayed)
  PROVE  /\ pc' \in [Procs -> Steps]
         /\ call' \in [Procs -> Calls]
         /\ lease' \in Procs \cup {Free, Abandoned}
         /\ mem' \in [Procs -> Tokens]
<1> DEFINE visit == call[p].visit \ {e}
           kept == IF replayed THEN call[p].kept ELSE call[p].kept \cup {e}
<1>1. call[p] \in Calls /\ visit \in SUBSET Entries /\ kept \in SUBSET Entries
  BY CallFields DEF TypeOK
<1> HIDE DEF visit, kept
<1>2. CASE visit # {}
  <2>1. Goto(p, "replay_accounts") /\ UNCHANGED <<lease, mem>>
        /\ call' = [call EXCEPT ![p].visit = visit, ![p].kept = kept]
    BY <1>2 DEF FinishEntry, visit, kept
  <2>2. call' = [call EXCEPT ![p] = [call[p] EXCEPT !.visit = visit, !.kept = kept]]
    BY <2>1 DEF TypeOK
  <2>3. [call[p] EXCEPT !.visit = visit, !.kept = kept] \in Calls
    BY <1>1 DEF Calls
  <2>4. call' \in [Procs -> Calls]
    BY <2>2, <2>3, CallPut DEF TypeOK
  <2>5. pc' \in [Procs -> Steps]
    BY <2>1, GotoTyped DEF TypeOK, Steps
  <2> QED BY <2>1, <2>4, <2>5 DEF TypeOK
<1>3. CASE visit = {} /\ kept = call[p].todo
  <2>1. Fail(p)
    BY <1>3 DEF FinishEntry, visit, kept
  <2> QED BY <2>1, FailTyped, LeaveTyped
<1>4. CASE visit = {} /\ kept # call[p].todo
  <2>1. StartPass(p, kept)
    BY <1>4 DEF FinishEntry, visit, kept
  <2> QED BY <2>1, <1>1, StartPassTyped
<1> QED BY <1>2, <1>3, <1>4

LEMMA ReplayFlaggedTyped ==
  ASSUME TypeOK, NEW p \in Procs, ReplayFlagged(p)
  PROVE  TypeOK'
<1> DEFINE e == [consumed |-> call[p].exch, rotated |-> call[p].got]
<1>1. PICK ok \in BOOLEAN :
         /\ IF ok THEN Stamp("flagged", e.consumed, e.rotated)
                  ELSE UNCHANGED <<record, fresh>>
         /\ IF Replayed(call[p].landed, ok)
            THEN DeleteJournal(e.consumed)
            ELSE Outcome(ok) /\ UNCHANGED journal
         /\ FinishEntry(p, e, Replayed(call[p].landed, ok))
  BY DEF ReplayFlagged
<1>2. e \in Entries /\ e.consumed \in Tokens /\ e.rotated \in Tokens
  BY CallFields DEF TypeOK, Entries
<1>3. Replayed(call[p].landed, ok) \in BOOLEAN
  BY DEF Replayed
<1> HIDE DEF e
<1>4. record' \in [Stores -> Tokens \cup {Absent}] /\ fresh' \in BOOLEAN
  BY <1>1, <1>2, StampTyped DEF Stores
<1>5. journal' \in [Tokens -> Entries \cup {NoEntry}] /\ faults' \in 0 .. MaxFaults
  <2>1. CASE Replayed(call[p].landed, ok)
    BY <2>1, <1>1, <1>2, DeleteJournalTyped
  <2>2. CASE ~Replayed(call[p].landed, ok)
    BY <2>2, <1>1, OutcomeTyped DEF TypeOK
  <2> QED BY <2>1, <2>2
<1>6. /\ pc' \in [Procs -> Steps]
      /\ call' \in [Procs -> Calls]
      /\ lease' \in Procs \cup {Free, Abandoned}
      /\ mem' \in [Procs -> Tokens]
  BY <1>1, <1>2, <1>3, FinishEntryTyped
<1> QED BY <1>4, <1>5, <1>6 DEF TypeOK, ReplayFlagged

LEMMA ProbeTyped ==
  ASSUME TypeOK, NEW p \in Procs, Probe(p)
  PROVE  TypeOK'
<1> DEFINE s == call[p].primary
<1>1. s \in Stores /\ call[p] \in Calls
  BY CallFields DEF TypeOK
<1>2. faults' \in 0 .. MaxFaults
  BY FaultTyped DEF Probe
<1>3. record[s] \in Tokens \/ Missing(s)
  BY <1>1 DEF TypeOK, Missing
<1>4. /\ pc' \in [Procs -> Steps]
      /\ call' \in [Procs -> Calls]
      /\ lease' \in Procs \cup {Free, Abandoned}
      /\ mem' \in [Procs -> Tokens]
  <2>1. CASE Fail(p) BY <2>1, FailTyped, LeaveTyped
  <2>2. CASE ~Missing(s) /\ Return(p, record[s])
    BY <2>2, <1>3, ReturnTyped, LeaveTyped
  <2>3. CASE /\ ~Missing(s) /\ Goto(p, "spend") /\ UNCHANGED <<lease, mem>>
             /\ call' = [call EXCEPT ![p].exch = record[s]]
    <3>1. call' = [call EXCEPT ![p] = [call[p] EXCEPT !.exch = record[s]]]
      BY <2>3 DEF TypeOK
    <3>2. [call[p] EXCEPT !.exch = record[s]] \in Calls
      BY <2>3, <1>1, <1>3 DEF Calls
    <3>3. call' \in [Procs -> Calls]
      BY <3>1, <3>2, CallPut DEF TypeOK
    <3>4. pc' \in [Procs -> Steps]
      BY <2>3, GotoTyped DEF TypeOK, Steps
    <3> QED BY <2>3, <3>3, <3>4 DEF TypeOK
  <2> QED BY <2>1, <2>2, <2>3 DEF Probe
<1> QED BY <1>2, <1>4 DEF TypeOK, Probe

LEMMA SpendTyped ==
  ASSUME TypeOK, NEW p \in Procs, Spend(p)
  PROVE  TypeOK'
<1>1. CASE lease = p
  <2>1. pc' \in [Procs -> Steps]
    BY <1>1, GotoTyped DEF TypeOK, Spend, Steps
  <2> QED BY <1>1, <2>1 DEF TypeOK, Spend
<1>2. CASE lease # p BY <1>2, FailTyped, LeaveTyped DEF TypeOK, Spend
<1> QED BY <1>1, <1>2

\* The provider's answer becomes the call's replacement.
LEMMA GotTyped ==
  ASSUME TypeOK, NEW p \in Procs, NEW t \in Tokens, call' = [call EXCEPT ![p].got = t]
  PROVE  /\ call' \in [Procs -> Calls]
         /\ call'[p] = [call[p] EXCEPT !.got = t]
         /\ \A q \in Procs : q # p => call'[q] = call[q]
<1>1. call[p] \in Calls
  BY DEF TypeOK
<1>2. [call[p] EXCEPT !.got = t] \in Calls
  BY <1>1 DEF Calls
<1>3. call' = [call EXCEPT ![p] = [call[p] EXCEPT !.got = t]]
  BY DEF TypeOK
<1> QED BY <1>2, <1>3, CallPut DEF TypeOK

LEMMA TriesTyped ==
  ASSUME TypeOK, NEW p \in Procs, NEW n \in 0 .. COMMIT_ATTEMPTS,
         call' = [call EXCEPT ![p].tries = n]
  PROVE  /\ call' \in [Procs -> Calls]
         /\ call'[p] = [call[p] EXCEPT !.tries = n]
         /\ \A q \in Procs : q # p => call'[q] = call[q]
<1>1. call[p] \in Calls
  BY DEF TypeOK
<1>2. [call[p] EXCEPT !.tries = n] \in Calls
  BY <1>1 DEF Calls
<1>3. call' = [call EXCEPT ![p] = [call[p] EXCEPT !.tries = n]]
  BY DEF TypeOK
<1> QED BY <1>2, <1>3, CallPut DEF TypeOK

LEMMA LandedTyped ==
  ASSUME TypeOK, NEW p \in Procs, NEW ok \in BOOLEAN,
         call' = [call EXCEPT ![p].landed = ok]
  PROVE  /\ call' \in [Procs -> Calls]
         /\ call'[p] = [call[p] EXCEPT !.landed = ok]
         /\ \A q \in Procs : q # p => call'[q] = call[q]
<1>1. call[p] \in Calls
  BY DEF TypeOK
<1>2. [call[p] EXCEPT !.landed = ok] \in Calls
  BY <1>1 DEF Calls
<1>3. call' = [call EXCEPT ![p] = [call[p] EXCEPT !.landed = ok]]
  BY DEF TypeOK
<1> QED BY <1>2, <1>3, CallPut DEF TypeOK

LEMMA NextToken ==
  ASSUME TypeOK, live < MaxRotations
  PROVE  live + 1 \in Tokens
BY RefreshAssumption DEF TypeOK, Tokens

LEMMA ExchangeTyped ==
  ASSUME TypeOK, NEW p \in Procs, Exchange(p)
  PROVE  TypeOK'
<1>1. CASE ProviderRotates(p)
  <2>1. live + 1 \in Tokens /\ live' = live + 1
    BY <1>1, NextToken DEF ProviderRotates
  <2>2. call' \in [Procs -> Calls]
    BY <1>1, <2>1, GotTyped DEF ProviderRotates
  <2>3. pc' \in [Procs -> Steps]
    BY <1>1, GotoTyped DEF TypeOK, ProviderRotates, Steps
  <2> QED BY <1>1, <2>1, <2>2, <2>3 DEF TypeOK, ProviderRotates
<1>2. CASE ProviderKeeps(p)
  <2>1. call' \in [Procs -> Calls]
    BY <1>2, GotTyped DEF TypeOK, ProviderKeeps
  <2>2. pc' \in [Procs -> Steps]
    BY <1>2, GotoTyped DEF TypeOK, ProviderKeeps, Steps
  <2> QED BY <1>2, <2>1, <2>2 DEF TypeOK, ProviderKeeps
<1>3. CASE ProviderRejects(p)
  BY <1>3, FailTyped, LeaveTyped DEF TypeOK, ProviderRejects
<1>4. CASE ReplyLost(p)
  <2>1. live' \in Tokens /\ lost' \in BOOLEAN
    BY <1>4, NextToken DEF TypeOK, ReplyLost
  <2>2. faults' \in 0 .. MaxFaults
    BY <1>4, FaultTyped DEF ReplyLost
  <2> QED BY <1>4, <2>1, <2>2, FailTyped, LeaveTyped DEF TypeOK, ReplyLost
<1> QED BY <1>1, <1>2, <1>3, <1>4 DEF Exchange

LEMMA JournalTyped ==
  ASSUME TypeOK, NEW p \in Procs, Journal(p)
  PROVE  TypeOK'
<1>1. call[p].exch \in Tokens /\ call[p].got \in Tokens
  BY CallFields DEF TypeOK
<1>2. journal' \in [Tokens -> Entries \cup {NoEntry}]
  BY <1>1, WriteJournalTyped DEF Journal
<1>3. faults' \in 0 .. MaxFaults
  BY FaultTyped DEF Journal
<1>4. pc' \in [Procs -> Steps]
  BY GotoTyped DEF TypeOK, Journal, Steps
<1> QED BY <1>2, <1>3, <1>4 DEF TypeOK, Journal

LEMMA CommitTyped ==
  ASSUME TypeOK, NEW p \in Procs, Commit(p)
  PROVE  TypeOK'
<1> DEFINE s == call[p].primary
           target == record[s]
<1>1. /\ s \in Stores /\ call[p].got \in Tokens /\ call[p].exch \in Tokens
      /\ call[p].tries \in 0 .. COMMIT_ATTEMPTS
  BY CallFields DEF TypeOK
<1>2. CASE /\ Fault /\ call[p].tries + 1 < COMMIT_ATTEMPTS
           /\ call' = [call EXCEPT ![p].tries = @ + 1]
           /\ UNCHANGED <<record, fresh, pc, lease, mem>>
  <2>1. call[p].tries + 1 \in 0 .. COMMIT_ATTEMPTS
    BY <1>1, <1>2 DEF COMMIT_ATTEMPTS
  <2>2. call' = [call EXCEPT ![p].tries = call[p].tries + 1]
    BY <1>2 DEF TypeOK
  <2>3. call' \in [Procs -> Calls]
    BY <2>1, <2>2, TriesTyped
  <2>4. faults' \in 0 .. MaxFaults
    BY <1>2, FaultTyped
  <2> QED BY <1>2, <2>3, <2>4 DEF TypeOK, Commit
<1>3. CASE /\ \/ Fault
              \/ Missing(s) /\ UNCHANGED faults
           /\ IF Rotated(p)
              THEN Goto(p, "salvage_primary") /\ UNCHANGED <<lease, mem, call>>
              ELSE Fail(p)
           /\ UNCHANGED <<record, fresh>>
  <2>1. faults' \in 0 .. MaxFaults
    BY <1>3, FaultTyped
  <2>2. CASE Rotated(p)
    <3>1. pc' \in [Procs -> Steps]
      BY <1>3, <2>2, GotoTyped DEF TypeOK, Steps
    <3> QED BY <1>3, <2>1, <2>2, <3>1 DEF TypeOK, Commit
  <2>3. CASE ~Rotated(p)
    BY <1>3, <2>1, <2>3, FailTyped, LeaveTyped DEF TypeOK, Commit
  <2> QED BY <2>2, <2>3
<1>4. CASE /\ Superseded(p, target)
           /\ IF Rotated(p)
              THEN /\ Goto(p, "retarget")
                   /\ call' = [call EXCEPT ![p].got = target]
                   /\ UNCHANGED <<lease, mem>>
              ELSE Return(p, target)
           /\ UNCHANGED <<record, fresh, faults>>
  <2>1. target \in Tokens
    BY <1>1, <1>4 DEF TypeOK, Superseded
  <2>2. CASE Rotated(p)
    <3>1. pc' \in [Procs -> Steps]
      BY <1>4, <2>2, GotoTyped DEF TypeOK, Steps
    <3>2. call' \in [Procs -> Calls]
      BY <1>4, <2>1, <2>2, GotTyped
    <3> QED BY <1>4, <2>2, <3>1, <3>2 DEF TypeOK, Commit
  <2>3. CASE ~Rotated(p)
    BY <1>4, <2>1, <2>3, ReturnTyped, LeaveTyped DEF TypeOK, Commit
  <2> QED BY <2>2, <2>3
<1>5. CASE /\ ~Missing(s) /\ ~Superseded(p, target)
           /\ record' = [record EXCEPT ![s] = call[p].got]
           /\ fresh' = (fresh \/ s = "accounts")
           /\ IF Rotated(p)
              THEN /\ Goto(p, "propagate")
                   /\ call' = [call EXCEPT ![p].tries = 0]
                   /\ UNCHANGED <<lease, mem>>
              ELSE Return(p, call[p].got)
           /\ UNCHANGED faults
  <2>1. record' \in [Stores -> Tokens \cup {Absent}] /\ fresh' \in BOOLEAN
    BY <1>1, <1>5 DEF TypeOK
  <2>2. CASE Rotated(p)
    <3>1. pc' \in [Procs -> Steps]
      BY <1>5, <2>2, GotoTyped DEF TypeOK, Steps
    <3>2. 0 \in 0 .. COMMIT_ATTEMPTS
      BY DEF COMMIT_ATTEMPTS
    <3>3. call' \in [Procs -> Calls]
      BY <1>5, <2>2, <3>2, TriesTyped
    <3> QED BY <1>5, <2>1, <2>2, <3>1, <3>3 DEF TypeOK, Commit
  <2>3. CASE ~Rotated(p)
    BY <1>1, <1>5, <2>1, <2>3, ReturnTyped, LeaveTyped DEF TypeOK, Commit
  <2> QED BY <2>2, <2>3
<1> QED BY <1>2, <1>3, <1>4, <1>5 DEF Commit

LEMMA RetargetTyped ==
  ASSUME TypeOK, NEW p \in Procs, Retarget(p)
  PROVE  TypeOK'
<1>1. call[p].exch \in Tokens /\ call[p].got \in Tokens
  BY CallFields DEF TypeOK
<1>2. journal' \in [Tokens -> Entries \cup {NoEntry}]
  BY <1>1, WriteJournalTyped DEF Retarget
<1>3. faults' \in 0 .. MaxFaults
  BY FaultTyped DEF Retarget
<1> QED BY <1>1, <1>2, <1>3, ReturnTyped, LeaveTyped DEF TypeOK, Retarget

LEMMA SalvageTyped ==
  ASSUME TypeOK, NEW p \in Procs, SalvagePrimary(p) \/ SalvageSibling(p)
  PROVE  TypeOK'
<1>1. /\ call[p].exch \in Tokens /\ call[p].got \in Tokens /\ call[p].landed \in BOOLEAN
      /\ call[p].primary \in Stores /\ Sibling(call[p].primary) \in Stores
  BY CallFields DEF TypeOK
<1>2. CASE SalvagePrimary(p)
  <2> DEFINE s == call[p].primary
  <2>1. PICK ok \in BOOLEAN :
          /\ Outcome(ok)
          /\ IF ok THEN Stamp(s, call[p].exch, call[p].got)
                   ELSE UNCHANGED <<record, fresh>>
          /\ call' = [call EXCEPT ![p].landed = (ok /\ record[s] = call[p].exch)]
    BY <1>2 DEF SalvagePrimary
  <2>3. call' \in [Procs -> Calls]
    BY <2>1, LandedTyped
  <2>4. record' \in [Stores -> Tokens \cup {Absent}] /\ fresh' \in BOOLEAN
    BY <1>1, <2>1, StampTyped
  <2>5. faults' \in 0 .. MaxFaults
    BY <2>1, OutcomeTyped
  <2>6. pc' \in [Procs -> Steps]
    BY <1>2, GotoTyped DEF TypeOK, SalvagePrimary, Steps
  <2> QED BY <1>2, <2>3, <2>4, <2>5, <2>6 DEF TypeOK, SalvagePrimary
<1>3. CASE SalvageSibling(p)
  <2> DEFINE s == Sibling(call[p].primary)
  <2>1. PICK ok \in BOOLEAN :
          /\ Outcome(ok)
          /\ IF ok THEN Stamp(s, call[p].exch, call[p].got)
                   ELSE UNCHANGED <<record, fresh>>
          /\ Return(p, call[p].got) \/ Fail(p)
    BY <1>3 DEF SalvageSibling
  <2>2. record' \in [Stores -> Tokens \cup {Absent}] /\ fresh' \in BOOLEAN
    BY <1>1, <2>1, StampTyped
  <2>3. faults' \in 0 .. MaxFaults
    BY <2>1, OutcomeTyped
  <2>4. Leave(p) /\ mem' \in [Procs -> Tokens]
    BY <1>1, <2>1, ReturnTyped, FailTyped
  <2> QED BY <1>3, <2>2, <2>3, <2>4, LeaveTyped DEF TypeOK, SalvageSibling
<1> QED BY <1>2, <1>3

LEMMA PropagateTyped ==
  ASSUME TypeOK, NEW p \in Procs, Propagate(p)
  PROVE  TypeOK'
<1> DEFINE s == Sibling(call[p].primary)
<1>1. /\ call[p].exch \in Tokens /\ call[p].got \in Tokens /\ s \in Stores
      /\ call[p].tries \in 0 .. COMMIT_ATTEMPTS
  BY CallFields DEF TypeOK
<1> HIDE DEF s
<1>2. CASE /\ Stamp(s, call[p].exch, call[p].got)
           /\ Goto(p, "discard")
           /\ UNCHANGED <<lease, faults, mem, call>>
  <2>1. record' \in [Stores -> Tokens \cup {Absent}] /\ fresh' \in BOOLEAN
    BY <1>1, <1>2, StampTyped
  <2>2. pc' \in [Procs -> Steps]
    BY <1>2, GotoTyped DEF TypeOK, Steps
  <2> QED BY <1>2, <2>1, <2>2 DEF TypeOK, Propagate
<1>3. CASE /\ Fault /\ UNCHANGED <<record, fresh>>
           /\ IF call[p].tries + 1 < PROPAGATE_ATTEMPTS
              THEN /\ call' = [call EXCEPT ![p].tries = @ + 1]
                   /\ UNCHANGED <<lease, pc, mem>>
              ELSE Return(p, call[p].got)
           /\ UNCHANGED <<live, lost, journal>>
  <2>1. faults' \in 0 .. MaxFaults
    BY <1>3, FaultTyped
  <2>2. CASE call[p].tries + 1 < PROPAGATE_ATTEMPTS
    <3>1. call[p].tries + 1 \in 0 .. COMMIT_ATTEMPTS
      BY <1>1, <2>2 DEF COMMIT_ATTEMPTS, PROPAGATE_ATTEMPTS
    <3>2. call' = [call EXCEPT ![p].tries = call[p].tries + 1]
      BY <1>3, <2>2 DEF TypeOK
    <3>3. call' \in [Procs -> Calls]
      BY <3>1, <3>2, TriesTyped
    <3> QED BY <1>3, <2>1, <2>2, <3>3 DEF TypeOK, Propagate
  <2>3. CASE ~(call[p].tries + 1 < PROPAGATE_ATTEMPTS)
    BY <1>1, <1>3, <2>1, <2>3, ReturnTyped, LeaveTyped DEF TypeOK, Propagate
  <2> QED BY <2>2, <2>3
<1> QED BY <1>2, <1>3 DEF Propagate, s

LEMMA DiscardTyped ==
  ASSUME TypeOK, NEW p \in Procs, Discard(p)
  PROVE  TypeOK'
<1>1. call[p].exch \in Tokens /\ call[p].got \in Tokens
  BY CallFields DEF TypeOK
<1> QED BY <1>1, DeleteJournalTyped, ReturnTyped, LeaveTyped DEF TypeOK, Discard

LEMMA EnvironmentTyped ==
  ASSUME TypeOK, Environment
  PROVE  TypeOK'
<1>1. CASE ExpireAccess BY <1>1 DEF TypeOK, ExpireAccess
<1>2. CASE \E s \in Stores : Remove(s) BY <1>2 DEF TypeOK, Remove
<1>3. CASE \E p \in Procs : Quarantine(p) BY <1>3 DEF TypeOK, Quarantine
<1>4. ASSUME NEW p \in Procs, Crash(p)
      PROVE  TypeOK'
  <2>1. pc' \in [Procs -> Steps]
    BY <1>4 DEF TypeOK, Crash, Steps
  <2>2. call' \in [Procs -> Calls]
    BY <1>4, NewCallTyped, CallPut DEF TypeOK, Crash, Stores
  <2>3. mem' \in [Procs -> Tokens]
    BY <1>4 DEF TypeOK, Crash, Stores
  <2>4. faults' \in 0 .. MaxFaults
    BY <1>4, FaultTyped DEF Crash
  <2>5. live' \in Tokens /\ lost' \in BOOLEAN
    BY <1>4, NextToken DEF TypeOK, Crash
  <2>6. lease' \in Procs \cup {Free, Abandoned}
    BY <1>4 DEF TypeOK, Crash
  <2> QED BY <1>4, <2>1, <2>2, <2>3, <2>4, <2>5, <2>6 DEF TypeOK, Crash
<1> QED BY <1>1, <1>2, <1>3, <1>4 DEF Environment

LEMMA InitTyped == Init => TypeOK
<1> SUFFICES ASSUME Init PROVE TypeOK
  OBVIOUS
<1>1. 0 \in Tokens /\ 0 \in 0 .. MaxFaults
  BY RefreshAssumption DEF Tokens
<1>2. call \in [Procs -> Calls]
  BY NewCallTyped DEF Init, Stores
<1> QED BY <1>1, <1>2 DEF Init, TypeOK, Stores, Steps

LEMMA StepTyped == TypeOK /\ [Next]_vars => TypeOK'
<1> SUFFICES ASSUME TypeOK, [Next]_vars PROVE TypeOK'
  OBVIOUS
<1>1. ASSUME NEW p \in Procs, Step(p) PROVE TypeOK'
  BY <1>1, RecoverTyped, ReplayAccountsTyped, ReplayFlaggedTyped, ProbeTyped, SpendTyped,
     ExchangeTyped, JournalTyped, CommitTyped, RetargetTyped, SalvageTyped,
     PropagateTyped, DiscardTyped DEF Step
<1>2. ASSUME NEW p \in Procs, NEW s \in Stores, Begin(p, s) PROVE TypeOK'
  BY <1>2, BeginTyped
<1>3. CASE Environment BY <1>3, EnvironmentTyped
<1>4. CASE UNCHANGED vars BY <1>4 DEF TypeOK, vars
<1> QED BY <1>1, <1>2, <1>3, <1>4 DEF Next

(***************************************************************************)
(* The refresh's variables keep their types, whatever the hazards.         *)
(***************************************************************************)
THEOREM TypeCorrect == Spec => []TypeOK
BY InitTyped, StepTyped, PTL DEF Spec

-----------------------------------------------------------------------------
(* Tokens are numbers, and what the small changes of a call leave alone.   *)

LEMMA TokensAreNumbers == \A t \in Tokens : t \in Int /\ t # Absent /\ t >= 0
BY RefreshAssumption DEF Tokens, Absent

\* A call whose only change is the replacement it got.
LEMMA GotFields ==
  ASSUME TypeOK, NEW p \in Procs, NEW t \in Tokens, call' = [call EXCEPT ![p].got = t]
  PROVE  /\ call'[p].got = t /\ call'[p].exch = call[p].exch
         /\ call'[p].primary = call[p].primary /\ call'[p].todo = call[p].todo
         /\ call'[p].visit = call[p].visit /\ call'[p].kept = call[p].kept
         /\ \A q \in Procs : q # p => call'[q] = call[q]
<1>1. /\ call'[p] = [call[p] EXCEPT !.got = t] /\ call[p] \in Calls
      /\ \A q \in Procs : q # p => call'[q] = call[q]
  BY GotTyped DEF TypeOK
<1> QED BY <1>1 DEF Calls

\* The same for the calls whose only change is a counter or a flag.
LEMMA TriesFields ==
  ASSUME TypeOK, NEW p \in Procs, NEW n \in 0 .. COMMIT_ATTEMPTS, NEW ok \in BOOLEAN,
         \/ call' = [call EXCEPT ![p].tries = n]
         \/ call' = [call EXCEPT ![p].landed = ok]
         \/ call' = call
  PROVE  /\ call'[p].got = call[p].got /\ call'[p].exch = call[p].exch
         /\ call'[p].primary = call[p].primary /\ call'[p].todo = call[p].todo
         /\ call'[p].visit = call[p].visit /\ call'[p].kept = call[p].kept
         /\ \A q \in Procs : q # p => call'[q] = call[q]
<1>1. call[p] \in Calls
  BY DEF TypeOK
<1>2. CASE call' = [call EXCEPT ![p].tries = n]
  BY <1>1, <1>2, TriesTyped DEF Calls
<1>3. CASE call' = [call EXCEPT ![p].landed = ok]
  BY <1>1, <1>3, LandedTyped DEF Calls
<1> QED BY <1>2, <1>3

-----------------------------------------------------------------------------
(***************************************************************************)
(* No token is older than it looks: every token in a record, a journal or  *)
(* a call was issued no later than the live one.  A session that flags its *)
(* account with the live token therefore overwrites nothing newer.         *)
(***************************************************************************)
IssuedEntry(e) == e.consumed <= live /\ e.rotated <= live

IssuedRecords == \A s \in Stores : record[s] <= live

IssuedJournals == \A k \in Tokens : IssuedEntry(journal[k])

IssuedCall(p) ==
  /\ call[p].exch <= live /\ call[p].got <= live
  /\ \A e \in call[p].todo \cup call[p].visit \cup call[p].kept : IssuedEntry(e)

IssuedInv == IssuedRecords /\ IssuedJournals /\ \A p \in Procs : IssuedCall(p)

\* The numbers behind the types.
LEMMA Numbers ==
  ASSUME TypeOK
  PROVE  /\ live \in Int /\ live >= 0
         /\ \A s \in Stores : record[s] \in Int
         /\ \A k \in Tokens : journal[k].consumed \in Int /\ journal[k].rotated \in Int
         /\ \A p \in Procs :
              /\ call[p].exch \in Int /\ call[p].got \in Int
              /\ \A e \in call[p].todo \cup call[p].visit \cup call[p].kept :
                   e.consumed \in Int /\ e.rotated \in Int
<1>1. live \in Int /\ live >= 0 /\ \A s \in Stores : record[s] \in Int
  BY TokensAreNumbers DEF TypeOK, Absent
<1>2. \A e \in Entries \cup {NoEntry} : e.consumed \in Int /\ e.rotated \in Int
  BY TokensAreNumbers DEF Entries, NoEntry, Absent
<1>3. \A k \in Tokens : journal[k].consumed \in Int /\ journal[k].rotated \in Int
  BY <1>2 DEF TypeOK
<1>4. ASSUME NEW p \in Procs
      PROVE  /\ call[p].exch \in Int /\ call[p].got \in Int
             /\ \A e \in call[p].todo \cup call[p].visit \cup call[p].kept :
                  e.consumed \in Int /\ e.rotated \in Int
  <2>1. call[p] \in Calls
    BY DEF TypeOK
  <2>2. call[p].exch \in Int /\ call[p].got \in Int
    BY <2>1, CallFields, TokensAreNumbers
  <2>3. \A e \in call[p].todo \cup call[p].visit \cup call[p].kept : e \in Entries
    BY <2>1, CallFields
  <2> QED BY <2>2, <2>3, <1>2
<1> QED BY <1>1, <1>3, <1>4

\* The processes that did not move keep issued tokens.
LEMMA IssuedFrame ==
  ASSUME TypeOK, TypeOK', IssuedInv, NEW p \in Procs, live' >= live,
         IssuedRecords', IssuedJournals', IssuedCall(p)',
         \A q \in Procs : q # p => call'[q] = call[q]
  PROVE  IssuedInv'
<1> SUFFICES ASSUME NEW q \in Procs, q # p PROVE IssuedCall(q)'
  BY DEF IssuedInv
<1>1. IssuedCall(q) /\ call'[q] = call[q]
  BY DEF IssuedInv
<1>2. live \in Int /\ live' \in Int
  BY TokensAreNumbers DEF TypeOK
<1>3. /\ call[q].exch \in Int /\ call[q].got \in Int
      /\ \A e \in call[q].todo \cup call[q].visit \cup call[q].kept :
           e.consumed \in Int /\ e.rotated \in Int
  BY Numbers
<1> QED BY <1>1, <1>2, <1>3 DEF IssuedCall, IssuedEntry

LEMMA LeaveIssued ==
  ASSUME TypeOK, TypeOK', NEW p \in Procs, Leave(p)
  PROVE  /\ IssuedCall(p)'
         /\ \A q \in Procs : q # p => call'[q] = call[q]
<1>1. /\ call'[p] = NewCall("accounts")
      /\ \A q \in Procs : q # p => call'[q] = call[q]
  BY LeaveTyped
<1>2. /\ call'[p].exch = 0 /\ call'[p].got = 0
      /\ call'[p].todo = {} /\ call'[p].visit = {} /\ call'[p].kept = {}
  BY <1>1 DEF NewCall
<1>3. 0 <= live'
  BY TokensAreNumbers DEF TypeOK
<1> QED BY <1>1, <1>2, <1>3 DEF IssuedCall

LEMMA StampIssued ==
  ASSUME TypeOK, IssuedInv, NEW s \in Stores, NEW c \in Tokens, NEW r \in Tokens,
         r <= live, live' = live, Stamp(s, c, r) \/ UNCHANGED <<record, fresh>>
  PROVE  IssuedRecords'
<1>1. \A x \in Stores : record'[x] \in {record[x], r}
  BY DEF TypeOK, Stamp
<1> QED BY <1>1, Numbers DEF IssuedInv, IssuedRecords

LEMMA WriteIssued ==
  ASSUME TypeOK, IssuedInv, NEW c \in Tokens, NEW r \in Tokens, c <= live, r <= live,
         live' = live, WriteJournal(c, r) \/ UNCHANGED journal
  PROVE  IssuedJournals'
BY DEF TypeOK, IssuedInv, IssuedJournals, IssuedEntry, WriteJournal, JournalFile

LEMMA DeleteIssued ==
  ASSUME TypeOK, IssuedInv, NEW c \in Tokens, live' = live,
         DeleteJournal(c) \/ UNCHANGED journal
  PROVE  IssuedJournals'
<1>1. IssuedEntry(NoEntry)
  BY Numbers DEF IssuedEntry, NoEntry, Absent
<1>2. \A k \in Tokens : journal'[k] \in {journal[k], NoEntry}
  BY DEF TypeOK, DeleteJournal, JournalFile
<1> QED BY <1>1, <1>2 DEF IssuedInv, IssuedJournals, IssuedEntry

LEMMA PendingIssued ==
  ASSUME IssuedInv
  PROVE  \A e \in Pending : IssuedEntry(e)
BY DEF IssuedInv, IssuedJournals, Pending

LEMMA StartPassIssued ==
  ASSUME TypeOK, TypeOK', IssuedInv, NEW p \in Procs, NEW E \in SUBSET Entries,
         live' = live, \A e \in E : IssuedEntry(e), StartPass(p, E)
  PROVE  /\ IssuedCall(p)'
         /\ \A q \in Procs : q # p => call'[q] = call[q]
<1>1. call[p] \in Calls /\ call[p].primary \in Stores
  BY CallFields DEF TypeOK
<1>2. CASE E = {}
  <2>1. call' = [call EXCEPT ![p] = NewCall(call[p].primary)]
    BY <1>1, <1>2 DEF StartPass, TypeOK
  <2>2. call'[p] = NewCall(call[p].primary) /\ \A q \in Procs : q # p => call'[q] = call[q]
    BY <2>1, <1>1, NewCallTyped, CallPut DEF TypeOK
  <2>3. /\ call'[p].exch = 0 /\ call'[p].got = 0
        /\ call'[p].todo = {} /\ call'[p].visit = {} /\ call'[p].kept = {}
    BY <2>2 DEF NewCall
  <2> QED BY <2>2, <2>3, Numbers DEF IssuedCall
<1>3. CASE E # {} /\ Ready(E) = {} BY <1>3, LeaveIssued DEF StartPass, Fail
<1>4. CASE E # {} /\ Ready(E) # {}
  <2>1. Ready(E) \in SUBSET E /\ E \ Ready(E) \in SUBSET E
    BY DEF Ready
  <2>2. call' = [call EXCEPT ![p] = [call[p] EXCEPT !.todo = E, !.visit = Ready(E),
                                                   !.kept = E \ Ready(E)]]
    BY <1>4 DEF StartPass, TypeOK
  <2>3. [call[p] EXCEPT !.todo = E, !.visit = Ready(E), !.kept = E \ Ready(E)] \in Calls
    BY <1>1, <2>1 DEF Calls
  <2>4. /\ call'[p] = [call[p] EXCEPT !.todo = E, !.visit = Ready(E), !.kept = E \ Ready(E)]
        /\ \A q \in Procs : q # p => call'[q] = call[q]
    BY <2>2, <2>3, CallPut DEF TypeOK
  <2>5. /\ call'[p].todo = E /\ call'[p].visit = Ready(E) /\ call'[p].kept = E \ Ready(E)
        /\ call'[p].exch = call[p].exch /\ call'[p].got = call[p].got
    BY <2>4, <1>1 DEF Calls
  <2> QED BY <2>1, <2>4, <2>5 DEF IssuedInv, IssuedCall, IssuedEntry
<1> QED BY <1>2, <1>3, <1>4

LEMMA FinishEntryIssued ==
  ASSUME TypeOK, TypeOK', IssuedInv, NEW p \in Procs, NEW e \in Entries, IssuedEntry(e),
         NEW replayed \in BOOLEAN, live' = live, FinishEntry(p, e, replayed)
  PROVE  /\ IssuedCall(p)'
         /\ \A q \in Procs : q # p => call'[q] = call[q]
<1> DEFINE visit == call[p].visit \ {e}
           kept == IF replayed THEN call[p].kept ELSE call[p].kept \cup {e}
<1>1. /\ call[p] \in Calls /\ visit \in SUBSET Entries /\ kept \in SUBSET Entries
      /\ \A x \in call[p].todo \cup visit \cup kept : IssuedEntry(x)
      /\ call[p].exch <= live /\ call[p].got <= live
  BY CallFields DEF TypeOK, IssuedInv, IssuedCall
<1> HIDE DEF visit, kept
<1>2. CASE visit # {}
  <2>1. call' = [call EXCEPT ![p].visit = visit, ![p].kept = kept]
    BY <1>2 DEF FinishEntry, visit, kept
  <2>2. call' = [call EXCEPT ![p] = [call[p] EXCEPT !.visit = visit, !.kept = kept]]
    BY <2>1 DEF TypeOK
  <2>3. [call[p] EXCEPT !.visit = visit, !.kept = kept] \in Calls
    BY <1>1 DEF Calls
  <2>4. /\ call'[p] = [call[p] EXCEPT !.visit = visit, !.kept = kept]
        /\ \A q \in Procs : q # p => call'[q] = call[q]
    BY <2>2, <2>3, CallPut DEF TypeOK
  <2>5. /\ call'[p].todo = call[p].todo /\ call'[p].visit = visit /\ call'[p].kept = kept
        /\ call'[p].exch = call[p].exch /\ call'[p].got = call[p].got
    BY <2>4, <1>1 DEF Calls
  <2> QED BY <1>1, <2>4, <2>5 DEF IssuedCall, IssuedEntry
<1>3. CASE visit = {} /\ kept = call[p].todo
  <2>1. Leave(p)
    BY <1>3 DEF FinishEntry, Fail, visit, kept
  <2> QED BY <2>1, LeaveIssued
<1>4. CASE visit = {} /\ kept # call[p].todo
  <2>1. StartPass(p, kept)
    BY <1>4 DEF FinishEntry, visit, kept
  <2> QED BY <2>1, <1>1, StartPassIssued
<1> QED BY <1>2, <1>3, <1>4

\* A call that keeps its entries and exchanges nothing new.
LEMMA MoveIssued ==
  ASSUME TypeOK, IssuedInv, NEW p \in Procs, live' = live,
         call'[p].exch = call[p].exch, call'[p].got <= live,
         call'[p].todo = call[p].todo, call'[p].visit = call[p].visit,
         call'[p].kept = call[p].kept
  PROVE  IssuedCall(p)'
BY DEF IssuedInv, IssuedCall, IssuedEntry

LEMMA ReplayAccountsIssued ==
  ASSUME TypeOK, TypeOK', IssuedInv, NEW p \in Procs, ReplayAccounts(p)
  PROVE  IssuedInv'
<1>1. PICK e \in call[p].visit, ok \in BOOLEAN :
         /\ IF ok THEN Stamp("accounts", e.consumed, e.rotated)
                  ELSE UNCHANGED <<record, fresh>>
         /\ call' = [call EXCEPT ![p].exch = e.consumed, ![p].got = e.rotated,
                                 ![p].landed = ok]
  BY DEF ReplayAccounts
<1>2. /\ call[p] \in Calls /\ e.consumed \in Tokens /\ e.rotated \in Tokens
      /\ e.consumed <= live /\ e.rotated <= live
  BY CallFields DEF TypeOK, Entries, IssuedInv, IssuedCall, IssuedEntry
<1>3. [call[p] EXCEPT !.exch = e.consumed, !.got = e.rotated, !.landed = ok] \in Calls
  BY <1>2 DEF Calls
<1>4. call' = [call EXCEPT ![p] = [call[p] EXCEPT !.exch = e.consumed, !.got = e.rotated,
                                                  !.landed = ok]]
  BY <1>1 DEF TypeOK
<1>5. /\ call'[p] = [call[p] EXCEPT !.exch = e.consumed, !.got = e.rotated, !.landed = ok]
      /\ \A q \in Procs : q # p => call'[q] = call[q]
  BY <1>3, <1>4, CallPut DEF TypeOK
<1>6. /\ call'[p].exch = e.consumed /\ call'[p].got = e.rotated
      /\ call'[p].todo = call[p].todo /\ call'[p].visit = call[p].visit
      /\ call'[p].kept = call[p].kept
  BY <1>2, <1>5 DEF Calls
<1>7. live' = live /\ journal' = journal /\ live' >= live
  BY Numbers DEF ReplayAccounts
<1>8. IssuedCall(p)'
  BY <1>2, <1>6, <1>7 DEF IssuedInv, IssuedCall, IssuedEntry
<1>9. IssuedRecords'
  BY <1>1, <1>2, <1>7, StampIssued DEF Stores
<1>10. IssuedJournals'
  BY <1>7 DEF IssuedInv, IssuedJournals, IssuedEntry
<1> QED BY <1>5, <1>7, <1>8, <1>9, <1>10, IssuedFrame

LEMMA ReplayFlaggedIssued ==
  ASSUME TypeOK, TypeOK', IssuedInv, NEW p \in Procs, ReplayFlagged(p)
  PROVE  IssuedInv'
<1> DEFINE e == [consumed |-> call[p].exch, rotated |-> call[p].got]
<1>1. PICK ok \in BOOLEAN :
         /\ IF ok THEN Stamp("flagged", e.consumed, e.rotated)
                  ELSE UNCHANGED <<record, fresh>>
         /\ DeleteJournal(e.consumed) \/ UNCHANGED journal
         /\ FinishEntry(p, e, Replayed(call[p].landed, ok))
  BY DEF ReplayFlagged
<1>2. /\ e \in Entries /\ e.consumed \in Tokens /\ e.rotated \in Tokens
      /\ call[p].landed \in BOOLEAN
  BY CallFields DEF TypeOK, Entries
<1>3. e.consumed <= live /\ e.rotated <= live
  BY DEF IssuedInv, IssuedCall
<1>4. Replayed(call[p].landed, ok) \in BOOLEAN
  BY DEF Replayed
<1>5. live' = live /\ live' >= live
  BY Numbers DEF ReplayFlagged
<1> HIDE DEF e
<1>6. IssuedRecords'
  BY <1>1, <1>2, <1>3, <1>5, StampIssued DEF Stores
<1>7. IssuedJournals'
  BY <1>1, <1>2, <1>5, DeleteIssued
<1>8. /\ IssuedCall(p)'
      /\ \A q \in Procs : q # p => call'[q] = call[q]
  BY <1>1, <1>2, <1>3, <1>4, <1>5, FinishEntryIssued DEF IssuedEntry
<1> QED BY <1>5, <1>6, <1>7, <1>8, IssuedFrame

LEMMA ProbeIssued ==
  ASSUME TypeOK, TypeOK', IssuedInv, NEW p \in Procs, Probe(p)
  PROVE  IssuedInv'
<1> DEFINE s == call[p].primary
<1>1. s \in Stores /\ call[p] \in Calls
  BY CallFields DEF TypeOK
<1>2. record[s] \in Tokens \/ Missing(s)
  BY <1>1 DEF TypeOK, Missing
<1>3. live' = live /\ live' >= live /\ IssuedRecords' /\ IssuedJournals'
  BY Numbers DEF Probe, IssuedInv, IssuedRecords, IssuedJournals, IssuedEntry
<1>4. CASE Leave(p) BY <1>3, <1>4, LeaveIssued, IssuedFrame
<1>5. CASE /\ ~Missing(s)
           /\ call' = [call EXCEPT ![p].exch = record[s]]
  <2>1. call' = [call EXCEPT ![p] = [call[p] EXCEPT !.exch = record[s]]]
    BY <1>5 DEF TypeOK
  <2>2. [call[p] EXCEPT !.exch = record[s]] \in Calls
    BY <1>1, <1>2, <1>5 DEF Calls
  <2>3. /\ call'[p] = [call[p] EXCEPT !.exch = record[s]]
        /\ \A q \in Procs : q # p => call'[q] = call[q]
    BY <2>1, <2>2, CallPut DEF TypeOK
  <2>4. /\ call'[p].exch = record[s] /\ call'[p].got = call[p].got
        /\ call'[p].todo = call[p].todo /\ call'[p].visit = call[p].visit
        /\ call'[p].kept = call[p].kept
    BY <2>3, <1>1 DEF Calls
  <2>5. IssuedCall(p)'
    BY <1>1, <1>3, <2>4 DEF IssuedInv, IssuedRecords, IssuedCall, IssuedEntry
  <2> QED BY <1>3, <2>3, <2>5, IssuedFrame
<1> QED BY <1>4, <1>5 DEF Probe, Return, Fail

LEMMA ExchangeIssued ==
  ASSUME TypeOK, TypeOK', IssuedInv, NEW p \in Procs, Exchange(p)
  PROVE  IssuedInv'
<1>1. live' \in {live, live + 1} /\ live' >= live /\ live \in Int
  BY Numbers DEF Exchange, ProviderRotates, ProviderKeeps, ProviderRejects, ReplyLost
<1>2. record' = record /\ journal' = journal
  BY DEF Exchange, ProviderRotates, ProviderKeeps, ProviderRejects, ReplyLost
<1>3. IssuedRecords' /\ IssuedJournals'
  BY <1>1, <1>2, Numbers DEF IssuedInv, IssuedRecords, IssuedJournals, IssuedEntry
<1>4. CASE ProviderRotates(p) \/ ProviderKeeps(p)
  <2>1. live' \in Tokens
    BY DEF TypeOK
  <2>2. call' = [call EXCEPT ![p].got = live']
    BY <1>4 DEF ProviderRotates, ProviderKeeps
  <2>3. /\ call'[p].got = live' /\ call'[p].exch = call[p].exch
        /\ call'[p].todo = call[p].todo /\ call'[p].visit = call[p].visit
        /\ call'[p].kept = call[p].kept
        /\ \A q \in Procs : q # p => call'[q] = call[q]
    BY <2>1, <2>2, GotFields
  <2>4. IssuedCall(p)'
    BY <1>1, <2>3, Numbers DEF IssuedInv, IssuedCall, IssuedEntry
  <2> QED BY <1>1, <1>3, <2>3, <2>4, IssuedFrame
<1>5. CASE ProviderRejects(p) \/ ReplyLost(p)
  BY <1>1, <1>3, <1>5, LeaveIssued, IssuedFrame DEF ProviderRejects, ReplyLost, Fail
<1> QED BY <1>4, <1>5 DEF Exchange

LEMMA CommitIssued ==
  ASSUME TypeOK, TypeOK', IssuedInv, NEW p \in Procs, Commit(p)
  PROVE  IssuedInv'
<1> DEFINE s == call[p].primary
<1>1. /\ s \in Stores /\ call[p].got \in Tokens /\ call[p].tries \in 0 .. COMMIT_ATTEMPTS
      /\ call[p].exch <= live /\ call[p].got <= live
  BY CallFields DEF TypeOK, IssuedInv, IssuedCall
<1>2. live' = live /\ live' >= live /\ journal' = journal
  BY Numbers DEF Commit
<1>3. IssuedJournals'
  BY <1>2 DEF IssuedInv, IssuedJournals, IssuedEntry
<1>4. record' = record \/ record' = [record EXCEPT ![s] = call[p].got]
  BY DEF Commit
<1>5. IssuedRecords'
  BY <1>1, <1>2, <1>4 DEF TypeOK, IssuedInv, IssuedRecords
<1>6. CASE Leave(p) BY <1>2, <1>3, <1>5, <1>6, LeaveIssued, IssuedFrame
<1>7. CASE call' = call
  BY <1>2, <1>3, <1>5, <1>7, MoveIssued, IssuedFrame, <1>1
<1>8. CASE /\ call[p].tries + 1 < COMMIT_ATTEMPTS
           /\ call' = [call EXCEPT ![p].tries = @ + 1]
  <2>1. call[p].tries + 1 \in 0 .. COMMIT_ATTEMPTS
    BY <1>1, <1>8 DEF COMMIT_ATTEMPTS
  <2>2. call' = [call EXCEPT ![p].tries = call[p].tries + 1]
    BY <1>8 DEF TypeOK
  <2> QED BY <1>1, <1>2, <1>3, <1>5, <2>1, <2>2, TriesFields, MoveIssued, IssuedFrame
<1>9. CASE Superseded(p, record[s]) /\ call' = [call EXCEPT ![p].got = record[s]]
  <2>1. record[s] \in Tokens /\ record[s] <= live
    BY <1>1, <1>9 DEF TypeOK, Superseded, IssuedInv, IssuedRecords
  <2> QED BY <1>1, <1>2, <1>3, <1>5, <1>9, <2>1, GotFields, MoveIssued, IssuedFrame
<1>10. CASE call' = [call EXCEPT ![p].tries = 0]
  <2>1. 0 \in 0 .. COMMIT_ATTEMPTS
    BY DEF COMMIT_ATTEMPTS
  <2> QED BY <1>1, <1>2, <1>3, <1>5, <1>10, <2>1, TriesFields, MoveIssued, IssuedFrame
<1> QED BY <1>6, <1>7, <1>8, <1>9, <1>10 DEF Commit, Return, Fail

\* The steps after the exchange that only stamp, journal, count or leave.
LEMMA DurableIssued ==
  ASSUME TypeOK, TypeOK', IssuedInv, NEW p \in Procs,
         Journal(p) \/ Retarget(p) \/ SalvagePrimary(p) \/ SalvageSibling(p)
           \/ Propagate(p) \/ Discard(p)
  PROVE  IssuedInv'
<1>1. /\ call[p].exch \in Tokens /\ call[p].got \in Tokens
      /\ call[p].primary \in Stores /\ Sibling(call[p].primary) \in Stores
      /\ call[p].tries \in 0 .. COMMIT_ATTEMPTS
      /\ call[p].exch <= live /\ call[p].got <= live
  BY CallFields DEF TypeOK, IssuedInv, IssuedCall
<1>2. live' = live /\ live' >= live
  BY Numbers DEF Journal, Retarget, SalvagePrimary, SalvageSibling, Propagate, Discard
<1>3. \/ WriteJournal(call[p].exch, call[p].got) \/ DeleteJournal(call[p].exch)
      \/ UNCHANGED journal
  BY DEF Journal, Retarget, SalvagePrimary, SalvageSibling, Propagate, Discard
<1>4. IssuedJournals'
  BY <1>1, <1>2, <1>3, WriteIssued, DeleteIssued
<1>5. \/ record' = record
      \/ \E s \in Stores : Stamp(s, call[p].exch, call[p].got)
  BY <1>1 DEF Journal, Retarget, SalvagePrimary, SalvageSibling, Propagate, Discard
<1>6. IssuedRecords'
  <2>1. CASE record' = record BY <1>2, <2>1 DEF IssuedInv, IssuedRecords
  <2>2. CASE \E s \in Stores : Stamp(s, call[p].exch, call[p].got)
    BY <1>1, <1>2, <2>2, StampIssued
  <2> QED BY <1>5, <2>1, <2>2
<1>7. CASE Leave(p) BY <1>2, <1>4, <1>6, <1>7, LeaveIssued, IssuedFrame
<1>8. CASE \E n \in 0 .. COMMIT_ATTEMPTS, ok \in BOOLEAN :
             \/ call' = [call EXCEPT ![p].tries = n]
             \/ call' = [call EXCEPT ![p].landed = ok]
             \/ call' = call
  BY <1>1, <1>2, <1>4, <1>6, <1>8, TriesFields, MoveIssued, IssuedFrame
<1>9. CASE call' = call
  BY <1>1, <1>2, <1>4, <1>6, <1>9, MoveIssued, IssuedFrame
<1>10. ASSUME SalvagePrimary(p) PROVE IssuedInv'
  <2>1. PICK ok \in BOOLEAN :
          call' = [call EXCEPT ![p].landed =
                     (ok /\ record[call[p].primary] = call[p].exch)]
    BY <1>10 DEF SalvagePrimary
  <2>2. (ok /\ record[call[p].primary] = call[p].exch) \in BOOLEAN /\ 0 \in 0 .. COMMIT_ATTEMPTS
    BY DEF COMMIT_ATTEMPTS
  <2> QED BY <2>1, <2>2, <1>8
<1>11. ASSUME Propagate(p) PROVE IssuedInv'
  <2>1. CASE /\ call[p].tries + 1 < PROPAGATE_ATTEMPTS
             /\ call' = [call EXCEPT ![p].tries = @ + 1]
    <3>1. call[p].tries + 1 \in 0 .. COMMIT_ATTEMPTS
      BY <1>1, <2>1 DEF COMMIT_ATTEMPTS, PROPAGATE_ATTEMPTS
    <3>2. call' = [call EXCEPT ![p].tries = call[p].tries + 1] /\ TRUE \in BOOLEAN
      BY <2>1 DEF TypeOK
    <3> QED BY <3>1, <3>2, <1>8
  <2> QED BY <1>7, <1>9, <1>11, <2>1 DEF Propagate, Return
<1> QED BY <1>7, <1>9, <1>10, <1>11 DEF Journal, Retarget, SalvageSibling, Discard, Return, Fail

LEMMA EnvironmentIssued ==
  ASSUME TypeOK, TypeOK', IssuedInv, Environment, "stale_quarantine" \notin Hazards
  PROVE  IssuedInv'
<1>1. CASE ExpireAccess
  BY <1>1 DEF ExpireAccess, IssuedInv, IssuedRecords, IssuedJournals, IssuedCall, IssuedEntry
<1>2. ASSUME NEW s \in Stores, Remove(s) PROVE IssuedInv'
  <2>1. \A x \in Stores : record'[x] \in {record[x], Absent}
    BY <1>2 DEF TypeOK, Remove
  <2>2. live' = live /\ journal' = journal /\ call' = call
    BY <1>2 DEF Remove
  <2>3. IssuedRecords'
    BY <2>1, <2>2, Numbers DEF IssuedInv, IssuedRecords, Absent
  <2> QED BY <2>2, <2>3 DEF IssuedInv, IssuedJournals, IssuedCall, IssuedEntry
<1>3. ASSUME NEW p \in Procs, Quarantine(p) PROVE IssuedInv'
  <2>1. record' = [record EXCEPT !["flagged"] = live]
    BY <1>3 DEF Quarantine
  <2>2. live' = live /\ journal' = journal /\ call' = call
    BY <1>3 DEF Quarantine
  <2>3. IssuedRecords'
    BY <2>1, <2>2, Numbers DEF TypeOK, IssuedInv, IssuedRecords
  <2> QED BY <2>2, <2>3 DEF IssuedInv, IssuedJournals, IssuedCall, IssuedEntry
<1>4. ASSUME NEW p \in Procs, Crash(p) PROVE IssuedInv'
  <2>1. live' \in {live, live + 1} /\ live' >= live /\ live \in Int
    BY <1>4, Numbers DEF Crash
  <2>2. IssuedRecords' /\ IssuedJournals'
    BY <1>4, <2>1, Numbers DEF Crash, IssuedInv, IssuedRecords, IssuedJournals, IssuedEntry
  <2>3. call' = [call EXCEPT ![p] = NewCall("accounts")] /\ "accounts" \in Stores
    BY <1>4 DEF Crash, Stores
  <2>4. /\ call'[p] = NewCall("accounts")
        /\ \A q \in Procs : q # p => call'[q] = call[q]
    BY <2>3, NewCallTyped, CallPut DEF TypeOK
  <2>5. IssuedCall(p)'
    BY <2>1, <2>3, <2>4, NewCallTyped, Numbers DEF IssuedCall
  <2> QED BY <2>1, <2>2, <2>4, <2>5, IssuedFrame
<1> QED BY <1>1, <1>2, <1>3, <1>4 DEF Environment

LEMMA InitIssued == Init => IssuedInv
<1> SUFFICES ASSUME Init PROVE IssuedInv
  OBVIOUS
<1>1. IssuedRecords /\ IssuedJournals
  BY DEF Init, IssuedRecords, IssuedJournals, IssuedEntry, NoEntry, Absent
<1>2. ASSUME NEW p \in Procs PROVE IssuedCall(p)
  BY <1>2 DEF Init, IssuedCall, NewCall
<1> QED BY <1>1, <1>2 DEF IssuedInv

LEMMA StepIssued ==
  ASSUME TypeOK, IssuedInv, [Next]_vars, "stale_quarantine" \notin Hazards
  PROVE  IssuedInv'
<1>1. TypeOK'
  BY StepTyped
<1>2. ASSUME NEW p \in Procs, Recover(p) PROVE IssuedInv'
  <2>1. PICK unread \in SUBSET Pending : StartPass(p, Pending \ unread)
    BY <1>2 DEF Recover
  <2>2. Pending \ unread \in SUBSET Entries /\ \A e \in Pending \ unread : IssuedEntry(e)
    BY PendingTyped, PendingIssued
  <2>3. live' = live /\ live' >= live /\ IssuedRecords' /\ IssuedJournals'
    BY <1>2, Numbers DEF Recover, IssuedInv, IssuedRecords, IssuedJournals, IssuedEntry
  <2> QED BY <1>1, <2>1, <2>2, <2>3, StartPassIssued, IssuedFrame
<1>3. ASSUME NEW p \in Procs, Spend(p) PROVE IssuedInv'
  <2>1. live' = live /\ live' >= live /\ IssuedRecords' /\ IssuedJournals'
    BY <1>3, Numbers DEF Spend, IssuedInv, IssuedRecords, IssuedJournals, IssuedEntry
  <2>2. CASE Leave(p) BY <1>1, <2>1, <2>2, LeaveIssued, IssuedFrame
  <2>3. CASE call' = call BY <2>1, <2>3 DEF IssuedInv, IssuedCall, IssuedEntry
  <2> QED BY <1>3, <2>2, <2>3 DEF Spend, Fail
<1>4. ASSUME NEW p \in Procs, Step(p) PROVE IssuedInv'
  BY <1>1, <1>2, <1>3, <1>4, ReplayAccountsIssued, ReplayFlaggedIssued, ProbeIssued,
     ExchangeIssued, CommitIssued, DurableIssued DEF Step
<1>5. ASSUME NEW p \in Procs, NEW s \in Stores, Begin(p, s) PROVE IssuedInv'
  <2>1. live' = live /\ live' >= live /\ IssuedRecords' /\ IssuedJournals'
    BY <1>5, Numbers DEF Begin, IssuedInv, IssuedRecords, IssuedJournals, IssuedEntry
  <2>2. call'[p] = NewCall(s) /\ \A q \in Procs : q # p => call'[q] = call[q]
    BY <1>5, NewCallTyped, CallPut DEF TypeOK, Begin
  <2>3. IssuedCall(p)'
    BY <2>1, <2>2, NewCallTyped, Numbers DEF IssuedCall
  <2> QED BY <1>1, <2>1, <2>2, <2>3, IssuedFrame
<1>6. CASE Environment BY <1>1, <1>6, EnvironmentIssued
<1>7. CASE UNCHANGED vars
  BY <1>7 DEF vars, IssuedInv, IssuedRecords, IssuedJournals, IssuedCall, IssuedEntry
<1> QED BY <1>4, <1>5, <1>6, <1>7 DEF Next

-----------------------------------------------------------------------------
(***************************************************************************)
(* Why tokens only move forward.  A journal, a replay and a finished       *)
(* exchange each map a token to a newer one, so stamping moves a record    *)
(* forward; and from the probe to the commit the record a call will        *)
(* overwrite stays at or past the token the call exchanged, so a record    *)
(* that is neither at that token nor at its replacement is newer than it.  *)
(* Only the runtime quarantine writes a token it did not read under this   *)
(* protocol: the live one, unless the session has outlived its token,      *)
(* hence the assumption.                                                   *)
(***************************************************************************)
Replacing == {"replay_flagged", "journal", "salvage_primary", "salvage_sibling",
              "retarget", "propagate", "discard"}

Holding == {"spend", "inflight", "journal", "commit"}

ForwardCall(p) ==
  /\ \A e \in call[p].todo \cup call[p].visit \cup call[p].kept : e.consumed < e.rotated
  /\ pc[p] \in Replacing => call[p].exch < call[p].got
  /\ pc[p] = "commit" => call[p].exch <= call[p].got
  /\ pc[p] \in Holding => \/ record[call[p].primary] = Absent
                          \/ record[call[p].primary] >= call[p].exch

ForwardJournals ==
  \A k \in Tokens : journal[k] # NoEntry => journal[k].consumed < journal[k].rotated

ForwardInv == ForwardJournals /\ \A p \in Procs : ForwardCall(p)

\* What a step of the protocol does to the records.
RecordsForward ==
  \A s \in Stores : record'[s] # Absent => record[s] # Absent /\ record'[s] >= record[s]

\* What every step does to them, the quarantine included.
NoRecordRegresses ==
  \A s \in Stores : record[s] # Absent /\ record'[s] # Absent => record'[s] >= record[s]

LEMMA SameRecords ==
  ASSUME TypeOK, UNCHANGED record
  PROVE  RecordsForward
<1>1. \A s \in Stores : record[s] \in Int
  BY TokensAreNumbers DEF TypeOK, Absent
<1> QED BY <1>1 DEF RecordsForward

LEMMA StampForward ==
  ASSUME TypeOK, NEW s \in Stores, NEW c \in Tokens, NEW r \in Tokens, c < r, Stamp(s, c, r)
  PROVE  RecordsForward
<1>1. \A x \in Stores : record[x] \in Int
  BY TokensAreNumbers DEF TypeOK, Absent
<1>2. c \in Int /\ r \in Int /\ c # Absent
  BY TokensAreNumbers
<1>3. \A x \in Stores : record'[x] = IF x = s /\ record[x] = c THEN r ELSE record[x]
  BY DEF TypeOK, Stamp
<1> QED BY <1>1, <1>2, <1>3 DEF RecordsForward

\* The calls of the processes that did not move stay forward.
LEMMA ForwardFrame ==
  ASSUME TypeOK, TypeOK', ForwardInv, NEW p \in Procs, RecordsForward,
         ForwardJournals', ForwardCall(p)',
         \A q \in Procs : q # p => pc'[q] = pc[q] /\ call'[q] = call[q]
  PROVE  ForwardInv'
<1> SUFFICES ASSUME NEW q \in Procs, q # p PROVE ForwardCall(q)'
  BY DEF ForwardInv
<1>1. ForwardCall(q) /\ pc'[q] = pc[q] /\ call'[q] = call[q]
  BY DEF ForwardInv
<1>2. call[q].primary \in Stores /\ call[q].exch \in Int
  BY CallFields, TokensAreNumbers DEF TypeOK
<1>3. \A s \in Stores : record[s] \in Int /\ record'[s] \in Int
  BY TokensAreNumbers DEF TypeOK, Absent
<1> QED BY <1>1, <1>2, <1>3 DEF ForwardCall, RecordsForward

LEMMA LeaveForward ==
  ASSUME TypeOK, NEW p \in Procs, Leave(p)
  PROVE  /\ ForwardCall(p)'
         /\ \A q \in Procs : q # p => pc'[q] = pc[q] /\ call'[q] = call[q]
<1>1. /\ pc'[p] = "idle" /\ call'[p] = NewCall("accounts")
      /\ \A q \in Procs : q # p => pc'[q] = pc[q] /\ call'[q] = call[q]
  BY LeaveTyped
<1>2. call'[p].todo = {} /\ call'[p].visit = {} /\ call'[p].kept = {}
  BY <1>1 DEF NewCall
<1> QED BY <1>1, <1>2 DEF ForwardCall, Replacing, Holding

LEMMA WriteForward ==
  ASSUME TypeOK, ForwardInv, NEW c \in Tokens, NEW r \in Tokens, c < r,
         WriteJournal(c, r) \/ UNCHANGED journal
  PROVE  ForwardJournals'
BY DEF TypeOK, ForwardInv, ForwardJournals, WriteJournal, JournalFile

LEMMA DeleteForward ==
  ASSUME TypeOK, ForwardInv, NEW c \in Tokens, DeleteJournal(c) \/ UNCHANGED journal
  PROVE  ForwardJournals'
BY DEF TypeOK, ForwardInv, ForwardJournals, DeleteJournal, JournalFile

LEMMA PendingForward ==
  ASSUME ForwardInv
  PROVE  \A e \in Pending : e.consumed < e.rotated
BY DEF ForwardInv, ForwardJournals, Pending

LEMMA StartPassForward ==
  ASSUME TypeOK, NEW p \in Procs, NEW E \in SUBSET Entries,
         \A e \in E : e.consumed < e.rotated, StartPass(p, E)
  PROVE  /\ ForwardCall(p)'
         /\ \A q \in Procs : q # p => pc'[q] = pc[q] /\ call'[q] = call[q]
<1>1. call[p] \in Calls /\ call[p].primary \in Stores
  BY CallFields DEF TypeOK
<1>2. CASE E = {}
  <2>1. call' = [call EXCEPT ![p] = NewCall(call[p].primary)]
    BY <1>2, <1>1 DEF StartPass, TypeOK
  <2>2. call'[p] = NewCall(call[p].primary) /\ \A q \in Procs : q # p => call'[q] = call[q]
    BY <2>1, <1>1, NewCallTyped, CallPut DEF TypeOK
  <2>3. pc'[p] = "probe" /\ \A q \in Procs : q # p => pc'[q] = pc[q]
    BY <1>2, GotoTyped DEF TypeOK, StartPass, Steps
  <2>4. call'[p].todo = {} /\ call'[p].visit = {} /\ call'[p].kept = {}
    BY <2>2 DEF NewCall
  <2> QED BY <2>2, <2>3, <2>4 DEF ForwardCall, Replacing, Holding
<1>3. CASE E # {} /\ Ready(E) = {} BY <1>3, LeaveForward DEF StartPass, Fail
<1>4. CASE E # {} /\ Ready(E) # {}
  <2>1. Ready(E) \in SUBSET E /\ E \ Ready(E) \in SUBSET E
    BY DEF Ready
  <2>2. call' = [call EXCEPT ![p] = [call[p] EXCEPT !.todo = E, !.visit = Ready(E),
                                                   !.kept = E \ Ready(E)]]
    BY <1>4 DEF StartPass, TypeOK
  <2>3. [call[p] EXCEPT !.todo = E, !.visit = Ready(E), !.kept = E \ Ready(E)] \in Calls
    BY <1>1, <2>1 DEF Calls
  <2>4. /\ call'[p] = [call[p] EXCEPT !.todo = E, !.visit = Ready(E), !.kept = E \ Ready(E)]
        /\ \A q \in Procs : q # p => call'[q] = call[q]
    BY <2>2, <2>3, CallPut DEF TypeOK
  <2>5. call'[p].todo = E /\ call'[p].visit = Ready(E) /\ call'[p].kept = E \ Ready(E)
    BY <2>4, <1>1 DEF Calls
  <2>6. pc'[p] = "replay_accounts" /\ \A q \in Procs : q # p => pc'[q] = pc[q]
    BY <1>4, GotoTyped DEF TypeOK, StartPass, Steps
  <2> QED BY <2>1, <2>4, <2>5, <2>6 DEF ForwardCall, Replacing, Holding
<1> QED BY <1>2, <1>3, <1>4

-----------------------------------------------------------------------------
(* Each action moves tokens forward.                                       *)

LEMMA BeginForward ==
  ASSUME TypeOK, TypeOK', ForwardInv, NEW p \in Procs, NEW s \in Stores, Begin(p, s)
  PROVE  ForwardInv' /\ RecordsForward
<1>1. /\ call'[p] = NewCall(s) /\ pc'[p] = "recover"
      /\ \A q \in Procs : q # p => pc'[q] = pc[q] /\ call'[q] = call[q]
  BY NewCallTyped, CallPut, GotoTyped DEF TypeOK, Begin, Steps
<1>2. ForwardCall(p)'
  BY <1>1, NewCallTyped DEF ForwardCall, Replacing, Holding
<1>3. ForwardJournals' /\ RecordsForward
  BY SameRecords DEF Begin, ForwardInv, ForwardJournals
<1> QED BY <1>1, <1>2, <1>3, ForwardFrame

LEMMA RecoverForward ==
  ASSUME TypeOK, TypeOK', ForwardInv, NEW p \in Procs, Recover(p)
  PROVE  ForwardInv' /\ RecordsForward
<1>1. PICK unread \in SUBSET Pending : StartPass(p, Pending \ unread)
  BY DEF Recover
<1>2. Pending \ unread \in SUBSET Entries /\ \A e \in Pending \ unread : e.consumed < e.rotated
  BY PendingTyped, PendingForward
<1>3. ForwardJournals' /\ RecordsForward
  BY SameRecords DEF Recover, ForwardInv, ForwardJournals
<1> QED BY <1>1, <1>2, <1>3, StartPassForward, ForwardFrame

LEMMA ReplayAccountsForward ==
  ASSUME TypeOK, TypeOK', ForwardInv, NEW p \in Procs, ReplayAccounts(p)
  PROVE  ForwardInv' /\ RecordsForward
<1>1. PICK e \in call[p].visit, ok \in BOOLEAN :
         /\ IF ok THEN Stamp("accounts", e.consumed, e.rotated)
                  ELSE UNCHANGED <<record, fresh>>
         /\ call' = [call EXCEPT ![p].exch = e.consumed, ![p].got = e.rotated,
                                 ![p].landed = ok]
  BY DEF ReplayAccounts
<1>2. /\ call[p] \in Calls /\ e.consumed \in Tokens /\ e.rotated \in Tokens
      /\ e.consumed < e.rotated
  BY CallFields DEF TypeOK, Entries, ForwardInv, ForwardCall
<1>3. [call[p] EXCEPT !.exch = e.consumed, !.got = e.rotated, !.landed = ok] \in Calls
  BY <1>2 DEF Calls
<1>4. call' = [call EXCEPT ![p] = [call[p] EXCEPT !.exch = e.consumed, !.got = e.rotated,
                                                  !.landed = ok]]
  BY <1>1 DEF TypeOK
<1>5. /\ call'[p] = [call[p] EXCEPT !.exch = e.consumed, !.got = e.rotated, !.landed = ok]
      /\ \A q \in Procs : q # p => call'[q] = call[q]
  BY <1>3, <1>4, CallPut DEF TypeOK
<1>6. /\ call'[p].exch = e.consumed /\ call'[p].got = e.rotated
      /\ call'[p].todo = call[p].todo /\ call'[p].visit = call[p].visit
      /\ call'[p].kept = call[p].kept
  BY <1>2, <1>5 DEF Calls
<1>7. pc'[p] = "replay_flagged" /\ \A q \in Procs : q # p => pc'[q] = pc[q]
  BY GotoTyped DEF TypeOK, ReplayAccounts, Steps
<1>8. ForwardCall(p)'
  BY <1>2, <1>6, <1>7 DEF ForwardInv, ForwardCall, Holding
<1>9. RecordsForward
  BY <1>1, <1>2, StampForward, SameRecords DEF Stores
<1>10. ForwardJournals'
  BY DEF ReplayAccounts, ForwardInv, ForwardJournals
<1> QED BY <1>5, <1>7, <1>8, <1>9, <1>10, ForwardFrame

LEMMA FinishEntryForward ==
  ASSUME TypeOK, ForwardInv, NEW p \in Procs, NEW e \in Entries, e.consumed < e.rotated,
         NEW replayed \in BOOLEAN, FinishEntry(p, e, replayed)
  PROVE  /\ ForwardCall(p)'
         /\ \A q \in Procs : q # p => pc'[q] = pc[q] /\ call'[q] = call[q]
<1> DEFINE visit == call[p].visit \ {e}
           kept == IF replayed THEN call[p].kept ELSE call[p].kept \cup {e}
<1>1. /\ call[p] \in Calls /\ visit \in SUBSET Entries /\ kept \in SUBSET Entries
      /\ \A x \in call[p].todo \cup visit \cup kept : x.consumed < x.rotated
  BY CallFields DEF TypeOK, ForwardInv, ForwardCall
<1> HIDE DEF visit, kept
<1>2. CASE visit # {}
  <2>1. Goto(p, "replay_accounts")
        /\ call' = [call EXCEPT ![p].visit = visit, ![p].kept = kept]
    BY <1>2 DEF FinishEntry, visit, kept
  <2>2. call' = [call EXCEPT ![p] = [call[p] EXCEPT !.visit = visit, !.kept = kept]]
    BY <2>1 DEF TypeOK
  <2>3. [call[p] EXCEPT !.visit = visit, !.kept = kept] \in Calls
    BY <1>1 DEF Calls
  <2>4. /\ call'[p] = [call[p] EXCEPT !.visit = visit, !.kept = kept]
        /\ \A q \in Procs : q # p => call'[q] = call[q]
    BY <2>2, <2>3, CallPut DEF TypeOK
  <2>5. call'[p].todo = call[p].todo /\ call'[p].visit = visit /\ call'[p].kept = kept
    BY <2>4, <1>1 DEF Calls
  <2>6. pc'[p] = "replay_accounts" /\ \A q \in Procs : q # p => pc'[q] = pc[q]
    BY <2>1, GotoTyped DEF TypeOK, Steps
  <2> QED BY <1>1, <2>4, <2>5, <2>6 DEF ForwardCall, Replacing, Holding
<1>3. CASE visit = {} /\ kept = call[p].todo
  <2>1. Leave(p)
    BY <1>3 DEF FinishEntry, Fail, visit, kept
  <2> QED BY <2>1, LeaveForward
<1>4. CASE visit = {} /\ kept # call[p].todo
  <2>1. StartPass(p, kept)
    BY <1>4 DEF FinishEntry, visit, kept
  <2> QED BY <2>1, <1>1, StartPassForward
<1> QED BY <1>2, <1>3, <1>4

LEMMA ReplayFlaggedForward ==
  ASSUME TypeOK, TypeOK', ForwardInv, NEW p \in Procs, ReplayFlagged(p)
  PROVE  ForwardInv' /\ RecordsForward
<1> DEFINE e == [consumed |-> call[p].exch, rotated |-> call[p].got]
<1>1. PICK ok \in BOOLEAN :
         /\ IF ok THEN Stamp("flagged", e.consumed, e.rotated)
                  ELSE UNCHANGED <<record, fresh>>
         /\ DeleteJournal(e.consumed) \/ UNCHANGED journal
         /\ FinishEntry(p, e, Replayed(call[p].landed, ok))
  BY DEF ReplayFlagged
<1>2. /\ e \in Entries /\ e.consumed \in Tokens /\ e.rotated \in Tokens
      /\ call[p].landed \in BOOLEAN
  BY CallFields DEF TypeOK, Entries
<1>3. e.consumed < e.rotated
  BY DEF ForwardInv, ForwardCall, ReplayFlagged, Replacing
<1>4. Replayed(call[p].landed, ok) \in BOOLEAN
  BY DEF Replayed
<1> HIDE DEF e
<1>5. RecordsForward
  BY <1>1, <1>2, <1>3, StampForward, SameRecords DEF Stores
<1>6. ForwardJournals'
  BY <1>1, <1>2, DeleteForward
<1>7. /\ ForwardCall(p)'
      /\ \A q \in Procs : q # p => pc'[q] = pc[q] /\ call'[q] = call[q]
  BY <1>1, <1>2, <1>3, <1>4, FinishEntryForward
<1> QED BY <1>5, <1>6, <1>7, ForwardFrame

LEMMA ProbeForward ==
  ASSUME TypeOK, TypeOK', ForwardInv, NEW p \in Procs, Probe(p)
  PROVE  ForwardInv' /\ RecordsForward
<1> DEFINE s == call[p].primary
<1>1. s \in Stores /\ call[p] \in Calls
  BY CallFields DEF TypeOK
<1>2. record[s] \in Tokens \/ Missing(s)
  BY <1>1 DEF TypeOK, Missing
<1>3. RecordsForward /\ ForwardJournals'
  BY SameRecords DEF Probe, ForwardInv, ForwardJournals
<1>4. CASE Leave(p) BY <1>3, <1>4, LeaveForward, ForwardFrame
<1>5. CASE /\ ~Missing(s) /\ Goto(p, "spend")
           /\ call' = [call EXCEPT ![p].exch = record[s]]
  <2>1. call' = [call EXCEPT ![p] = [call[p] EXCEPT !.exch = record[s]]]
    BY <1>5 DEF TypeOK
  <2>2. [call[p] EXCEPT !.exch = record[s]] \in Calls
    BY <1>1, <1>2, <1>5 DEF Calls
  <2>3. /\ call'[p] = [call[p] EXCEPT !.exch = record[s]]
        /\ \A q \in Procs : q # p => call'[q] = call[q]
    BY <2>1, <2>2, CallPut DEF TypeOK
  <2>4. /\ call'[p].exch = record[s] /\ call'[p].primary = s
        /\ call'[p].todo = call[p].todo /\ call'[p].visit = call[p].visit
        /\ call'[p].kept = call[p].kept
    BY <2>3, <1>1 DEF Calls
  <2>5. pc'[p] = "spend" /\ \A q \in Procs : q # p => pc'[q] = pc[q]
    BY <1>5, GotoTyped DEF TypeOK, Steps
  <2>6. record'[s] = record[s] /\ record[s] \in Int
    BY <1>2, <1>5, TokensAreNumbers DEF Probe
  <2>7. ForwardCall(p)'
    BY <2>4, <2>5, <2>6 DEF ForwardInv, ForwardCall, Replacing
  <2> QED BY <1>3, <2>3, <2>5, <2>7, ForwardFrame
<1> QED BY <1>4, <1>5 DEF Probe, Return, Fail

LEMMA SpendForward ==
  ASSUME TypeOK, TypeOK', ForwardInv, NEW p \in Procs, Spend(p)
  PROVE  ForwardInv' /\ RecordsForward
<1>1. RecordsForward /\ ForwardJournals'
  BY SameRecords DEF Spend, ForwardInv, ForwardJournals
<1>2. CASE lease = p
  <2>1. pc'[p] = "inflight" /\ \A q \in Procs : q # p => pc'[q] = pc[q]
    BY <1>2, GotoTyped DEF TypeOK, Spend, Steps
  <2>2. call' = call /\ record' = record
    BY <1>2 DEF Spend
  <2>3. ForwardCall(p)'
    BY <2>1, <2>2 DEF Spend, ForwardInv, ForwardCall, Replacing, Holding
  <2> QED BY <1>1, <2>1, <2>2, <2>3, ForwardFrame
<1>3. CASE lease # p BY <1>1, <1>3, LeaveForward, ForwardFrame DEF Spend, Fail
<1> QED BY <1>2, <1>3

\* A call that keeps what it exchanged and the entries it replays.
LEMMA MoveForward ==
  ASSUME TypeOK, TypeOK', ForwardInv, NEW p \in Procs, RecordsForward,
         call'[p].exch = call[p].exch, call'[p].primary = call[p].primary,
         call'[p].todo = call[p].todo, call'[p].visit = call[p].visit,
         call'[p].kept = call[p].kept,
         pc'[p] \in Holding => pc[p] \in Holding,
         pc'[p] \in Replacing => call[p].exch < call'[p].got,
         pc'[p] = "commit" => call[p].exch <= call'[p].got
  PROVE  ForwardCall(p)'
<1>1. call[p].primary \in Stores /\ call[p].exch \in Int
  BY CallFields, TokensAreNumbers DEF TypeOK
<1>2. \A s \in Stores : record[s] \in Int /\ record'[s] \in Int
  BY TokensAreNumbers DEF TypeOK, Absent
<1>3. \/ pc'[p] \notin Holding
      \/ record'[call[p].primary] = Absent
      \/ record'[call[p].primary] >= call[p].exch
  BY <1>1, <1>2 DEF RecordsForward, ForwardInv, ForwardCall
<1>4. \A e \in call[p].todo \cup call[p].visit \cup call[p].kept : e.consumed < e.rotated
  BY DEF ForwardInv, ForwardCall
<1> QED BY <1>3, <1>4 DEF ForwardCall

LEMMA ExchangeForward ==
  ASSUME TypeOK, TypeOK', ForwardInv, NEW p \in Procs, Exchange(p)
  PROVE  ForwardInv' /\ RecordsForward
<1>1. RecordsForward /\ ForwardJournals'
  BY SameRecords DEF Exchange, ProviderRotates, ProviderKeeps, ProviderRejects, ReplyLost,
     ForwardInv, ForwardJournals
<1>2. live \in Tokens /\ live \in Int
  BY TokensAreNumbers DEF TypeOK
<1>3. CASE ProviderRotates(p)
  <2>1. live + 1 \in Tokens /\ live < live + 1
    BY <1>2, <1>3, NextToken DEF ProviderRotates
  <2>2. pc'[p] = "journal" /\ \A q \in Procs : q # p => pc'[q] = pc[q]
    BY <1>3, GotoTyped DEF TypeOK, ProviderRotates, Steps
  <2>3. /\ call' = [call EXCEPT ![p].got = live + 1]
        /\ call[p].exch = live /\ pc[p] = "inflight"
    BY <1>3 DEF ProviderRotates
  <2>4. /\ call'[p].got = live + 1 /\ call'[p].exch = call[p].exch
        /\ call'[p].primary = call[p].primary /\ call'[p].todo = call[p].todo
        /\ call'[p].visit = call[p].visit /\ call'[p].kept = call[p].kept
        /\ \A q \in Procs : q # p => call'[q] = call[q]
    BY <2>1, <2>3, GotFields
  <2>5. ForwardCall(p)'
    BY <1>1, <2>1, <2>2, <2>3, <2>4, MoveForward DEF Holding
  <2> QED BY <1>1, <2>2, <2>4, <2>5, ForwardFrame
<1>4. CASE ProviderKeeps(p)
  <2>1. live <= live
    BY <1>2
  <2>2. pc'[p] = "commit" /\ \A q \in Procs : q # p => pc'[q] = pc[q]
    BY <1>4, GotoTyped DEF TypeOK, ProviderKeeps, Steps
  <2>3. /\ call' = [call EXCEPT ![p].got = live]
        /\ call[p].exch = live /\ pc[p] = "inflight"
    BY <1>4 DEF ProviderKeeps
  <2>4. /\ call'[p].got = live /\ call'[p].exch = call[p].exch
        /\ call'[p].primary = call[p].primary /\ call'[p].todo = call[p].todo
        /\ call'[p].visit = call[p].visit /\ call'[p].kept = call[p].kept
        /\ \A q \in Procs : q # p => call'[q] = call[q]
    BY <1>2, <2>3, GotFields
  <2>5. ForwardCall(p)'
    BY <1>1, <2>1, <2>2, <2>3, <2>4, MoveForward DEF Holding, Replacing
  <2> QED BY <1>1, <2>2, <2>4, <2>5, ForwardFrame
<1>5. CASE ProviderRejects(p) \/ ReplyLost(p)
  BY <1>1, <1>5, LeaveForward, ForwardFrame DEF ProviderRejects, ReplyLost, Fail
<1> QED BY <1>3, <1>4, <1>5 DEF Exchange

LEMMA JournalForward ==
  ASSUME TypeOK, TypeOK', ForwardInv, NEW p \in Procs, Journal(p)
  PROVE  ForwardInv' /\ RecordsForward
<1>1. /\ call[p].exch \in Tokens /\ call[p].got \in Tokens
      /\ call[p].exch < call[p].got
  BY CallFields DEF TypeOK, Journal, ForwardInv, ForwardCall, Replacing
<1>2. ForwardJournals'
  BY <1>1, WriteForward DEF Journal
<1>3. RecordsForward
  BY SameRecords DEF Journal
<1>4. pc'[p] = "commit" /\ \A q \in Procs : q # p => pc'[q] = pc[q]
  BY GotoTyped DEF TypeOK, Journal, Steps
<1>5. call' = call /\ record' = record
  BY DEF Journal
<1>6. call[p].exch <= call[p].got
  BY <1>1, TokensAreNumbers
<1>7. ForwardCall(p)'
  BY <1>4, <1>5, <1>6 DEF Journal, ForwardInv, ForwardCall, Replacing, Holding
<1> QED BY <1>2, <1>3, <1>4, <1>5, <1>7, ForwardFrame

LEMMA CommitForward ==
  ASSUME TypeOK, TypeOK', ForwardInv, NEW p \in Procs, Commit(p)
  PROVE  ForwardInv' /\ RecordsForward
<1> DEFINE s == call[p].primary
           target == record[s]
<1>1. /\ s \in Stores /\ call[p].got \in Tokens /\ call[p].exch \in Tokens
      /\ call[p].tries \in 0 .. COMMIT_ATTEMPTS
  BY CallFields DEF TypeOK
<1>2. /\ call[p].exch <= call[p].got /\ pc[p] = "commit"
      /\ target = Absent \/ target >= call[p].exch
  BY DEF ForwardInv, ForwardCall, Commit, Holding
<1>3. target \in Tokens \cup {Absent} /\ target \in Int
  BY <1>1, TokensAreNumbers DEF TypeOK, Absent
<1>4. call[p].exch \in Int /\ call[p].got \in Int
  BY <1>1, TokensAreNumbers
<1>5. ForwardJournals'
  BY DEF Commit, ForwardInv, ForwardJournals
<1> HIDE DEF target, s
<1>6. CASE /\ Fault /\ call[p].tries + 1 < COMMIT_ATTEMPTS
           /\ call' = [call EXCEPT ![p].tries = @ + 1]
           /\ UNCHANGED <<record, fresh, pc, lease, mem>>
  <2>1. call[p].tries + 1 \in 0 .. COMMIT_ATTEMPTS
    BY <1>1, <1>6 DEF COMMIT_ATTEMPTS
  <2>2. call' = [call EXCEPT ![p].tries = call[p].tries + 1]
    BY <1>6 DEF TypeOK
  <2>3. /\ call'[p].got = call[p].got /\ call'[p].exch = call[p].exch
        /\ call'[p].primary = call[p].primary /\ call'[p].todo = call[p].todo
        /\ call'[p].visit = call[p].visit /\ call'[p].kept = call[p].kept
        /\ \A q \in Procs : q # p => call'[q] = call[q]
    BY <2>1, <2>2, TriesFields
  <2>4. RecordsForward
    BY <1>6, SameRecords
  <2>5. pc' = pc
    BY <1>6
  <2>6. ForwardCall(p)'
    BY <1>2, <2>3, <2>4, <2>5, MoveForward DEF Replacing
  <2> QED BY <1>5, <2>3, <2>4, <2>5, <2>6, ForwardFrame
<1>7. CASE /\ IF Rotated(p)
              THEN Goto(p, "salvage_primary") /\ UNCHANGED <<lease, mem, call>>
              ELSE Fail(p)
           /\ UNCHANGED <<record, fresh>>
  <2>1. RecordsForward
    BY <1>7, SameRecords
  <2>2. CASE Rotated(p)
    <3>1. pc'[p] = "salvage_primary" /\ \A q \in Procs : q # p => pc'[q] = pc[q]
      BY <1>7, <2>2, GotoTyped DEF TypeOK, Steps
    <3>2. call' = call
      BY <1>7, <2>2
    <3>3. call[p].exch < call[p].got
      BY <1>2, <1>4, <2>2 DEF Rotated
    <3>4. ForwardCall(p)'
      BY <2>1, <3>1, <3>2, <3>3, MoveForward DEF Holding
    <3> QED BY <1>5, <2>1, <3>1, <3>2, <3>4, ForwardFrame
  <2>3. CASE ~Rotated(p)
    BY <1>5, <1>7, <2>1, <2>3, LeaveForward, ForwardFrame DEF Fail
  <2> QED BY <2>2, <2>3
<1>8. CASE /\ Superseded(p, target)
           /\ IF Rotated(p)
              THEN /\ Goto(p, "retarget")
                   /\ call' = [call EXCEPT ![p].got = target]
                   /\ UNCHANGED <<lease, mem>>
              ELSE Return(p, target)
           /\ UNCHANGED <<record, fresh, faults>>
  <2>1. RecordsForward
    BY <1>8, SameRecords
  <2>2. target \in Tokens /\ call[p].exch < target
    BY <1>2, <1>3, <1>4, <1>8 DEF Superseded, s, target
  <2>3. CASE Rotated(p)
    <3>1. pc'[p] = "retarget" /\ \A q \in Procs : q # p => pc'[q] = pc[q]
      BY <1>8, <2>3, GotoTyped DEF TypeOK, Steps
    <3>2. /\ call'[p].got = target /\ call'[p].exch = call[p].exch
          /\ call'[p].primary = call[p].primary /\ call'[p].todo = call[p].todo
          /\ call'[p].visit = call[p].visit /\ call'[p].kept = call[p].kept
          /\ \A q \in Procs : q # p => call'[q] = call[q]
      BY <1>8, <2>2, <2>3, GotFields
    <3>3. ForwardCall(p)'
      BY <2>1, <2>2, <3>1, <3>2, MoveForward DEF Holding
    <3> QED BY <1>5, <2>1, <3>1, <3>2, <3>3, ForwardFrame
  <2>4. CASE ~Rotated(p)
    BY <1>5, <1>8, <2>1, <2>4, LeaveForward, ForwardFrame DEF Return
  <2> QED BY <2>3, <2>4
<1>9. CASE /\ ~Missing(s) /\ ~Superseded(p, target)
           /\ record' = [record EXCEPT ![s] = call[p].got]
           /\ IF Rotated(p)
              THEN /\ Goto(p, "propagate")
                   /\ call' = [call EXCEPT ![p].tries = 0]
                   /\ UNCHANGED <<lease, mem>>
              ELSE Return(p, call[p].got)
  <2>1. target # Absent /\ target \in {call[p].exch, call[p].got}
    BY <1>9 DEF Missing, Superseded, target
  <2>2. call[p].got >= target
    BY <1>2, <1>3, <1>4, <2>1
  <2>3. RecordsForward
    <3>1. \A x \in Stores : record[x] \in Int
      BY TokensAreNumbers DEF TypeOK, Absent
    <3>2. \A x \in Stores : record'[x] = IF x = s THEN call[p].got ELSE record[x]
      BY <1>9 DEF TypeOK
    <3> QED BY <2>1, <2>2, <3>1, <3>2 DEF RecordsForward, target
  <2>4. CASE Rotated(p)
    <3>1. pc'[p] = "propagate" /\ \A q \in Procs : q # p => pc'[q] = pc[q]
      BY <1>9, <2>4, GotoTyped DEF TypeOK, Steps
    <3>2. 0 \in 0 .. COMMIT_ATTEMPTS
      BY DEF COMMIT_ATTEMPTS
    <3>3. /\ call'[p].got = call[p].got /\ call'[p].exch = call[p].exch
          /\ call'[p].primary = call[p].primary /\ call'[p].todo = call[p].todo
          /\ call'[p].visit = call[p].visit /\ call'[p].kept = call[p].kept
          /\ \A q \in Procs : q # p => call'[q] = call[q]
      BY <1>9, <2>4, <3>2, TriesFields
    <3>4. call[p].exch < call[p].got
      BY <1>2, <1>4, <2>4 DEF Rotated
    <3>5. ForwardCall(p)'
      BY <2>3, <3>1, <3>3, <3>4, MoveForward DEF Holding
    <3> QED BY <1>5, <2>3, <3>1, <3>3, <3>5, ForwardFrame
  <2>5. CASE ~Rotated(p)
    BY <1>5, <1>9, <2>3, <2>5, LeaveForward, ForwardFrame DEF Return
  <2> QED BY <2>4, <2>5
<1> QED BY <1>6, <1>7, <1>8, <1>9 DEF Commit, s, target

LEMMA RetargetForward ==
  ASSUME TypeOK, TypeOK', ForwardInv, NEW p \in Procs, Retarget(p)
  PROVE  ForwardInv' /\ RecordsForward
<1>1. /\ call[p].exch \in Tokens /\ call[p].got \in Tokens
      /\ call[p].exch < call[p].got
  BY CallFields DEF TypeOK, Retarget, ForwardInv, ForwardCall, Replacing
<1>2. ForwardJournals'
  BY <1>1, WriteForward DEF Retarget
<1>3. RecordsForward
  BY SameRecords DEF Retarget
<1> QED BY <1>2, <1>3, LeaveForward, ForwardFrame DEF Retarget, Return

LEMMA SalvageForward ==
  ASSUME TypeOK, TypeOK', ForwardInv, NEW p \in Procs, SalvagePrimary(p) \/ SalvageSibling(p)
  PROVE  ForwardInv' /\ RecordsForward
<1>1. /\ call[p].exch \in Tokens /\ call[p].got \in Tokens
      /\ call[p].exch < call[p].got
      /\ call[p].primary \in Stores /\ Sibling(call[p].primary) \in Stores
  BY CallFields DEF TypeOK, SalvagePrimary, SalvageSibling, ForwardInv, ForwardCall, Replacing
<1>2. ForwardJournals'
  BY DEF SalvagePrimary, SalvageSibling, ForwardInv, ForwardJournals
<1>3. CASE SalvagePrimary(p)
  <2> DEFINE s == call[p].primary
  <2>1. PICK ok \in BOOLEAN :
          /\ IF ok THEN Stamp(s, call[p].exch, call[p].got)
                   ELSE UNCHANGED <<record, fresh>>
          /\ call' = [call EXCEPT ![p].landed = (ok /\ record[s] = call[p].exch)]
    BY <1>3 DEF SalvagePrimary
  <2>2. RecordsForward
    BY <1>1, <2>1, StampForward, SameRecords
  <2>3. 0 \in 0 .. COMMIT_ATTEMPTS /\ (ok /\ record[s] = call[p].exch) \in BOOLEAN
    BY DEF COMMIT_ATTEMPTS
  <2>4. /\ call'[p].got = call[p].got /\ call'[p].exch = call[p].exch
        /\ call'[p].primary = call[p].primary /\ call'[p].todo = call[p].todo
        /\ call'[p].visit = call[p].visit /\ call'[p].kept = call[p].kept
        /\ \A q \in Procs : q # p => call'[q] = call[q]
    BY <2>1, <2>3, TriesFields
  <2>5. pc'[p] = "salvage_sibling" /\ \A q \in Procs : q # p => pc'[q] = pc[q]
    BY <1>3, GotoTyped DEF TypeOK, SalvagePrimary, Steps
  <2>6. ForwardCall(p)'
    BY <1>1, <2>2, <2>4, <2>5, MoveForward DEF Holding
  <2> QED BY <1>2, <2>2, <2>4, <2>5, <2>6, ForwardFrame
<1>4. CASE SalvageSibling(p)
  <2> DEFINE s == Sibling(call[p].primary)
  <2>1. PICK ok \in BOOLEAN :
          /\ IF ok THEN Stamp(s, call[p].exch, call[p].got)
                   ELSE UNCHANGED <<record, fresh>>
          /\ Leave(p)
    BY <1>4 DEF SalvageSibling, Return, Fail
  <2>2. RecordsForward
    BY <1>1, <2>1, StampForward, SameRecords
  <2> QED BY <1>2, <2>1, <2>2, LeaveForward, ForwardFrame
<1> QED BY <1>3, <1>4

LEMMA PropagateForward ==
  ASSUME TypeOK, TypeOK', ForwardInv, NEW p \in Procs, Propagate(p)
  PROVE  ForwardInv' /\ RecordsForward
<1> DEFINE s == Sibling(call[p].primary)
<1>1. /\ call[p].exch \in Tokens /\ call[p].got \in Tokens /\ s \in Stores
      /\ call[p].tries \in 0 .. COMMIT_ATTEMPTS
      /\ call[p].exch < call[p].got /\ pc[p] = "propagate"
  BY CallFields DEF TypeOK, Propagate, ForwardInv, ForwardCall, Replacing
<1>2. ForwardJournals'
  BY DEF Propagate, ForwardInv, ForwardJournals
<1> HIDE DEF s
<1>3. CASE /\ Stamp(s, call[p].exch, call[p].got)
           /\ Goto(p, "discard")
           /\ call' = call
  <2>1. RecordsForward
    BY <1>1, <1>3, StampForward
  <2>2. pc'[p] = "discard" /\ \A q \in Procs : q # p => pc'[q] = pc[q]
    BY <1>3, GotoTyped DEF TypeOK, Steps
  <2>3. ForwardCall(p)'
    BY <1>1, <1>3, <2>1, <2>2, MoveForward DEF Holding
  <2> QED BY <1>2, <1>3, <2>1, <2>2, <2>3, ForwardFrame
<1>4. CASE /\ record' = record /\ pc' = pc
           /\ call[p].tries + 1 < PROPAGATE_ATTEMPTS
           /\ call' = [call EXCEPT ![p].tries = @ + 1]
  <2>1. call[p].tries + 1 \in 0 .. COMMIT_ATTEMPTS
    BY <1>1, <1>4 DEF COMMIT_ATTEMPTS, PROPAGATE_ATTEMPTS
  <2>2. call' = [call EXCEPT ![p].tries = call[p].tries + 1]
    BY <1>4 DEF TypeOK
  <2>3. /\ call'[p].got = call[p].got /\ call'[p].exch = call[p].exch
        /\ call'[p].primary = call[p].primary /\ call'[p].todo = call[p].todo
        /\ call'[p].visit = call[p].visit /\ call'[p].kept = call[p].kept
        /\ \A q \in Procs : q # p => call'[q] = call[q]
    BY <2>1, <2>2, TriesFields
  <2>4. RecordsForward
    BY <1>4, SameRecords
  <2>5. ForwardCall(p)'
    BY <1>1, <1>4, <2>3, <2>4, MoveForward DEF Holding
  <2> QED BY <1>2, <1>4, <2>3, <2>4, <2>5, ForwardFrame
<1>5. CASE record' = record /\ Leave(p)
  BY <1>2, <1>5, SameRecords, LeaveForward, ForwardFrame
<1> QED BY <1>3, <1>4, <1>5 DEF Propagate, Return, s

LEMMA DiscardForward ==
  ASSUME TypeOK, TypeOK', ForwardInv, NEW p \in Procs, Discard(p)
  PROVE  ForwardInv' /\ RecordsForward
<1>1. call[p].exch \in Tokens
  BY CallFields DEF TypeOK
<1>2. ForwardJournals' /\ RecordsForward
  BY <1>1, DeleteForward, SameRecords DEF Discard
<1> QED BY <1>2, LeaveForward, ForwardFrame DEF Discard, Return

LEMMA EnvironmentForward ==
  ASSUME TypeOK, TypeOK', IssuedInv, ForwardInv, Environment,
         "stale_quarantine" \notin Hazards
  PROVE  ForwardInv' /\ NoRecordRegresses
<1>1. ASSUME ExpireAccess PROVE ForwardInv' /\ RecordsForward
  BY <1>1, SameRecords DEF ExpireAccess, ForwardInv, ForwardJournals, ForwardCall
<1>2. ASSUME NEW s \in Stores, Remove(s)
      PROVE  ForwardInv' /\ RecordsForward
  <2>1. \A x \in Stores : record[x] \in Int
    BY TokensAreNumbers DEF TypeOK, Absent
  <2>2. \A x \in Stores : record'[x] = IF x = s THEN Absent ELSE record[x]
    BY <1>2 DEF TypeOK, Remove
  <2>3. RecordsForward
    BY <2>1, <2>2 DEF RecordsForward
  <2>4. pc' = pc /\ call' = call /\ journal' = journal
    BY <1>2 DEF Remove
  <2>5. \A p \in Procs : ForwardCall(p)'
    BY <2>2, <2>4, CallFields DEF TypeOK, ForwardInv, ForwardCall
  <2> QED BY <2>3, <2>4, <2>5 DEF ForwardInv, ForwardJournals
<1>3. ASSUME NEW p \in Procs, Crash(p)
      PROVE  ForwardInv' /\ RecordsForward
  <2>1. RecordsForward /\ ForwardJournals'
    BY <1>3, SameRecords DEF Crash, ForwardInv, ForwardJournals
  <2>2. /\ pc'[p] = "idle" /\ call'[p] = NewCall("accounts")
        /\ \A q \in Procs : q # p => pc'[q] = pc[q] /\ call'[q] = call[q]
    BY <1>3, NewCallTyped, CallPut DEF TypeOK, Crash, Stores
  <2>3. ForwardCall(p)'
    BY <2>2 DEF ForwardCall, NewCall, Replacing, Holding
  <2> QED BY <2>1, <2>2, <2>3, ForwardFrame
<1>4. ASSUME NEW p \in Procs, Quarantine(p)
      PROVE  ForwardInv' /\ NoRecordRegresses
  <2>1. record' = [record EXCEPT !["flagged"] = live]
    BY <1>4 DEF Quarantine
  <2>2. pc' = pc /\ call' = call /\ journal' = journal
    BY <1>4 DEF Quarantine
  <2>3. \A s \in Stores : record[s] \in Int /\ record'[s] \in Int
    BY TokensAreNumbers DEF TypeOK, Absent
  <2>4. \A s \in Stores : record'[s] \in {record[s], live} /\ record[s] <= live
    BY <2>1 DEF TypeOK, IssuedInv, IssuedRecords
  <2>5. NoRecordRegresses
    BY <2>3, <2>4, Numbers DEF NoRecordRegresses
  <2>6. ASSUME NEW q \in Procs PROVE ForwardCall(q)'
    <3>1. ForwardCall(q) /\ call[q].exch <= live /\ call[q].exch \in Int
      BY Numbers DEF ForwardInv, IssuedInv, IssuedCall
    <3>2. call[q].primary \in Stores
      BY CallFields DEF TypeOK
    <3> QED BY <2>2, <2>3, <2>4, <3>1, <3>2, Numbers DEF ForwardCall
  <2> QED BY <2>2, <2>5, <2>6 DEF ForwardInv, ForwardJournals
<1>5. RecordsForward => NoRecordRegresses
  BY DEF RecordsForward, NoRecordRegresses
<1> QED BY <1>1, <1>2, <1>3, <1>4, <1>5 DEF Environment

LEMMA InitForward == Init => ForwardInv
<1> SUFFICES ASSUME Init PROVE ForwardInv
  OBVIOUS
<1>1. ForwardJournals
  BY DEF Init, ForwardJournals
<1>2. ASSUME NEW p \in Procs PROVE ForwardCall(p)
  BY <1>2 DEF Init, ForwardCall, NewCall, Replacing, Holding
<1> QED BY <1>1, <1>2 DEF ForwardInv

LEMMA StepForward ==
  ASSUME TypeOK, IssuedInv, ForwardInv, [Next]_vars, "stale_quarantine" \notin Hazards
  PROVE  ForwardInv' /\ NoRecordRegresses
<1>1. TypeOK'
  BY StepTyped
<1>2. ASSUME NEW p \in Procs, Step(p) PROVE ForwardInv' /\ RecordsForward
  BY <1>1, <1>2, RecoverForward, ReplayAccountsForward, ReplayFlaggedForward, ProbeForward,
     SpendForward, ExchangeForward, JournalForward, CommitForward, RetargetForward,
     SalvageForward, PropagateForward, DiscardForward DEF Step
<1>3. ASSUME NEW p \in Procs, NEW s \in Stores, Begin(p, s)
      PROVE  ForwardInv' /\ RecordsForward
  BY <1>1, <1>3, BeginForward
<1>4. CASE Environment BY <1>1, <1>4, EnvironmentForward
<1>5. ASSUME UNCHANGED vars PROVE ForwardInv' /\ RecordsForward
  BY <1>5, SameRecords DEF vars, ForwardInv, ForwardJournals, ForwardCall
<1>6. RecordsForward => NoRecordRegresses
  BY DEF RecordsForward, NoRecordRegresses
<1> QED BY <1>2, <1>3, <1>4, <1>5, <1>6 DEF Next

(***************************************************************************)
(* As long as no session flags an account with a token it outlived, no     *)
(* process, however late, ever replaces a stored refresh token with an     *)
(* older one: for any number of processes, with crashes, storage failures, *)
(* lease thefts and unreadable journals.                                   *)
(***************************************************************************)
THEOREM TokensOnlyMoveForward ==
  ASSUME "stale_quarantine" \notin Hazards
  PROVE  Spec => TokensNeverRegress
<1>1. Init => TypeOK /\ IssuedInv /\ ForwardInv
  BY InitTyped, InitIssued, InitForward
<1>2. TypeOK /\ IssuedInv /\ ForwardInv /\ [Next]_vars => (TypeOK /\ IssuedInv /\ ForwardInv)'
  BY StepTyped, StepIssued, StepForward
<1>3. TypeOK /\ IssuedInv /\ ForwardInv /\ [Next]_vars =>
        [\A s \in Stores : record[s] # Absent /\ record'[s] # Absent =>
           record'[s] >= record[s]]_record
  BY StepForward DEF NoRecordRegresses
<1> QED BY <1>1, <1>2, <1>3, PTL DEF Spec, TokensNeverRegress

(***************************************************************************)
(* Under the same assumption, a commit that adopts another holder's token  *)
(* adopts one newer than the token its own call exchanged.                 *)
(***************************************************************************)
THEOREM AdoptionsAreNewer ==
  ASSUME "stale_quarantine" \notin Hazards
  PROVE  Spec => []AdoptedTokenIsNewer
<1>1. Init => TypeOK /\ IssuedInv /\ ForwardInv
  BY InitTyped, InitIssued, InitForward
<1>2. TypeOK /\ IssuedInv /\ ForwardInv /\ [Next]_vars => (TypeOK /\ IssuedInv /\ ForwardInv)'
  BY StepTyped, StepIssued, StepForward
<1>3. TypeOK /\ IssuedInv /\ ForwardInv => AdoptedTokenIsNewer
  <2> SUFFICES ASSUME TypeOK, ForwardInv, NEW p \in Procs, pc[p] = "retarget"
               PROVE  call[p].got > call[p].exch
    BY DEF AdoptedTokenIsNewer
  <2>1. call[p].exch < call[p].got
    BY DEF ForwardInv, ForwardCall, Replacing
  <2> QED BY <2>1, CallFields, TokensAreNumbers DEF TypeOK
<1> QED BY <1>1, <1>2, <1>3, PTL DEF Spec

-----------------------------------------------------------------------------
(***************************************************************************)
(* With an exclusive lease, readable journals and sessions that flag only  *)
(* the token they know to be live, no consumed token is presented again    *)
(* and none is left in a store without a way to its replacement: for every *)
(* set of processes, and whatever crashes or fails.                        *)
(*                                                                         *)
(* The invariant.  It follows the one refresh that holds the lease: a pass *)
(* of the replay keeps every stored token connected to the live one by the *)
(* entries it still has to visit, so that when none is left every stored   *)
(* token is live; and from the exchange on, the stores hold the exchanged  *)
(* token or the live one.                                                  *)
(***************************************************************************)

\* Only the holder of the lease is in a refresh.
Alone == \A p \in Procs : pc[p] # "idle" => lease = p

\* A journal is named after the token it consumed.
Keyed == \A k \in Tokens : journal[k] # NoEntry => journal[k].consumed = k

\* t is the goal, or the entries lead from it to the goal.
LeadsTo(entries, goal, t) ==
  \A S \in SUBSET Tokens :
    (goal \in S /\ \A l \in entries : l.rotated \in S => l.consumed \in S) => t \in S

StoredReach(entries) ==
  \A s \in Stores : record[s] # Absent => LeadsTo(entries, live, record[s])

StoredIn(tokens) == \A s \in Stores : record[s] = Absent \/ record[s] \in tokens

Remaining(p) == call[p].visit \cup call[p].kept

\* The entries still to visit lead on, and those of this pass come first.
ReplayInOrder(p) ==
  /\ Remaining(p) \subseteq Pending /\ call[p].visit \cap call[p].kept = {}
  /\ StoredReach(Remaining(p))
  /\ \A e \in call[p].visit, o \in Remaining(p) : o # e => o.rotated # e.consumed

Durable == {"journal", "commit", "salvage_primary", "salvage_sibling", "propagate", "discard"}

SafeCall(p) ==
  /\ pc[p] \in {"replay_accounts", "replay_flagged"} => ReplayInOrder(p)
  /\ pc[p] = "replay_flagged" =>
       /\ [consumed |-> call[p].exch, rotated |-> call[p].got] \in call[p].visit
       /\ call[p].landed => record["accounts"] # call[p].exch
  /\ pc[p] \in {"probe", "spend", "inflight", "discard"} => StoredIn({live})
  /\ pc[p] \in {"spend", "inflight"} => call[p].exch = live
  /\ pc[p] \in Durable => call[p].got = live /\ StoredIn({call[p].exch, live})
  /\ pc[p] = "propagate" => record[call[p].primary] \in {live, Absent}
  /\ pc[p] # "retarget"

SafeInv ==
  /\ Alone
  /\ Keyed
  /\ ~lost => StoredReach(Links) /\ \A p \in Procs : SafeCall(p)

-----------------------------------------------------------------------------
(* Chains of journal entries.                                              *)

LEMMA GoalReached ==
  ASSUME NEW entries, NEW goal
  PROVE  LeadsTo(entries, goal, goal)
BY DEF LeadsTo

LEMMA MoreEntries ==
  ASSUME NEW entries, NEW more, entries \subseteq more, NEW goal, NEW t,
         LeadsTo(entries, goal, t)
  PROVE  LeadsTo(more, goal, t)
BY DEF LeadsTo

\* Without entries there is nothing to reach the goal from.
LEMMA NoEntries ==
  ASSUME NEW goal \in Tokens, NEW t, LeadsTo({}, goal, t)
  PROVE  t = goal
<1>1. {goal} \in SUBSET Tokens
  OBVIOUS
<1>2. t \in {goal}
  BY <1>1 DEF LeadsTo
<1> QED  BY <1>2

\* One more link moves the goal along.
LEMMA NextGoal ==
  ASSUME NEW entries, NEW more, entries \subseteq more, NEW goal, NEW next, NEW t,
         \E l \in more : l.consumed = goal /\ l.rotated = next,
         LeadsTo(entries, goal, t)
  PROVE  LeadsTo(more, next, t)
BY DEF LeadsTo

\* A chain that starts with e goes on from e's replacement.
LEMMA ChainGoesOn ==
  ASSUME NEW entries, NEW goal \in Tokens, NEW e \in entries, e.consumed # goal,
         \A l \in entries : l.consumed = e.consumed => l = e,
         LeadsTo(entries, goal, e.consumed)
  PROVE  LeadsTo(entries, goal, e.rotated)
<1> SUFFICES ASSUME NEW S \in SUBSET Tokens, goal \in S, e.rotated \notin S,
                    \A l \in entries : l.rotated \in S => l.consumed \in S
             PROVE  FALSE
  BY DEF LeadsTo
<1> DEFINE R == S \ {e.consumed}
<1>1. R \in SUBSET Tokens /\ goal \in R
  OBVIOUS
<1>2. \A l \in entries : l.rotated \in R => l.consumed \in R
  OBVIOUS
<1>3. e.consumed \in R
  BY <1>1, <1>2 DEF LeadsTo
<1> QED  BY <1>3

\* An entry nothing leads to, and that nobody stands on, can go.
LEMMA EntryDropped ==
  ASSUME NEW entries, NEW goal, NEW e \in entries, NEW t, t # e.consumed,
         e.consumed \in Tokens, e.rotated # e.consumed,
         \A l \in entries : l # e => l.rotated # e.consumed,
         LeadsTo(entries, goal, t)
  PROVE  LeadsTo(entries \ {e}, goal, t)
<1> SUFFICES ASSUME NEW S \in SUBSET Tokens, goal \in S,
                    \A l \in entries \ {e} : l.rotated \in S => l.consumed \in S
             PROVE  t \in S
  BY DEF LeadsTo
<1> DEFINE R == S \cup {e.consumed}
<1>1. R \in SUBSET Tokens /\ goal \in R
  OBVIOUS
<1>2. \A l \in entries : l.rotated \in R => l.consumed \in R
  OBVIOUS
<1>3. t \in R
  BY <1>1, <1>2 DEF LeadsTo
<1> QED  BY <1>3

-----------------------------------------------------------------------------
(* The lease is exclusive, and journals are named after what they consumed. *)

\* A step of a refresh leaves the others where they are.
LEMMA StepMovesOne ==
  ASSUME TypeOK, NEW p \in Procs, Step(p)
  PROVE  /\ pc[p] # "idle" /\ pc' \in [Procs -> Steps]
         /\ \A q \in Procs : q # p => pc'[q] = pc[q]
         /\ pc'[p] = "idle" \/ lease' = lease
<1> USE DEF TypeOK, Goto, Steps
<1>1. Leave(p) => /\ pc' \in [Procs -> Steps] /\ pc'[p] = "idle"
                  /\ \A q \in Procs : q # p => pc'[q] = pc[q]
  BY DEF Leave
<1>2. \A E : StartPass(p, E) =>
        \/ Leave(p)
        \/ /\ pc' \in [Procs -> Steps] /\ lease' = lease
           /\ \A q \in Procs : q # p => pc'[q] = pc[q]
  BY DEF StartPass, Fail
<1>3. CASE Recover(p) BY <1>1, <1>2, <1>3 DEF Recover
<1>4. CASE ReplayAccounts(p) BY <1>4 DEF ReplayAccounts
<1>5. CASE ReplayFlagged(p)
  <2>1. PICK e, replayed : FinishEntry(p, e, replayed)
    BY <1>5 DEF ReplayFlagged
  <2> QED  BY <1>1, <1>2, <1>5, <2>1 DEF ReplayFlagged, FinishEntry, Fail
<1>6. CASE Probe(p) \/ Spend(p) BY <1>1, <1>6 DEF Probe, Spend, Return, Fail
<1>7. CASE Exchange(p)
  BY <1>1, <1>7 DEF Exchange, ProviderRotates, ProviderKeeps, ProviderRejects, ReplyLost, Fail
<1>8. CASE Journal(p) \/ Discard(p) \/ Retarget(p)
  BY <1>1, <1>8 DEF Journal, Discard, Retarget, Return
<1>9. CASE Commit(p) BY <1>1, <1>9 DEF Commit, Return, Fail
<1>10. CASE SalvagePrimary(p) \/ SalvageSibling(p)
  BY <1>1, <1>10 DEF SalvagePrimary, SalvageSibling, Return, Fail
<1>11. CASE Propagate(p) BY <1>1, <1>11 DEF Propagate, Return
<1> QED BY <1>3, <1>4, <1>5, <1>6, <1>7, <1>8, <1>9, <1>10, <1>11 DEF Step

LEMMA AloneKept ==
  ASSUME TypeOK, Alone, [Next]_vars, Hazards = {}
  PROVE  Alone'
<1>1. ASSUME NEW p \in Procs, Step(p) PROVE Alone'
  BY <1>1, StepMovesOne DEF Alone
<1>2. ASSUME NEW p \in Procs, NEW s \in Stores, Begin(p, s) PROVE Alone'
  BY <1>2, RefreshAssumption DEF Alone, Begin, Goto, TypeOK
<1>3. ASSUME NEW p \in Procs, Crash(p) PROVE Alone'
  BY <1>3 DEF Alone, Crash, TypeOK
<1>4. CASE \/ ExpireAccess \/ UNCHANGED vars
           \/ \E s \in Stores : Remove(s)
           \/ \E p \in Procs : Quarantine(p)
  BY <1>4 DEF Alone, ExpireAccess, Remove, Quarantine, vars
<1> QED BY <1>1, <1>2, <1>3, <1>4 DEF Next, Environment

\* What a step does to the journal files.
LEMMA JournalStep ==
  ASSUME TypeOK, [Next]_vars
  PROVE  \/ UNCHANGED journal
         \/ \E c \in Tokens : DeleteJournal(c)
         \/ \E c \in Tokens, t \in Tokens : WriteJournal(c, t)
<1>1. \A p \in Procs : call[p].exch \in Tokens /\ call[p].got \in Tokens
  BY CallFields DEF TypeOK
<1>2. ASSUME NEW p \in Procs, Step(p)
      PROVE  \/ UNCHANGED journal
             \/ \E c \in Tokens : DeleteJournal(c)
             \/ \E c \in Tokens, t \in Tokens : WriteJournal(c, t)
  <2>1. CASE ReplayFlagged(p) BY <1>1, <2>1 DEF ReplayFlagged
  <2>2. CASE Journal(p) \/ Retarget(p) BY <1>1, <2>2 DEF Journal, Retarget
  <2>3. CASE Discard(p) BY <1>1, <2>3 DEF Discard
  <2> QED BY <1>2, <2>1, <2>2, <2>3
       DEF Step, Recover, ReplayAccounts, Probe, Spend, Exchange, ProviderRotates,
           ProviderKeeps, ProviderRejects, ReplyLost, Commit, SalvagePrimary,
           SalvageSibling, Propagate
<1>3. CASE \E p \in Procs : \E s \in Stores : Begin(p, s) BY <1>3 DEF Begin
<1>4. CASE Environment \/ UNCHANGED vars
  BY <1>4 DEF Environment, ExpireAccess, Remove, Crash, Quarantine, vars
<1> QED BY <1>2, <1>3, <1>4 DEF Next

LEMMA KeyedKept ==
  ASSUME TypeOK, Keyed, [Next]_vars
  PROVE  Keyed'
BY JournalStep DEF TypeOK, Keyed, DeleteJournal, WriteJournal, JournalFile

(***************************************************************************)
(* coordinated-refresh.ts:370-381: whatever the hazards, a journal file is *)
(* only ever overwritten by a journal of the same consumed token.          *)
(***************************************************************************)
THEOREM JournalsKeptApart == Spec => JournalNotClobbered
<1> DEFINE Apart == \A k \in Tokens : journal[k] # NoEntry /\ journal'[k] # NoEntry =>
                      journal'[k].consumed = journal[k].consumed
<1>1. Init => TypeOK /\ Keyed
  BY InitTyped DEF Init, Keyed
<1>2. TypeOK /\ Keyed /\ [Next]_vars => (TypeOK /\ Keyed)'
  BY StepTyped, KeyedKept
<1>3. TypeOK /\ Keyed /\ [Next]_vars => [Apart]_journal
  BY KeyedKept DEF Keyed
<1>4. [][Apart]_journal <=> JournalNotClobbered
  BY DEF JournalNotClobbered
<1> QED BY <1>1, <1>2, <1>3, <1>4, PTL DEF Spec

-----------------------------------------------------------------------------
(* What one step of the refresh that holds the lease must keep.            *)

\* Every stored token leads on, and the caller is told only the live token.
SafeStep(p) ==
  /\ StoredReach(Links)'
  /\ SafeCall(p)'
  /\ mem'[p] \in {mem[p], live'}

\* The links, when no other process is on its way to a journal.
LEMMA LinksOf ==
  ASSUME NEW p \in Procs, \A q \in Procs : q # p => pc[q] # "journal" /\ pc'[q] # "journal"
  PROVE  /\ pc[p] = "journal" =>
              Links = Pending \cup {[consumed |-> call[p].exch, rotated |-> call[p].got]}
         /\ pc[p] # "journal" => Links = Pending
         /\ pc'[p] = "journal" =>
              Links' = Pending' \cup {[consumed |-> call'[p].exch, rotated |-> call'[p].got]}
         /\ pc'[p] # "journal" => Links' = Pending'
<1>1. pc[p] = "journal" => {q \in Procs : pc[q] = "journal"} = {p}
  OBVIOUS
<1>2. pc'[p] = "journal" => {q \in Procs : pc'[q] = "journal"} = {p}
  OBVIOUS
<1>3. pc[p] # "journal" => {q \in Procs : pc[q] = "journal"} = {}
  OBVIOUS
<1>4. pc'[p] # "journal" => {q \in Procs : pc'[q] = "journal"} = {}
  OBVIOUS
<1> QED BY <1>1, <1>2, <1>3, <1>4 DEF Links, InMemory

\* While p is in a refresh every other process is idle.
LEMMA OthersIdle ==
  ASSUME TypeOK, Alone, NEW p \in Procs, Step(p)
  PROVE  \A q \in Procs : q # p => pc[q] = "idle" /\ pc'[q] = "idle"
BY StepMovesOne DEF Alone

LEMMA StepLinks ==
  ASSUME TypeOK, Alone, NEW p \in Procs, Step(p)
  PROVE  /\ pc[p] = "journal" =>
              Links = Pending \cup {[consumed |-> call[p].exch, rotated |-> call[p].got]}
         /\ pc[p] # "journal" => Links = Pending
         /\ pc'[p] = "journal" =>
              Links' = Pending' \cup {[consumed |-> call'[p].exch, rotated |-> call'[p].got]}
         /\ pc'[p] # "journal" => Links' = Pending'
BY OthersIdle, LinksOf

\* A refresh that is over keeps no promise.
LEMMA IdleSafe ==
  ASSUME NEW p \in Procs, pc'[p] = "idle"
  PROVE  SafeCall(p)'
BY DEF SafeCall, Durable

LEMMA LeaveSafe ==
  ASSUME TypeOK, NEW p \in Procs, Leave(p)
  PROVE  SafeCall(p)' /\ pc'[p] = "idle"
BY LeaveTyped, IdleSafe

\* Records that stay, go, or become live still lead on.
LEMMA ReachKept ==
  ASSUME NEW entries, NEW more, entries \subseteq more, StoredReach(entries), live' = live,
         \A s \in Stores : record'[s] \in {record[s], live, Absent}
  PROVE  \A s \in Stores : record'[s] # Absent => LeadsTo(more, live', record'[s])
<1> SUFFICES ASSUME NEW s \in Stores, record'[s] # Absent
             PROVE  LeadsTo(more, live, record'[s])
  OBVIOUS
<1>1. CASE record'[s] = live BY <1>1, GoalReached
<1>2. CASE record'[s] = record[s] BY <1>2, MoreEntries DEF StoredReach
<1> QED BY <1>1, <1>2

\* Two journals never claim the same consumed token.
LEMMA OneEntryEach ==
  ASSUME Keyed
  PROVE  \A e, o \in Pending : e.consumed = o.consumed => e = o
BY DEF Keyed, Pending

-----------------------------------------------------------------------------
(* The replay of leftover journals.                                        *)

LEMMA StartPassSafe ==
  ASSUME TypeOK, TypeOK', NEW p \in Procs, NEW E \in SUBSET Entries, E \subseteq Pending',
         \A s \in Stores : record'[s] # Absent => LeadsTo(E, live', record'[s]),
         StartPass(p, E)
  PROVE  SafeCall(p)' /\ pc'[p] # "journal" /\ mem' = mem
<1>1. call[p] \in Calls /\ call[p].primary \in Stores /\ live' \in Tokens
  BY CallFields DEF TypeOK
<1>2. CASE E = {}
  <2>1. pc'[p] = "probe" /\ mem' = mem
    BY <1>2, GotoTyped DEF TypeOK, StartPass, Steps
  <2>2. StoredIn({live})'
    BY <1>1, <1>2, NoEntries DEF StoredIn
  <2> QED BY <2>1, <2>2 DEF SafeCall, Durable
<1>3. CASE E # {} /\ Ready(E) = {} BY <1>3, LeaveSafe DEF StartPass, Fail
<1>4. CASE E # {} /\ Ready(E) # {}
  <2>1. Ready(E) \in SUBSET E /\ E \ Ready(E) \in SUBSET E
    BY DEF Ready
  <2>2. call' = [call EXCEPT ![p] = [call[p] EXCEPT !.todo = E, !.visit = Ready(E),
                                                   !.kept = E \ Ready(E)]]
    BY <1>4 DEF StartPass, TypeOK
  <2>3. [call[p] EXCEPT !.todo = E, !.visit = Ready(E), !.kept = E \ Ready(E)] \in Calls
    BY <1>1, <2>1 DEF Calls
  <2>4. call'[p] = [call[p] EXCEPT !.todo = E, !.visit = Ready(E), !.kept = E \ Ready(E)]
    BY <2>2, <2>3, CallPut DEF TypeOK
  <2>5. call'[p].visit = Ready(E) /\ call'[p].kept = E \ Ready(E)
    BY <2>4, <1>1 DEF Calls
  <2>6. pc'[p] = "replay_accounts" /\ mem' = mem
    BY <1>4, GotoTyped DEF TypeOK, StartPass, Steps
  <2>7. Remaining(p)' = E
    BY <2>1, <2>5 DEF Remaining
  <2>8. \A e \in Ready(E), o \in E : o # e => o.rotated # e.consumed
    BY DEF Ready
  <2>9. ReplayInOrder(p)'
    BY <2>5, <2>7, <2>8 DEF ReplayInOrder, StoredReach
  <2> QED BY <2>6, <2>9 DEF SafeCall, Durable
<1> QED BY <1>2, <1>3, <1>4

LEMMA RecoverSafe ==
  ASSUME TypeOK, TypeOK', SafeInv, Hazards = {}, NEW p \in Procs, Recover(p), ~lost'
  PROVE  SafeStep(p)
<1>1. StartPass(p, Pending)
  BY DEF Recover
<1>2. pc[p] = "recover" /\ record' = record /\ live' = live /\ Pending' = Pending /\ ~lost
  BY DEF Recover, Pending
<1>3. StoredReach(Pending) /\ Alone
  BY <1>2, StepLinks DEF SafeInv, Step
<1>4. \A s \in Stores : record'[s] # Absent => LeadsTo(Pending, live', record'[s])
  BY <1>2, <1>3 DEF StoredReach
<1>5. Pending \in SUBSET Entries
  BY PendingTyped
<1>6. SafeCall(p)' /\ pc'[p] # "journal" /\ mem' = mem
  BY <1>1, <1>2, <1>4, <1>5, StartPassSafe
<1>7. Links' = Pending'
  BY <1>3, <1>6, StepLinks DEF Step
<1> QED BY <1>2, <1>4, <1>6, <1>7 DEF SafeStep, StoredReach

\* Replaying an entry keeps every stored token on its way.
LEMMA StampReaches ==
  ASSUME TypeOK, IssuedInv, Keyed, NEW p \in Procs, ReplayInOrder(p),
         NEW e \in call[p].visit, e \in Entries, e.consumed < e.rotated, e.rotated <= live,
         NEW s \in Stores, live' = live,
         Stamp(s, e.consumed, e.rotated) \/ UNCHANGED <<record, fresh>>
  PROVE  \A x \in Stores : record'[x] # Absent => LeadsTo(Remaining(p), live', record'[x])
<1>1. e \in Remaining(p) /\ e.consumed \in Int /\ e.rotated \in Int /\ live \in Tokens
  BY TokensAreNumbers DEF Remaining, Entries, TypeOK
<1>2. e.consumed # live
  BY <1>1, TokensAreNumbers
<1>3. \A l \in Remaining(p) : l.consumed = e.consumed => l = e
  BY <1>1, OneEntryEach DEF ReplayInOrder
<1>4. \A x \in Stores : \/ record'[x] = record[x]
                        \/ record[x] = e.consumed /\ record'[x] = e.rotated
  BY DEF TypeOK, Stamp
<1>5. e.consumed # Absent
  BY TokensAreNumbers DEF Entries
<1>6. ASSUME NEW x \in Stores, record'[x] # Absent
      PROVE  LeadsTo(Remaining(p), live, record'[x])
  <2>1. CASE record'[x] = record[x]
    BY <1>6, <2>1 DEF ReplayInOrder, StoredReach
  <2>2. CASE record[x] = e.consumed /\ record'[x] = e.rotated
    <3>1. LeadsTo(Remaining(p), live, e.consumed)
      BY <1>5, <2>2 DEF ReplayInOrder, StoredReach
    <3>2. LeadsTo(Remaining(p), live, e.rotated)
      BY <1>1, <1>2, <1>3, <3>1, ChainGoesOn
    <3> QED BY <2>2, <3>2
  <2> QED BY <1>4, <2>1, <2>2
<1> QED BY <1>6

LEMMA ReplayAccountsSafe ==
  ASSUME TypeOK, TypeOK', IssuedInv, ForwardInv, SafeInv, NEW p \in Procs,
         ReplayAccounts(p), ~lost'
  PROVE  SafeStep(p)
<1>1. PICK e \in call[p].visit, ok \in BOOLEAN :
         /\ IF ok THEN Stamp("accounts", e.consumed, e.rotated)
                  ELSE UNCHANGED <<record, fresh>>
         /\ call' = [call EXCEPT ![p].exch = e.consumed, ![p].got = e.rotated,
                                 ![p].landed = ok]
  BY DEF ReplayAccounts
<1>2. /\ call[p] \in Calls /\ e \in Entries /\ e.consumed \in Tokens /\ e.rotated \in Tokens
      /\ e.consumed < e.rotated /\ e.rotated <= live
  BY CallFields DEF TypeOK, Entries, ForwardInv, ForwardCall, IssuedInv, IssuedCall, IssuedEntry
<1>3. /\ pc[p] = "replay_accounts" /\ ~lost /\ live' = live /\ Pending' = Pending
      /\ mem' = mem
  BY DEF ReplayAccounts, Pending
<1>4. Alone /\ Keyed /\ ReplayInOrder(p)
  BY <1>3 DEF SafeInv, SafeCall
<1>5. pc'[p] = "replay_flagged"
  BY GotoTyped DEF TypeOK, ReplayAccounts, Steps
<1>6. [call[p] EXCEPT !.exch = e.consumed, !.got = e.rotated, !.landed = ok] \in Calls
  BY <1>2 DEF Calls
<1>7. call' = [call EXCEPT ![p] = [call[p] EXCEPT !.exch = e.consumed, !.got = e.rotated,
                                                  !.landed = ok]]
  BY <1>1 DEF TypeOK
<1>8. call'[p] = [call[p] EXCEPT !.exch = e.consumed, !.got = e.rotated, !.landed = ok]
  BY <1>6, <1>7, CallPut DEF TypeOK
<1>9. /\ call'[p].exch = e.consumed /\ call'[p].got = e.rotated /\ call'[p].landed = ok
      /\ call'[p].visit = call[p].visit /\ call'[p].kept = call[p].kept
  BY <1>2, <1>8 DEF Calls
<1>10. Remaining(p)' = Remaining(p)
  BY <1>9 DEF Remaining
<1>11. \A x \in Stores : record'[x] # Absent => LeadsTo(Remaining(p), live', record'[x])
  BY <1>1, <1>2, <1>3, <1>4, StampReaches DEF Stores
<1>12. ReplayInOrder(p)'
  BY <1>3, <1>4, <1>9, <1>10, <1>11 DEF ReplayInOrder, StoredReach
<1>13. [consumed |-> call'[p].exch, rotated |-> call'[p].got] \in call'[p].visit
  BY <1>1, <1>2, <1>9 DEF Entries
<1>14. ok => record'["accounts"] # e.consumed
  BY <1>1, <1>2, TokensAreNumbers DEF TypeOK, Stamp, Stores
<1>15. SafeCall(p)'
  BY <1>5, <1>9, <1>12, <1>13, <1>14 DEF SafeCall, Durable
<1>16. Links' = Pending'
  BY <1>4, <1>5, StepLinks DEF Step
<1>17. StoredReach(Links)'
  BY <1>3, <1>4, <1>11, <1>16, MoreEntries DEF ReplayInOrder, StoredReach
<1> QED BY <1>3, <1>15, <1>17 DEF SafeStep

\* After an entry the pass goes on with what is left of it.
LEMMA FinishEntrySafe ==
  ASSUME TypeOK, TypeOK', SafeInv, NEW p \in Procs, NEW e \in Entries,
         NEW replayed \in BOOLEAN, FinishEntry(p, e, replayed),
         NEW R, R = IF replayed THEN Remaining(p) \ {e} ELSE Remaining(p),
         R \subseteq Pending', ReplayInOrder(p), e \in call[p].visit,
         \A s \in Stores : record'[s] # Absent => LeadsTo(R, live', record'[s])
  PROVE  SafeCall(p)' /\ pc'[p] # "journal" /\ mem' = mem
<1> DEFINE visit == call[p].visit \ {e}
           kept == IF replayed THEN call[p].kept ELSE call[p].kept \cup {e}
<1>1. /\ call[p] \in Calls /\ visit \in SUBSET Entries /\ kept \in SUBSET Entries
  BY CallFields DEF TypeOK
<1>2. R = visit \cup kept /\ visit \cap kept = {} /\ R \subseteq Remaining(p)
  BY DEF Remaining, ReplayInOrder
<1>3. \A x \in visit, o \in R : o # x => o.rotated # x.consumed
  BY <1>2 DEF ReplayInOrder
<1> HIDE DEF visit, kept
<1>4. CASE visit # {}
  <2>1. /\ Goto(p, "replay_accounts") /\ mem' = mem
        /\ call' = [call EXCEPT ![p].visit = visit, ![p].kept = kept]
    BY <1>4 DEF FinishEntry, visit, kept
  <2>2. call' = [call EXCEPT ![p] = [call[p] EXCEPT !.visit = visit, !.kept = kept]]
    BY <2>1 DEF TypeOK
  <2>3. [call[p] EXCEPT !.visit = visit, !.kept = kept] \in Calls
    BY <1>1 DEF Calls
  <2>4. call'[p] = [call[p] EXCEPT !.visit = visit, !.kept = kept]
    BY <2>2, <2>3, CallPut DEF TypeOK
  <2>5. call'[p].visit = visit /\ call'[p].kept = kept
    BY <2>4, <1>1 DEF Calls
  <2>6. pc'[p] = "replay_accounts"
    BY <2>1, GotoTyped DEF TypeOK, Steps
  <2>7. Remaining(p)' = R
    BY <1>2, <2>5 DEF Remaining
  <2>8. ReplayInOrder(p)'
    BY <1>2, <1>3, <2>5, <2>7 DEF ReplayInOrder, StoredReach
  <2> QED BY <2>1, <2>6, <2>8 DEF SafeCall, Durable
<1>5. CASE visit = {} /\ kept = call[p].todo
  <2>1. Fail(p)
    BY <1>5 DEF FinishEntry, visit, kept
  <2> QED BY <2>1, LeaveSafe DEF Fail
<1>6. CASE visit = {} /\ kept # call[p].todo
  <2>1. StartPass(p, kept)
    BY <1>6 DEF FinishEntry, visit, kept
  <2>2. kept = R
    BY <1>2, <1>6
  <2> QED BY <1>1, <2>1, <2>2, StartPassSafe
<1> QED BY <1>4, <1>5, <1>6

LEMMA ReplayFlaggedSafe ==
  ASSUME TypeOK, TypeOK', IssuedInv, ForwardInv, SafeInv, NEW p \in Procs,
         ReplayFlagged(p), ~lost'
  PROVE  SafeStep(p)
<1> DEFINE e == [consumed |-> call[p].exch, rotated |-> call[p].got]
<1>1. PICK ok \in BOOLEAN :
         /\ IF ok THEN Stamp("flagged", e.consumed, e.rotated)
                  ELSE UNCHANGED <<record, fresh>>
         /\ IF Replayed(call[p].landed, ok)
            THEN DeleteJournal(e.consumed)
            ELSE UNCHANGED journal
         /\ FinishEntry(p, e, Replayed(call[p].landed, ok))
  BY DEF ReplayFlagged
<1>2. /\ pc[p] = "replay_flagged" /\ ~lost /\ live' = live
  BY DEF ReplayFlagged
<1>3. Alone /\ Keyed /\ ReplayInOrder(p) /\ e \in call[p].visit
  BY <1>2 DEF SafeInv, SafeCall
<1>4. e.consumed = call[p].exch /\ e.rotated = call[p].got
  OBVIOUS
<1> HIDE DEF e
<1>5. /\ e \in Entries /\ e.consumed \in Tokens /\ e.rotated \in Tokens
      /\ e.consumed < e.rotated /\ e.rotated <= live /\ call[p].landed \in BOOLEAN
  BY <1>3, CallFields DEF TypeOK, Entries, ForwardInv, ForwardCall, IssuedInv, IssuedCall,
                          IssuedEntry
<1>6. e.rotated # e.consumed
  BY <1>5, TokensAreNumbers
<1>7. \A x \in Stores : record'[x] # Absent => LeadsTo(Remaining(p), live', record'[x])
  BY <1>1, <1>2, <1>3, <1>5, StampReaches DEF Stores
<1> DEFINE replayed == Replayed(call[p].landed, ok)
           R == IF replayed THEN Remaining(p) \ {e} ELSE Remaining(p)
           OnTheWay == /\ R \subseteq Pending'
                       /\ \A s \in Stores :
                            record'[s] # Absent => LeadsTo(R, live', record'[s])
<1>8. replayed \in BOOLEAN
  BY <1>5 DEF Replayed
<1>9. e \in Remaining(p) /\ Remaining(p) \subseteq Pending
  BY <1>3 DEF Remaining, ReplayInOrder
<1>10. ASSUME replayed PROVE OnTheWay
  <2>1. ok /\ call[p].landed
    BY <1>10 DEF Replayed
  <2>2. record["accounts"] # e.consumed
    BY <1>2, <1>4, <2>1 DEF SafeInv, SafeCall
  <2>3. \A x \in Stores : record'[x] # e.consumed
    BY <1>1, <1>6, <2>1, <2>2 DEF TypeOK, Stamp, Stores
  <2>4. \A l \in Remaining(p) : l # e => l.rotated # e.consumed
    BY <1>3 DEF ReplayInOrder
  <2>5. \A x \in Stores : record'[x] # Absent => LeadsTo(R, live', record'[x])
    BY <1>5, <1>6, <1>7, <1>9, <1>10, <2>3, <2>4, EntryDropped
  <2>6. ASSUME NEW l \in R PROVE l \in Pending'
    <3>1. l \in Pending /\ l # e /\ e \in Pending
      BY <1>9, <1>10
    <3>2. l.consumed # e.consumed
      BY <1>3, <3>1, OneEntryEach
    <3>3. PICK k \in Tokens : journal[k] = l /\ l # NoEntry
      BY <3>1 DEF Pending
    <3>4. k # e.consumed
      BY <1>3, <3>2, <3>3 DEF Keyed
    <3>5. journal'[k] = journal[k]
      BY <1>1, <1>10, <3>4 DEF DeleteJournal, JournalFile, TypeOK
    <3> QED BY <3>3, <3>5 DEF Pending
  <2> QED BY <2>5, <2>6
<1>11. ASSUME ~replayed PROVE OnTheWay
  <2>1. Pending' = Pending
    BY <1>1, <1>11 DEF Pending
  <2> QED BY <1>7, <1>9, <1>11, <2>1
<1>12. OnTheWay
  BY <1>8, <1>10, <1>11
<1>13. SafeCall(p)' /\ pc'[p] # "journal" /\ mem' = mem
  BY <1>1, <1>3, <1>5, <1>8, <1>12, FinishEntrySafe
<1>14. Links' = Pending'
  BY <1>3, <1>13, StepLinks DEF Step
<1>15. StoredReach(Links)'
  BY <1>12, <1>14, MoreEntries DEF StoredReach
<1> QED BY <1>13, <1>15 DEF SafeStep

-----------------------------------------------------------------------------
(* The probe and the exchange.                                             *)

LEMMA ProbeSafe ==
  ASSUME TypeOK, TypeOK', SafeInv, NEW p \in Procs, Probe(p), ~lost'
  PROVE  SafeStep(p)
<1> DEFINE s == call[p].primary
<1>1. s \in Stores /\ call[p] \in Calls
  BY CallFields DEF TypeOK
<1>2. /\ pc[p] = "probe" /\ ~lost /\ live' = live /\ record' = record /\ Pending' = Pending
  BY DEF Probe, Pending
<1>3. Alone /\ StoredReach(Links) /\ StoredIn({live})
  BY <1>2 DEF SafeInv, SafeCall
<1>4. record[s] = live \/ Missing(s)
  BY <1>1, <1>3 DEF StoredIn, Missing
<1>5. CASE Leave(p) /\ mem'[p] \in {mem[p], live}
  <2>1. SafeCall(p)' /\ pc'[p] = "idle"
    BY <1>5, LeaveSafe
  <2> QED BY <1>2, <1>3, <1>5, <2>1, StepLinks DEF Step, SafeStep, StoredReach
<1>6. CASE /\ ~Missing(s) /\ Goto(p, "spend") /\ mem' = mem
           /\ call' = [call EXCEPT ![p].exch = record[s]]
  <2>1. call' = [call EXCEPT ![p] = [call[p] EXCEPT !.exch = record[s]]]
    BY <1>6 DEF TypeOK
  <2>2. [call[p] EXCEPT !.exch = record[s]] \in Calls
    BY <1>1, <1>4, <1>6 DEF Calls, TypeOK
  <2>3. call'[p] = [call[p] EXCEPT !.exch = record[s]]
    BY <2>1, <2>2, CallPut DEF TypeOK
  <2>4. call'[p].exch = live
    BY <1>1, <1>4, <1>6, <2>3 DEF Calls
  <2>5. pc'[p] = "spend"
    BY <1>6, GotoTyped DEF TypeOK, Steps
  <2>6. SafeCall(p)'
    BY <1>2, <1>3, <2>4, <2>5 DEF SafeCall, Durable, StoredIn
  <2> QED BY <1>2, <1>3, <1>6, <2>5, <2>6, StepLinks DEF Step, SafeStep, StoredReach
<1>7. Return(p, record[s]) /\ ~Missing(s) => Leave(p) /\ mem'[p] \in {mem[p], live}
  BY <1>4 DEF Return, TypeOK
<1>8. Fail(p) => Leave(p) /\ mem'[p] \in {mem[p], live}
  BY DEF Fail
<1>9. \/ Fail(p)
      \/ ~Missing(s) /\ Return(p, record[s])
      \/ /\ ~Missing(s) /\ Goto(p, "spend") /\ mem' = mem
         /\ call' = [call EXCEPT ![p].exch = record[s]]
  BY DEF Probe
<1> QED BY <1>5, <1>6, <1>7, <1>8, <1>9

LEMMA SpendSafe ==
  ASSUME TypeOK, TypeOK', SafeInv, NEW p \in Procs, Spend(p), ~lost'
  PROVE  SafeStep(p)
<1>1. /\ pc[p] = "spend" /\ ~lost /\ live' = live /\ record' = record /\ Pending' = Pending
      /\ mem' = mem
  BY DEF Spend, Pending, Fail
<1>2. Alone /\ StoredReach(Links) /\ StoredIn({live}) /\ call[p].exch = live
  BY <1>1 DEF SafeInv, SafeCall
<1>3. lease = p /\ pc'[p] = "inflight" /\ call' = call
  BY <1>1, <1>2, GotoTyped DEF Spend, Alone, TypeOK, Steps
<1>4. SafeCall(p)'
  BY <1>1, <1>2, <1>3 DEF SafeCall, Durable, StoredIn
<1> QED BY <1>1, <1>2, <1>3, <1>4, StepLinks DEF Step, SafeStep, StoredReach

LEMMA ExchangeSafe ==
  ASSUME TypeOK, TypeOK', SafeInv, NEW p \in Procs, Exchange(p), ~lost'
  PROVE  SafeStep(p)
<1>1. /\ pc[p] = "inflight" /\ ~lost /\ record' = record /\ Pending' = Pending /\ mem' = mem
  BY DEF Exchange, ProviderRotates, ProviderKeeps, ProviderRejects, ReplyLost, Pending, Fail
<1>2. /\ Alone /\ StoredReach(Links) /\ StoredIn({live}) /\ call[p].exch = live
  BY <1>1 DEF SafeInv, SafeCall
<1>3. live \in Tokens /\ live' \in Tokens
  BY DEF TypeOK
<1>4. CASE ProviderRotates(p)
  <2>1. /\ call'[p].got = live' /\ call'[p].exch = call[p].exch
    BY <1>3, <1>4, GotFields DEF ProviderRotates
  <2>2. pc'[p] = "journal"
    BY <1>4, GotoTyped DEF ProviderRotates, TypeOK, Steps
  <2>3. \A s \in Stores : record'[s] = Absent \/ record'[s] = call'[p].exch
    BY <1>1, <1>2, <2>1 DEF StoredIn
  <2>4. SafeCall(p)'
    BY <2>1, <2>2, <2>3 DEF SafeCall, Durable, StoredIn
  <2>5. [consumed |-> live, rotated |-> live'] \in Links'
    BY <1>2, <1>4, <2>1, <2>2, StepLinks DEF Step, Exchange
  <2>6. LeadsTo({}, live, live)
    BY GoalReached
  <2>7. LeadsTo(Links', live', live)
    BY <2>5, <2>6, NextGoal
  <2> QED BY <1>1, <1>2, <2>4, <2>7 DEF SafeStep, StoredReach, StoredIn
<1>5. CASE ProviderKeeps(p)
  <2>1. /\ call'[p].got = live /\ call'[p].exch = call[p].exch /\ live' = live
    BY <1>3, <1>5, GotFields DEF ProviderKeeps
  <2>2. pc'[p] = "commit"
    BY <1>5, GotoTyped DEF ProviderKeeps, TypeOK, Steps
  <2>3. SafeCall(p)'
    BY <1>1, <1>2, <2>1, <2>2 DEF SafeCall, Durable, StoredIn
  <2> QED BY <1>1, <1>2, <1>5, <2>1, <2>2, <2>3, StepLinks
       DEF Step, Exchange, SafeStep, StoredReach
<1>6. CASE ReplyLost(p)
  <2>1. live' = live /\ Leave(p)
    BY <1>1, <1>6 DEF ReplyLost, Fail
  <2>2. SafeCall(p)' /\ pc'[p] = "idle"
    BY <2>1, LeaveSafe
  <2> QED BY <1>1, <1>2, <1>6, <2>1, <2>2, StepLinks DEF Step, Exchange, SafeStep, StoredReach
<1>7. ~ProviderRejects(p)
  BY <1>2 DEF ProviderRejects
<1> QED BY <1>4, <1>5, <1>6, <1>7 DEF Exchange

LEMMA JournalSafe ==
  ASSUME TypeOK, TypeOK', SafeInv, NEW p \in Procs, Journal(p), ~lost'
  PROVE  SafeStep(p)
<1>1. /\ pc[p] = "journal" /\ ~lost /\ live' = live /\ record' = record /\ mem' = mem
      /\ call' = call /\ WriteJournal(call[p].exch, call[p].got)
  BY DEF Journal
<1>2. Alone /\ call[p].got = live /\ StoredIn({call[p].exch, live})
  BY <1>1 DEF SafeInv, SafeCall, Durable
<1>3. pc'[p] = "commit"
  BY GotoTyped DEF Journal, TypeOK, Steps
<1>4. SafeCall(p)'
  BY <1>1, <1>2, <1>3 DEF SafeCall, Durable, StoredIn
<1>5. call[p].exch \in Tokens
  BY CallFields DEF TypeOK
<1>6. [consumed |-> call[p].exch, rotated |-> live] \in Pending'
  <2>1. journal'[call[p].exch] = [consumed |-> call[p].exch, rotated |-> live]
    BY <1>1, <1>2, <1>5 DEF WriteJournal, JournalFile, TypeOK
  <2>2. [consumed |-> call[p].exch, rotated |-> live] # NoEntry
    BY <1>5, TokensAreNumbers DEF NoEntry
  <2> QED BY <1>5, <2>1, <2>2 DEF Pending
<1>7. Links' = Pending'
  BY <1>2, <1>3, StepLinks DEF Step
<1>8. LeadsTo(Links', live, call[p].exch) /\ LeadsTo(Links', live, live)
  <2>1. LeadsTo({}, call[p].exch, call[p].exch)
    BY GoalReached
  <2> QED BY <1>6, <1>7, <2>1, NextGoal, GoalReached
<1> QED BY <1>1, <1>2, <1>4, <1>8 DEF SafeStep, StoredReach, StoredIn

-----------------------------------------------------------------------------
(* Making the rotation durable: the records only move to the live token.   *)

\* A step past the journal that moves records to the live token at most.
LEMMA DurableStep ==
  ASSUME TypeOK, SafeInv, ~lost, NEW p \in Procs, Step(p),
         pc[p] \in Durable \ {"journal"}, pc'[p] # "journal", live' = live,
         journal' = journal, \A s \in Stores : record'[s] \in {record[s], live}
  PROVE  /\ StoredReach(Links)'
         /\ \A s \in Stores : record'[s] \in {Absent, call[p].exch, live}
<1>1. Alone /\ StoredReach(Links) /\ StoredIn({call[p].exch, live})
  BY DEF SafeInv, SafeCall
<1>2. Links = Pending /\ Links' = Pending' /\ Pending' = Pending
  BY <1>1, StepLinks DEF Pending
<1>3. \A s \in Stores : record'[s] # Absent => LeadsTo(Links, live', record'[s])
  BY <1>1, ReachKept
<1> QED BY <1>1, <1>2, <1>3 DEF StoredReach, StoredIn

\* Stamping an exchanged token with the live one.
LEMMA StampLive ==
  ASSUME TypeOK, NEW s \in Stores, NEW c \in Tokens, NEW r \in Tokens, r = live,
         Stamp(s, c, r) \/ UNCHANGED <<record, fresh>>
  PROVE  \A x \in Stores : record'[x] \in {record[x], live}
BY DEF TypeOK, Stamp

LEMMA CommitSafe ==
  ASSUME TypeOK, TypeOK', SafeInv, NEW p \in Procs, Commit(p), ~lost'
  PROVE  SafeStep(p)
<1> DEFINE s == call[p].primary
           target == record[s]
<1>1. /\ s \in Stores /\ call[p].tries \in 0 .. COMMIT_ATTEMPTS
  BY CallFields DEF TypeOK
<1>2. /\ pc[p] = "commit" /\ ~lost /\ live' = live /\ journal' = journal
  BY DEF Commit
<1>3. /\ call[p].got = live /\ StoredIn({call[p].exch, live})
  BY <1>2 DEF SafeInv, SafeCall, Durable
<1>4. ~Superseded(p, target)
  BY <1>1, <1>3 DEF Superseded, StoredIn
<1>5. \A x \in Stores : record'[x] \in {record[x], live}
  BY <1>1, <1>3 DEF Commit, TypeOK
<1>6. ASSUME pc'[p] # "journal"
      PROVE  /\ StoredReach(Links)'
             /\ \A x \in Stores : record'[x] \in {Absent, call[p].exch, live}
  BY <1>2, <1>5, <1>6, DurableStep DEF Step, Durable
<1>7. CASE /\ call' = [call EXCEPT ![p].tries = @ + 1] /\ call[p].tries + 1 < COMMIT_ATTEMPTS
           /\ UNCHANGED <<record, fresh, pc, lease, mem>>
  <2>1. call[p].tries + 1 \in 0 .. COMMIT_ATTEMPTS
    BY <1>1, <1>7 DEF COMMIT_ATTEMPTS
  <2>2. call' = [call EXCEPT ![p].tries = call[p].tries + 1]
    BY <1>7 DEF TypeOK
  <2>3. call'[p].got = call[p].got /\ call'[p].exch = call[p].exch
    BY <2>1, <2>2, TriesFields
  <2>4. SafeCall(p)'
    BY <1>2, <1>3, <1>7, <2>3 DEF SafeCall, Durable, StoredIn
  <2> QED BY <1>2, <1>6, <1>7, <2>4 DEF SafeStep
<1>8. CASE Goto(p, "salvage_primary") /\ UNCHANGED <<record, fresh, mem, call>>
  <2>1. pc'[p] = "salvage_primary"
    BY <1>8, GotoTyped DEF TypeOK, Steps
  <2>2. SafeCall(p)'
    BY <1>2, <1>3, <1>8, <2>1 DEF SafeCall, Durable, StoredIn
  <2> QED BY <1>6, <1>8, <2>1, <2>2 DEF SafeStep
<1>9. CASE /\ record' = [record EXCEPT ![s] = call[p].got]
           /\ Goto(p, "propagate") /\ mem' = mem
           /\ call' = [call EXCEPT ![p].tries = 0]
  <2>1. pc'[p] = "propagate"
    BY <1>9, GotoTyped DEF TypeOK, Steps
  <2>2. 0 \in 0 .. COMMIT_ATTEMPTS
    BY DEF COMMIT_ATTEMPTS
  <2>3. /\ call'[p].got = call[p].got /\ call'[p].exch = call[p].exch
        /\ call'[p].primary = call[p].primary
    BY <1>9, <2>2, TriesFields
  <2>4. record'[s] = live
    BY <1>1, <1>3, <1>9 DEF TypeOK
  <2>5. SafeCall(p)'
    BY <1>2, <1>3, <1>6, <2>1, <2>3, <2>4 DEF SafeCall, Durable, StoredIn
  <2> QED BY <1>6, <1>9, <2>1, <2>5 DEF SafeStep
<1>10. CASE Leave(p) /\ mem'[p] \in {mem[p], live}
  BY <1>2, <1>6, <1>10, LeaveSafe DEF SafeStep
<1>11. Fail(p) \/ Return(p, call[p].got) => Leave(p) /\ mem'[p] \in {mem[p], live}
  BY <1>3 DEF Fail, Return, TypeOK
<1> QED BY <1>4, <1>7, <1>8, <1>9, <1>10, <1>11 DEF Commit, s, target

LEMMA SalvageSafe ==
  ASSUME TypeOK, TypeOK', SafeInv, NEW p \in Procs, SalvagePrimary(p) \/ SalvageSibling(p),
         ~lost'
  PROVE  SafeStep(p)
<1>1. /\ call[p].exch \in Tokens /\ call[p].got \in Tokens
      /\ call[p].primary \in Stores /\ Sibling(call[p].primary) \in Stores
  BY CallFields DEF TypeOK
<1>2. /\ pc[p] \in {"salvage_primary", "salvage_sibling"} /\ ~lost /\ live' = live
      /\ journal' = journal
  BY DEF SalvagePrimary, SalvageSibling
<1>3. call[p].got = live /\ StoredIn({call[p].exch, live})
  BY <1>2 DEF SafeInv, SafeCall, Durable
<1>4. \A x \in Stores : record'[x] \in {record[x], live}
  BY <1>1, <1>3, StampLive DEF SalvagePrimary, SalvageSibling
<1>5. ASSUME pc'[p] # "journal"
      PROVE  /\ StoredReach(Links)'
             /\ \A x \in Stores : record'[x] \in {Absent, call[p].exch, live}
  BY <1>2, <1>4, <1>5, DurableStep DEF Step, Durable
<1>6. CASE SalvagePrimary(p)
  <2>1. PICK ok \in BOOLEAN : call' = [call EXCEPT ![p].landed = ok]
    BY <1>6 DEF SalvagePrimary
  <2>2. 0 \in 0 .. COMMIT_ATTEMPTS
    BY DEF COMMIT_ATTEMPTS
  <2>3. call'[p].got = call[p].got /\ call'[p].exch = call[p].exch
    BY <2>1, <2>2, TriesFields
  <2>4. pc'[p] = "salvage_sibling" /\ mem' = mem
    BY <1>6, GotoTyped DEF TypeOK, SalvagePrimary, Steps
  <2>5. SafeCall(p)'
    BY <1>2, <1>3, <1>5, <2>3, <2>4 DEF SafeCall, Durable, StoredIn
  <2> QED BY <1>5, <2>4, <2>5 DEF SafeStep
<1>7. CASE SalvageSibling(p)
  <2>1. Leave(p) /\ mem'[p] \in {mem[p], live}
    BY <1>3, <1>7 DEF SalvageSibling, Return, Fail, TypeOK
  <2> QED BY <1>2, <1>5, <2>1, LeaveSafe DEF SafeStep
<1> QED BY <1>6, <1>7

LEMMA PropagateSafe ==
  ASSUME TypeOK, TypeOK', SafeInv, NEW p \in Procs, Propagate(p), ~lost'
  PROVE  SafeStep(p)
<1> DEFINE s == Sibling(call[p].primary)
<1>1. /\ call[p].exch \in Tokens /\ call[p].got \in Tokens /\ s \in Stores
      /\ call[p].primary \in Stores /\ call[p].tries \in 0 .. COMMIT_ATTEMPTS
      /\ \A x \in Stores : x = s \/ x = call[p].primary
  BY CallFields DEF TypeOK, Stores, Sibling
<1>2. /\ pc[p] = "propagate" /\ ~lost /\ live' = live /\ journal' = journal
  BY DEF Propagate
<1>3. /\ call[p].got = live /\ StoredIn({call[p].exch, live})
      /\ record[call[p].primary] \in {live, Absent}
  BY <1>2 DEF SafeInv, SafeCall, Durable
<1> HIDE DEF s
<1>4. \A x \in Stores : record'[x] \in {record[x], live}
  BY <1>1, <1>3, StampLive DEF Propagate, s
<1>5. ASSUME pc'[p] # "journal"
      PROVE  /\ StoredReach(Links)'
             /\ \A x \in Stores : record'[x] \in {Absent, call[p].exch, live}
  BY <1>2, <1>4, <1>5, DurableStep DEF Step, Durable
<1>6. CASE /\ Stamp(s, call[p].exch, call[p].got)
           /\ Goto(p, "discard") /\ mem' = mem /\ call' = call
  <2>1. pc'[p] = "discard"
    BY <1>6, GotoTyped DEF TypeOK, Steps
  <2>2. record'[s] \in {live, Absent}
    BY <1>1, <1>3, <1>6 DEF Stamp, TypeOK, StoredIn
  <2>3. record'[call[p].primary] \in {live, Absent}
    BY <1>1, <1>3, <1>4
  <2>4. SafeCall(p)'
    BY <1>1, <1>2, <1>3, <1>6, <2>1, <2>2, <2>3 DEF SafeCall, Durable, StoredIn
  <2> QED BY <1>5, <1>6, <2>1, <2>4 DEF SafeStep
<1>7. CASE /\ record' = record /\ pc' = pc /\ mem' = mem
           /\ call[p].tries + 1 < PROPAGATE_ATTEMPTS
           /\ call' = [call EXCEPT ![p].tries = @ + 1]
  <2>1. call[p].tries + 1 \in 0 .. COMMIT_ATTEMPTS
    BY <1>1, <1>7 DEF COMMIT_ATTEMPTS, PROPAGATE_ATTEMPTS
  <2>2. call' = [call EXCEPT ![p].tries = call[p].tries + 1]
    BY <1>7 DEF TypeOK
  <2>3. /\ call'[p].got = call[p].got /\ call'[p].exch = call[p].exch
        /\ call'[p].primary = call[p].primary
    BY <2>1, <2>2, TriesFields
  <2>4. SafeCall(p)'
    BY <1>2, <1>3, <1>7, <2>3 DEF SafeCall, Durable, StoredIn
  <2> QED BY <1>2, <1>5, <1>7, <2>4 DEF SafeStep
<1>8. CASE Return(p, call[p].got)
  <2>1. Leave(p) /\ mem'[p] = live
    BY <1>3, <1>8 DEF Return, TypeOK
  <2> QED BY <1>2, <1>5, <2>1, LeaveSafe DEF SafeStep
<1> QED BY <1>6, <1>7, <1>8 DEF Propagate, s

LEMMA DiscardSafe ==
  ASSUME TypeOK, TypeOK', SafeInv, NEW p \in Procs, Discard(p), ~lost'
  PROVE  SafeStep(p)
<1>1. /\ pc[p] = "discard" /\ ~lost /\ live' = live /\ record' = record
  BY DEF Discard
<1>2. call[p].got = live /\ StoredIn({live})
  BY <1>1 DEF SafeInv, SafeCall, Durable
<1>3. Leave(p) /\ mem'[p] = live
  BY <1>2 DEF Discard, Return, TypeOK
<1>4. StoredReach(Links)'
  BY <1>1, <1>2, GoalReached DEF StoredReach, StoredIn
<1> QED BY <1>1, <1>3, <1>4, LeaveSafe DEF SafeStep

-----------------------------------------------------------------------------
(* The environment, and the induction.                                     *)

\* No refresh moves, and records only go away or become live.
LEMMA OutsideSafe ==
  ASSUME TypeOK, SafeInv, ~lost, UNCHANGED <<live, journal, pc, call>>,
         \A s \in Stores : record'[s] \in {record[s], live, Absent},
         record'["accounts"] \in {record["accounts"], Absent}
  PROVE  StoredReach(Links)' /\ \A p \in Procs : SafeCall(p)'
<1>1. Links' = Links /\ Pending' = Pending
  BY DEF Links, InMemory, Pending
<1>2. StoredReach(Links)'
  BY <1>1, ReachKept DEF SafeInv, StoredReach
<1>3. ASSUME NEW p \in Procs PROVE SafeCall(p)'
  <2>1. SafeCall(p)
    BY DEF SafeInv
  <2>2. call[p].exch # Absent /\ call[p].primary \in Stores
    BY CallFields, TokensAreNumbers DEF TypeOK
  <2>3. Remaining(p)' = Remaining(p)
    BY DEF Remaining
  <2>4. ReplayInOrder(p) => ReplayInOrder(p)'
    BY <1>1, <2>3, ReachKept DEF ReplayInOrder, StoredReach
  <2>5. \A T : live \in T /\ StoredIn(T) => \A s \in Stores : record'[s] = Absent \/ record'[s] \in T
    BY DEF StoredIn
  <2>6. StoredIn({live}) => StoredIn({live})'
    BY <2>5 DEF StoredIn
  <2>7. StoredIn({call[p].exch, live}) => StoredIn({call[p].exch, live})'
    BY <2>5 DEF StoredIn
  <2>8. record[call[p].primary] \in {live, Absent} => record'[call[p].primary] \in {live, Absent}
    BY <2>2
  <2>9. record["accounts"] # call[p].exch => record'["accounts"] # call[p].exch
    BY <2>2
  <2> QED BY <2>1, <2>4, <2>6, <2>7, <2>8, <2>9 DEF SafeCall
<1> QED BY <1>2, <1>3

LEMMA BeginSafe ==
  ASSUME TypeOK, SafeInv, Hazards = {}, NEW p \in Procs, NEW s \in Stores, Begin(p, s), ~lost'
  PROVE  StoredReach(Links)' /\ \A q \in Procs : SafeCall(q)'
<1>1. /\ ~lost /\ live' = live /\ record' = record /\ Pending' = Pending
      /\ lease \in {Free, Abandoned}
  BY DEF Begin, Pending
<1>2. \A q \in Procs : pc[q] = "idle"
  BY <1>1, RefreshAssumption DEF SafeInv, Alone
<1>3. pc'[p] = "recover" /\ \A q \in Procs : q # p => pc'[q] = "idle"
  BY <1>2, GotoTyped DEF Begin, TypeOK, Steps
<1>4. Links = Pending /\ Links' = Pending'
  BY <1>2, <1>3, LinksOf
<1>5. StoredReach(Links)'
  BY <1>1, <1>4 DEF SafeInv, StoredReach
<1> QED BY <1>3, <1>5 DEF SafeCall, Durable

LEMMA CrashSafe ==
  ASSUME TypeOK, SafeInv, NEW p \in Procs, Crash(p), ~lost'
  PROVE  StoredReach(Links)' /\ \A q \in Procs : SafeCall(q)'
<1>1. /\ ~lost /\ live' = live /\ record' = record /\ Pending' = Pending
      /\ pc[p] # "journal" /\ pc[p] # "idle"
  BY DEF Crash, Pending
<1>2. \A q \in Procs : q # p => pc[q] = "idle"
  BY <1>1 DEF SafeInv, Alone
<1>3. \A q \in Procs : pc'[q] = "idle"
  BY <1>2 DEF Crash, TypeOK
<1>4. Links = Pending /\ Links' = Pending'
  BY <1>1, <1>2, <1>3, LinksOf
<1>5. StoredReach(Links)'
  BY <1>1, <1>4 DEF SafeInv, StoredReach
<1> QED BY <1>3, <1>5, IdleSafe

LEMMA RefreshSafe ==
  ASSUME TypeOK, TypeOK', IssuedInv, ForwardInv, SafeInv, Hazards = {}, NEW p \in Procs,
         Step(p), ~lost'
  PROVE  SafeStep(p)
<1>1. ASSUME Retarget(p) PROVE FALSE
  <2>1. pc[p] = "retarget" /\ ~lost
    BY <1>1 DEF Retarget
  <2>2. SafeCall(p)
    BY <2>1 DEF SafeInv
  <2> QED BY <2>1, <2>2 DEF SafeCall
<1> QED BY <1>1, RecoverSafe, ReplayAccountsSafe, ReplayFlaggedSafe, ProbeSafe, SpendSafe,
     ExchangeSafe, JournalSafe, CommitSafe, SalvageSafe, PropagateSafe, DiscardSafe DEF Step

LEMMA StepSafe ==
  ASSUME TypeOK, IssuedInv, ForwardInv, SafeInv, Hazards = {}, [Next]_vars
  PROVE  SafeInv'
<1>1. TypeOK' /\ Alone' /\ Keyed'
  BY StepTyped, AloneKept, KeyedKept DEF SafeInv
<1> SUFFICES ASSUME ~lost' PROVE StoredReach(Links)' /\ \A p \in Procs : SafeCall(p)'
  BY <1>1 DEF SafeInv
<1>2. ASSUME NEW p \in Procs, Step(p)
      PROVE  StoredReach(Links)' /\ \A q \in Procs : SafeCall(q)'
  <2>1. SafeStep(p)
    BY <1>1, <1>2, RefreshSafe
  <2>2. \A q \in Procs : q # p => pc'[q] = "idle"
    BY <1>2, OthersIdle DEF SafeInv
  <2> QED BY <2>1, <2>2, IdleSafe DEF SafeStep
<1>3. CASE \E p \in Procs : \E s \in Stores : Begin(p, s) BY <1>3, BeginSafe
<1>4. CASE \E p \in Procs : Crash(p) BY <1>4, CrashSafe
<1>5. CASE ExpireAccess \/ UNCHANGED vars
  BY <1>5, OutsideSafe DEF ExpireAccess, vars, Stores
<1>6. CASE \E s \in Stores : Remove(s)
  <2>1. ~lost /\ UNCHANGED <<live, journal, pc, call>>
    BY <1>6 DEF Remove
  <2>2. \A x \in Stores : record'[x] \in {record[x], Absent}
    BY <1>6 DEF Remove, TypeOK
  <2> QED BY <2>1, <2>2, OutsideSafe DEF Stores
<1>7. CASE \E p \in Procs : Quarantine(p)
  <2>1. ~lost /\ UNCHANGED <<live, journal, pc, call>>
    BY <1>7 DEF Quarantine
  <2>2. record' = [record EXCEPT !["flagged"] = live]
    BY <1>7 DEF Quarantine
  <2>3. \A x \in Stores : record'[x] \in {record[x], live} /\ (x = "accounts" => record'[x] = record[x])
    BY <2>2 DEF TypeOK
  <2> QED BY <2>1, <2>3, OutsideSafe DEF Stores
<1> QED BY <1>2, <1>3, <1>4, <1>5, <1>6, <1>7 DEF Next, Environment

LEMMA InitSafe == Init => SafeInv
<1> SUFFICES ASSUME Init PROVE SafeInv
  OBVIOUS
<1>1. Alone /\ Keyed /\ \A p \in Procs : SafeCall(p)
  BY RefreshAssumption DEF Init, Alone, Keyed, SafeCall, Durable
<1>2. \A s \in Stores : record[s] # Absent => record[s] = live
  BY DEF Init
<1>3. StoredReach(Links)
  BY <1>2, GoalReached DEF StoredReach
<1> QED BY <1>1, <1>3 DEF SafeInv

LEMMA SafeTokens == SafeInv => TokensSafe
<1>1. ASSUME SafeInv, ~lost, NEW s \in Stores, record[s] # Absent
      PROVE  Recoverable(record[s])
  BY <1>1 DEF SafeInv, StoredReach, LeadsTo, Recoverable
<1>2. ASSUME SafeInv, ~lost, NEW p \in Procs, pc[p] = "inflight"
      PROVE  call[p].exch = live
  BY <1>2 DEF SafeInv, SafeCall
<1> QED BY <1>1, <1>2 DEF TokensSafe, NoStrandedRecord, NoTokenReuse

(***************************************************************************)
(* coordinated-refresh.ts:327-348, 688-712: while every refresh runs under *)
(* an exclusive lease, can read the journals, and sessions flag only the   *)
(* token they know to be live, every stored token leads to the live one    *)
(* and no consumed token is presented again: whatever crashes, fails or    *)
(* loses its reply, for any number of processes and rotations.             *)
(***************************************************************************)
THEOREM TokensStaySafe ==
  ASSUME Hazards = {}
  PROVE  Spec => []TokensSafe
<1> DEFINE Inv == TypeOK /\ IssuedInv /\ ForwardInv /\ SafeInv
<1>1. Init => Inv
  BY InitTyped, InitIssued, InitForward, InitSafe
<1>2. Inv /\ [Next]_vars => Inv'
  BY StepTyped, StepIssued, StepForward, StepSafe
<1>3. Inv => TokensSafe
  BY SafeTokens
<1> QED BY <1>1, <1>2, <1>3, PTL DEF Spec

(***************************************************************************)
(* Under the same assumptions a refresh that changes the session's token - *)
(* by exchange, adoption, salvage, or despite a failed propagation - hands *)
(* it the live one.                                                        *)
(***************************************************************************)
THEOREM RefreshesReturnTheLiveToken ==
  ASSUME Hazards = {}
  PROVE  Spec => SuccessMeansLive
<1> DEFINE Inv == TypeOK /\ IssuedInv /\ ForwardInv /\ SafeInv
           Told == \A p \in Procs :
                     Step(p) /\ mem'[p] # mem[p] /\ ~lost' => mem'[p] = live'
<1>1. Init => Inv
  BY InitTyped, InitIssued, InitForward, InitSafe
<1>2. Inv /\ [Next]_vars => Inv'
  BY StepTyped, StepIssued, StepForward, StepSafe
<1>3. Inv /\ [Next]_vars => [Told]_vars
  BY StepTyped, RefreshSafe DEF SafeStep
<1>4. [][Told]_vars <=> SuccessMeansLive
  BY DEF SuccessMeansLive
<1> QED BY <1>1, <1>2, <1>3, <1>4, PTL DEF Spec

-----------------------------------------------------------------------------
(***************************************************************************)
(* What earlier processes, stolen leases and deaths may leave behind: any  *)
(* set of journals, chains included, as long as every stored token leads   *)
(* to the live one.                                                        *)
(***************************************************************************)
LeftBehind ==
  /\ TypeOK
  /\ lease \in {Free, Abandoned}
  /\ \A p \in Procs : pc[p] = "idle" /\ call[p] = NewCall("accounts")
  /\ \A s \in Stores : record[s] <= live
  /\ \A k \in Tokens : journal[k] # NoEntry =>
       /\ journal[k].consumed = k
       /\ k < journal[k].rotated /\ journal[k].rotated <= live
  /\ StoredReach(Pending)

LEMMA LeftBehindSafe ==
  ASSUME LeftBehind
  PROVE  TypeOK /\ IssuedInv /\ ForwardInv /\ SafeInv
<1>1. TypeOK /\ Alone /\ Keyed
  BY DEF LeftBehind, Alone, Keyed
<1>2. /\ live \in Int /\ live >= 0
      /\ \A k \in Tokens : k \in Int /\ journal[k].consumed \in Int /\ journal[k].rotated \in Int
  BY <1>1, Numbers, TokensAreNumbers
<1>3. IssuedJournals
  <2>1. IssuedEntry(NoEntry)
    BY <1>2 DEF IssuedEntry, NoEntry, Absent
  <2>2. \A k \in Tokens : journal[k] # NoEntry => IssuedEntry(journal[k])
    BY <1>2 DEF LeftBehind, IssuedEntry
  <2> QED BY <2>1, <2>2 DEF IssuedJournals
<1>4. \A p \in Procs :
        /\ call[p].exch = 0 /\ call[p].got = 0
        /\ call[p].todo = {} /\ call[p].visit = {} /\ call[p].kept = {}
  BY DEF LeftBehind, NewCall
<1>5. IssuedInv
  BY <1>2, <1>3, <1>4 DEF IssuedInv, IssuedRecords, IssuedCall, LeftBehind
<1>6. ForwardJournals
  BY <1>2 DEF ForwardJournals, LeftBehind
<1>7. ForwardInv
  BY <1>4, <1>6 DEF ForwardInv, ForwardCall, LeftBehind, Replacing, Holding
<1>8. Links = Pending
  BY DEF LeftBehind, Links, InMemory
<1>9. SafeInv
  BY <1>1, <1>8 DEF SafeInv, SafeCall, Durable, LeftBehind
<1> QED BY <1>1, <1>5, <1>7, <1>9

(***************************************************************************)
(* From whatever was left behind, the refreshes that follow replay the     *)
(* journals - oldest link of a chain first - without stranding a record or *)
(* presenting a consumed token, and return only the live token.            *)
(***************************************************************************)
THEOREM LeftoversStaySafe ==
  ASSUME Hazards = {}
  PROVE  LeftBehind /\ [][Next]_vars => []TokensSafe /\ SuccessMeansLive
<1> DEFINE Inv == TypeOK /\ IssuedInv /\ ForwardInv /\ SafeInv
           Told == \A p \in Procs :
                     Step(p) /\ mem'[p] # mem[p] /\ ~lost' => mem'[p] = live'
<1>1. LeftBehind => Inv
  BY LeftBehindSafe
<1>2. Inv /\ [Next]_vars => Inv'
  BY StepTyped, StepIssued, StepForward, StepSafe
<1>3. Inv => TokensSafe
  BY SafeTokens
<1>4. Inv /\ [Next]_vars => [Told]_vars
  BY StepTyped, RefreshSafe DEF SafeStep
<1>5. [][Told]_vars <=> SuccessMeansLive
  BY DEF SuccessMeansLive
<1> QED BY <1>1, <1>2, <1>3, <1>4, <1>5, PTL
=============================================================================
