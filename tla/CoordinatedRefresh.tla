------------------------ MODULE CoordinatedRefresh -------------------------
(***************************************************************************)
(* Refreshing one account's single-use OAuth credential                    *)
(* (lib/storage/coordinated-refresh.ts).                                   *)
(*                                                                         *)
(* A process takes the refresh lease, replays leftover rotation journals,  *)
(* probes the store it was called for, exchanges the stored token with the *)
(* provider, journals the replacement, commits it to that store,           *)
(* propagates it to the other one and removes the journal.  Every storage  *)
(* transaction is one step (it runs under its own exclusive lease); every  *)
(* other step boundary is an await at which other processes run, a fault   *)
(* may happen or the process may die.                                      *)
(*                                                                         *)
(* Tokens are numbered in the order the provider issues them, so "newer"   *)
(* is ">" and exactly one token, `live`, is accepted by the provider.      *)
(***************************************************************************)
EXTENDS Integers, FiniteSets

CONSTANTS
  Procs,         \* plugin processes sharing the storage directory
  MaxRotations,  \* bound: tokens the provider issues after the first
  MaxFaults,     \* bound: failures, crashes and lease thefts in a behaviour
  Hazards        \* which of AllHazards the environment may produce

AllHazards ==
  {"lease_loss",          \* a live holder stalls past the lease's stale window
   "unreadable_journal",  \* a journal exists but reading it fails
   "stale_quarantine"}    \* a session flags the account with a token it outlived

Free == "free"            \* no lock directory
Abandoned == "abandoned"  \* the lock directory of a holder that died

ASSUME RefreshAssumption ==
  /\ MaxRotations \in Nat
  /\ MaxFaults \in Nat
  /\ Hazards \subseteq AllHazards
  /\ Procs \cap {Free, Abandoned} = {}

Tokens == 0 .. MaxRotations
Absent == -1
Stores == {"accounts", "flagged"}
Sibling(s) == IF s = "accounts" THEN "flagged" ELSE "accounts"
COMMIT_ATTEMPTS == 3
PROPAGATE_ATTEMPTS == 2

\* A pending-rotation journal: the consumed token and its replacement.
Entries == [consumed : Tokens, rotated : Tokens]
NoEntry == [consumed |-> Absent, rotated |-> Absent]

VARIABLES
  live,    \* the token the provider accepts
  lost,    \* ghost: the replacement died in a window no journal can cover
  record,  \* token of the account's record in each store, or Absent
  fresh,   \* the accounts record carries an unexpired access token
  journal, \* the journal files, by file name
  lease,   \* holder of the refresh lease
  faults,  \* faults so far
  pc,      \* where each process's refresh stands
  mem,     \* refresh token each session holds in memory
  call     \* locals of each process's refresh

vars == <<live, lost, record, fresh, journal, lease, faults, pc, mem, call>>

Steps == {"idle", "recover", "replay_accounts", "replay_flagged", "probe",
          "spend", "inflight", "journal", "commit", "salvage_primary",
          "salvage_sibling", "retarget", "propagate", "discard"}

\* primary: the store refreshed; exch, got: the token exchanged (or being
\* replayed) and its replacement; landed: a store took the replacement;
\* tries: failed attempts; todo, visit, kept: the replay passes.
Calls == [primary : Stores, exch : Tokens, got : Tokens, landed : BOOLEAN,
          tries : 0 .. COMMIT_ATTEMPTS, todo : SUBSET Entries,
          visit : SUBSET Entries, kept : SUBSET Entries]

NewCall(s) == [primary |-> s, exch |-> 0, got |-> 0, landed |-> FALSE,
               tries |-> 0, todo |-> {}, visit |-> {}, kept |-> {}]

Init ==
  /\ live = 0
  /\ lost = FALSE
  /\ record \in [Stores -> {0, Absent}]
  /\ fresh \in BOOLEAN
  /\ journal = [k \in Tokens |-> NoEntry]
  /\ lease = Free
  /\ faults = 0
  /\ pc = [p \in Procs |-> "idle"]
  /\ mem = [p \in Procs |-> 0]
  /\ call = [p \in Procs |-> NewCall("accounts")]

-----------------------------------------------------------------------------
(* Helpers.                                                                *)

Goto(p, step) == pc' = [pc EXCEPT ![p] = step]

Fault == faults < MaxFaults /\ faults' = faults + 1

\* Either the storage or file operation succeeds, or it costs a fault.
Outcome(ok) == IF ok THEN UNCHANGED faults ELSE Fault

\* The lease is given up only by the process that still owns it.
Leave(p) ==
  /\ Goto(p, "idle")
  /\ lease' = IF lease = p THEN Free ELSE lease
  /\ call' = [call EXCEPT ![p] = NewCall("accounts")]

\* coordinateRefresh resolves with token t, which the caller adopts.
Return(p, t) == Leave(p) /\ mem' = [mem EXCEPT ![p] = t]

\* coordinateRefresh throws, or resolves with the provider's failure.
Fail(p) == Leave(p) /\ UNCHANGED mem

\* Mutant: the sibling record is overwritten whatever it holds.
StampAnyToken(s, consumed, replacement) ==
  /\ record' = [record EXCEPT ![s] = IF @ = Absent THEN @ ELSE replacement]
  /\ fresh' = (fresh /\ s # "accounts")

(* stampConsumedTokenRotation: only a record still holding the consumed    *)
(* token is stamped, and a stamped record's access token is expired.       *)
Stamp(s, consumed, replacement) ==
  /\ record' = [record EXCEPT ![s] = IF @ = consumed THEN replacement ELSE @]
  /\ fresh' = (fresh /\ ~(s = "accounts" /\ record[s] = consumed))

\* Mutant: a removed account is not noticed.
NeverMissing(s) == FALSE

Missing(s) == record[s] = Absent

\* Mutant: the one unsuffixed file of older versions, whatever the token.
SharedJournal(consumed) == 0

JournalFile(consumed) == consumed

WriteJournal(consumed, replacement) ==
  journal' = [journal EXCEPT ![JournalFile(consumed)] =
                [consumed |-> consumed, rotated |-> replacement]]

\* Mutant: a finished journal is left in place.
KeepJournal(consumed) == UNCHANGED <<journal, faults>>

\* Removing a file that is not there succeeds; a failure is only logged.
DeleteJournal(consumed) ==
  \/ journal' = [journal EXCEPT ![JournalFile(consumed)] = NoEntry]
     /\ UNCHANGED faults
  \/ Fault /\ UNCHANGED journal

Pending == {journal[k] : k \in Tokens} \ {NoEntry}

\* Mutant: journals are replayed in directory order.
ReadyInAnyOrder(entries) == entries

\* Entries whose consumed token no other remaining entry produces.
Ready(entries) ==
  {e \in entries : ~ \E o \in entries : o # e /\ o.rotated = e.consumed}

-----------------------------------------------------------------------------
(* Taking the lease.  A free or abandoned lock directory can be claimed; a *)
(* live holder's only once it has gone stale, which its heartbeat prevents *)
(* unless its process stalls.                                              *)

Begin(p, s) ==
  /\ pc[p] = "idle"
  /\ \/ lease \in {Free, Abandoned} /\ UNCHANGED faults
     \/ "lease_loss" \in Hazards /\ lease \in Procs \ {p} /\ Fault
  /\ lease' = p
  /\ call' = [call EXCEPT ![p] = NewCall(s)]
  /\ Goto(p, "recover")
  /\ UNCHANGED <<live, lost, record, fresh, journal, mem>>

-----------------------------------------------------------------------------
(* recoverPendingRotation.                                                 *)

\* Start a pass over the remaining entries; none can be tried on a cycle.
StartPass(p, entries) ==
  IF entries = {} THEN
    /\ Goto(p, "probe")
    /\ call' = [call EXCEPT ![p] = NewCall(@.primary)]
    /\ UNCHANGED <<lease, mem>>
  ELSE IF Ready(entries) = {} THEN Fail(p)
  ELSE
    /\ Goto(p, "replay_accounts")
    /\ call' = [call EXCEPT ![p].todo = entries,
                            ![p].visit = Ready(entries),
                            ![p].kept = entries \ Ready(entries)]
    /\ UNCHANGED <<lease, mem>>

\* List and read the journals; one that cannot be read is skipped.
Recover(p) ==
  /\ pc[p] = "recover"
  /\ \E unread \in SUBSET Pending :
       /\ unread # {} => "unreadable_journal" \in Hazards
       /\ Outcome(unread = {})
       /\ StartPass(p, Pending \ unread)
  /\ UNCHANGED <<live, lost, record, fresh, journal>>

ReplayAccounts(p) ==
  /\ pc[p] = "replay_accounts"
  /\ \E e \in call[p].visit, ok \in BOOLEAN :
       /\ Outcome(ok)
       /\ IF ok THEN Stamp("accounts", e.consumed, e.rotated)
                ELSE UNCHANGED <<record, fresh>>
       /\ call' = [call EXCEPT ![p].exch = e.consumed, ![p].got = e.rotated,
                               ![p].landed = ok]
  /\ Goto(p, "replay_flagged")
  /\ UNCHANGED <<live, lost, journal, lease, mem>>

Replayed(inAccounts, inFlagged) == inAccounts /\ inFlagged

\* Mutant: what could not be replayed is left for later and the refresh goes on.
FinishEntryRegardless(p, e, replayed) ==
  LET visit == call[p].visit \ {e}
  IN  IF visit # {} THEN
        /\ Goto(p, "replay_accounts")
        /\ call' = [call EXCEPT ![p].visit = visit]
        /\ UNCHANGED <<lease, mem>>
      ELSE StartPass(p, {})

\* The rest of the pass, once e has been replayed or kept.
FinishEntry(p, e, replayed) ==
  LET visit == call[p].visit \ {e}
      kept == IF replayed THEN call[p].kept ELSE call[p].kept \cup {e}
  IN  IF visit # {} THEN
        /\ Goto(p, "replay_accounts")
        /\ call' = [call EXCEPT ![p].visit = visit, ![p].kept = kept]
        /\ UNCHANGED <<lease, mem>>
      ELSE IF kept = call[p].todo THEN Fail(p)   \* no progress in this pass
      ELSE StartPass(p, kept)

ReplayFlagged(p) ==
  LET e == [consumed |-> call[p].exch, rotated |-> call[p].got] IN
  /\ pc[p] = "replay_flagged"
  /\ \E ok \in BOOLEAN :
       /\ IF ok THEN Stamp("flagged", e.consumed, e.rotated)
                ELSE UNCHANGED <<record, fresh>>
       /\ IF Replayed(call[p].landed, ok)
          THEN DeleteJournal(e.consumed)
          ELSE Outcome(ok) /\ UNCHANGED journal
       /\ FinishEntry(p, e, Replayed(call[p].landed, ok))
  /\ UNCHANGED <<live, lost>>

-----------------------------------------------------------------------------
(* The probe and the exchange.                                             *)

\* A rotation another process committed, with a usable access token.  The
\* flagged store keeps no access tokens, so it never qualifies.
CanAdopt(p) ==
  call[p].primary = "accounts" /\ record["accounts"] # mem[p] /\ fresh

Probe(p) ==
  LET s == call[p].primary IN
  /\ pc[p] = "probe"
  /\ \/ Fault /\ Fail(p)                                \* storage failure
     \/ Missing(s) /\ Fail(p) /\ UNCHANGED faults       \* account removed
     \/ ~Missing(s) /\ CanAdopt(p) /\ Return(p, record[s]) /\ UNCHANGED faults
     \/ /\ ~Missing(s) /\ ~CanAdopt(p)
        /\ Goto(p, "spend")
        /\ call' = [call EXCEPT ![p].exch = record[s]]
        /\ UNCHANGED <<lease, mem, faults>>
  /\ UNCHANGED <<live, lost, record, fresh, journal>>

\* lease.assertValid() guards the one point where the token is spent.
Spend(p) ==
  /\ pc[p] = "spend"
  /\ IF lease = p THEN Goto(p, "inflight") /\ UNCHANGED <<lease, call, mem>>
                  ELSE Fail(p)
  /\ UNCHANGED <<live, lost, record, fresh, journal, faults>>

ProviderRotates(p) ==
  /\ pc[p] = "inflight" /\ call[p].exch = live /\ live < MaxRotations
  /\ live' = live + 1
  /\ call' = [call EXCEPT ![p].got = live + 1]
  /\ Goto(p, "journal")
  /\ UNCHANGED <<lost, record, fresh, journal, lease, faults, mem>>

\* The provider may answer with an access token and no new refresh token.
ProviderKeeps(p) ==
  /\ pc[p] = "inflight" /\ call[p].exch = live
  /\ call' = [call EXCEPT ![p].got = live]
  /\ Goto(p, "commit")
  /\ UNCHANGED <<live, lost, record, fresh, journal, lease, faults, mem>>

\* refresh_token_reused: the credential was consumed already.
ProviderRejects(p) ==
  /\ pc[p] = "inflight" /\ call[p].exch # live
  /\ Fail(p)
  /\ UNCHANGED <<live, lost, record, fresh, journal, faults>>

\* A network error; the provider may or may not have consumed the token.
ReplyLost(p) ==
  /\ pc[p] = "inflight"
  /\ Fault
  /\ \/ UNCHANGED <<live, lost>>
     \/ call[p].exch = live /\ live < MaxRotations /\ live' = live + 1 /\ lost' = TRUE
  /\ Fail(p)
  /\ UNCHANGED <<record, fresh, journal>>

-----------------------------------------------------------------------------
(* Making the rotation durable.                                            *)

Rotated(p) == call[p].got # call[p].exch

\* writePendingRotationJournal is best effort.
Journal(p) ==
  /\ pc[p] = "journal"
  /\ \/ /\ WriteJournal(call[p].exch, call[p].got)
        /\ UNCHANGED <<faults, lost>>
     \/ Fault /\ lost' = TRUE /\ UNCHANGED journal
  /\ Goto(p, "commit")
  /\ UNCHANGED <<live, record, fresh, lease, mem, call>>

\* Mutant: the commit overwrites whatever the record holds.
NeverSuperseded(p, target) == FALSE

\* commitRotation's adopt guard: another holder rotated the record meanwhile.
Superseded(p, target) == target \notin {Absent, call[p].exch, call[p].got}

Commit(p) ==
  LET s == call[p].primary
      target == record[s]
  IN
  /\ pc[p] = "commit"
  /\ \/ /\ Fault /\ call[p].tries + 1 < COMMIT_ATTEMPTS   \* lease contention
        /\ call' = [call EXCEPT ![p].tries = @ + 1]
        /\ UNCHANGED <<record, fresh, pc, lease, mem>>
     \/ /\ \/ Fault                                       \* or out of attempts
           \/ Missing(s) /\ UNCHANGED faults              \* removed meanwhile
        /\ IF Rotated(p)
           THEN Goto(p, "salvage_primary") /\ UNCHANGED <<lease, mem, call>>
           ELSE Fail(p)
        /\ UNCHANGED <<record, fresh>>
     \/ /\ Superseded(p, target)
        /\ IF Rotated(p)
           THEN /\ Goto(p, "retarget")
                /\ call' = [call EXCEPT ![p].got = target]
                /\ UNCHANGED <<lease, mem>>
           ELSE Return(p, target)
        /\ UNCHANGED <<record, fresh, faults>>
     \/ /\ ~Missing(s) /\ ~Superseded(p, target)
        /\ record' = [record EXCEPT ![s] = call[p].got]
        /\ fresh' = (fresh \/ s = "accounts")
        /\ IF Rotated(p)
           THEN /\ Goto(p, "propagate")
                /\ call' = [call EXCEPT ![p].tries = 0]
                /\ UNCHANGED <<lease, mem>>
           ELSE Return(p, call[p].got)
        /\ UNCHANGED faults
  /\ UNCHANGED <<live, lost, journal>>

\* The adopted token becomes the journal's replacement; the file is left.
Retarget(p) ==
  /\ pc[p] = "retarget"
  /\ \/ WriteJournal(call[p].exch, call[p].got) /\ UNCHANGED faults
     \/ Fault /\ UNCHANGED journal
  /\ Return(p, call[p].got)
  /\ UNCHANGED <<live, lost, record, fresh>>

SalvagePrimary(p) ==
  LET s == call[p].primary IN
  /\ pc[p] = "salvage_primary"
  /\ \E ok \in BOOLEAN :
       /\ Outcome(ok)
       /\ IF ok THEN Stamp(s, call[p].exch, call[p].got)
                ELSE UNCHANGED <<record, fresh>>
       /\ call' = [call EXCEPT ![p].landed = ok /\ record[s] = call[p].exch]
  /\ Goto(p, "salvage_sibling")
  /\ UNCHANGED <<live, lost, journal, lease, mem>>

SalvageSibling(p) ==
  LET s == Sibling(call[p].primary) IN
  /\ pc[p] = "salvage_sibling"
  /\ \E ok \in BOOLEAN :
       /\ Outcome(ok)
       /\ IF ok THEN Stamp(s, call[p].exch, call[p].got)
                ELSE UNCHANGED <<record, fresh>>
       /\ IF call[p].landed \/ (ok /\ record[s] = call[p].exch)
          THEN Return(p, call[p].got)
          ELSE Fail(p)
  /\ UNCHANGED <<live, lost, journal>>

Propagate(p) ==
  LET s == Sibling(call[p].primary) IN
  /\ pc[p] = "propagate"
  /\ \/ /\ Stamp(s, call[p].exch, call[p].got)
        /\ Goto(p, "discard")
        /\ UNCHANGED <<lease, faults, mem, call>>
     \/ /\ Fault /\ UNCHANGED <<record, fresh>>
        /\ IF call[p].tries + 1 < PROPAGATE_ATTEMPTS
           THEN /\ call' = [call EXCEPT ![p].tries = @ + 1]
                /\ UNCHANGED <<lease, pc, mem>>
           ELSE Return(p, call[p].got)     \* the journal stays
  /\ UNCHANGED <<live, lost, journal>>

Discard(p) ==
  /\ pc[p] = "discard"
  /\ DeleteJournal(call[p].exch)
  /\ Return(p, call[p].got)
  /\ UNCHANGED <<live, lost, record, fresh>>

-----------------------------------------------------------------------------
(* The environment.                                                        *)

\* A process dies mid-refresh; its next session loads the accounts store.  A
\* request in flight may still reach the provider.
Crash(p) ==
  /\ pc[p] # "idle"
  /\ Fault
  /\ pc' = [pc EXCEPT ![p] = "idle"]
  /\ lease' = IF lease = p THEN Abandoned ELSE lease
  /\ call' = [call EXCEPT ![p] = NewCall("accounts")]
  /\ mem' = [mem EXCEPT ![p] = IF record["accounts"] = Absent THEN @ ELSE record["accounts"]]
  /\ \/ lost' = (lost \/ pc[p] = "journal") /\ UNCHANGED live
     \/ /\ pc[p] = "inflight" /\ call[p].exch = live /\ live < MaxRotations
        /\ live' = live + 1 /\ lost' = TRUE
  /\ UNCHANGED <<record, fresh, journal>>

ExpireAccess ==
  /\ fresh /\ fresh' = FALSE
  /\ UNCHANGED <<live, lost, record, journal, lease, faults, pc, mem, call>>

\* The account menu deletes a record, under a storage transaction only.
Remove(s) ==
  /\ record[s] # Absent
  /\ record' = [record EXCEPT ![s] = Absent]
  /\ UNCHANGED <<live, lost, fresh, journal, lease, faults, pc, mem, call>>

\* A request met a deactivated workspace: the session upserts a flagged copy
\* of the account as it knows it, and keeps the (disabled) accounts record.
Quarantine(p) ==
  /\ mem[p] = live \/ "stale_quarantine" \in Hazards
  /\ pc[p] = "idle" /\ record["accounts"] # Absent
  /\ record' = [record EXCEPT !["flagged"] = mem[p]]
  /\ UNCHANGED <<live, lost, fresh, journal, lease, faults, pc, mem, call>>

-----------------------------------------------------------------------------
Exchange(p) ==
  ProviderRotates(p) \/ ProviderKeeps(p) \/ ProviderRejects(p) \/ ReplyLost(p)

Step(p) ==
  \/ Recover(p) \/ ReplayAccounts(p) \/ ReplayFlagged(p)
  \/ Probe(p) \/ Spend(p) \/ Exchange(p) \/ Journal(p)
  \/ Commit(p) \/ Retarget(p) \/ SalvagePrimary(p) \/ SalvageSibling(p)
  \/ Propagate(p) \/ Discard(p)

Environment ==
  \/ ExpireAccess
  \/ \E s \in Stores : Remove(s)
  \/ \E p \in Procs : Quarantine(p) \/ Crash(p)

Next ==
  \/ \E p \in Procs : Step(p) \/ \E s \in Stores : Begin(p, s)
  \/ Environment

Spec == Init /\ [][Next]_vars

(* A started refresh runs on (the event loop and every await settle), and  *)
(* sessions keep asking for refreshes as access tokens expire.             *)
Fairness ==
  \A p \in Procs :
    /\ WF_vars(Step(p))
    /\ \A s \in Stores : WF_vars(Begin(p, s))

FairSpec == Spec /\ Fairness

-----------------------------------------------------------------------------
(* Properties.                                                             *)

(***************************************************************************)
(* Every variable of the refresh protocol stays in its range.  A call only *)
(* ever exchanges a token read from a record that was there.               *)
(***************************************************************************)
TypeOK ==
  /\ live \in Tokens
  /\ lost \in BOOLEAN
  /\ record \in [Stores -> Tokens \cup {Absent}]
  /\ fresh \in BOOLEAN
  /\ journal \in [Tokens -> Entries \cup {NoEntry}]
  /\ lease \in Procs \cup {Free, Abandoned}
  /\ faults \in 0 .. MaxFaults
  /\ pc \in [Procs -> Steps]
  /\ mem \in [Procs -> Tokens]
  /\ call \in [Procs -> Calls]

\* What a later replay can undo: journals on disk, and a replacement that is
\* on its way to its journal.
InMemory == {[consumed |-> call[p].exch, rotated |-> call[p].got] :
               p \in {q \in Procs : pc[q] = "journal"}}

Links == Pending \cup InMemory

\* t is live, or the links lead from it to the live token.
Recoverable(t) ==
  \A S \in SUBSET Tokens :
    (live \in S /\ \A l \in Links : l.rotated \in S => l.consumed \in S) => t \in S

(***************************************************************************)
(* coordinated-refresh.ts:327-348: a rotation is never left where a record *)
(* on disk holds a consumed token and nothing leads to its replacement,    *)
(* unless the replacement died in the window between the provider's answer *)
(* and the journal, or the journal could not be written.                   *)
(***************************************************************************)
NoStrandedRecord ==
  ~lost => \A s \in Stores : record[s] # Absent => Recoverable(record[s])

(***************************************************************************)
(* coordinated-refresh.ts:688-712: a consumed token is never presented to  *)
(* the provider again, whatever crashed or failed before this refresh.     *)
(***************************************************************************)
NoTokenReuse ==
  ~lost => \A p \in Procs : pc[p] = "inflight" => call[p].exch = live

(***************************************************************************)
(* Together: what is stored leads to the live token, and a consumed one is *)
(* not presented on the way there.                                         *)
(***************************************************************************)
TokensSafe == NoStrandedRecord /\ NoTokenReuse

(***************************************************************************)
(* Whatever path a refresh takes - exchange, adoption, salvage, failed     *)
(* propagation - the token it hands to its caller is the live one.         *)
(***************************************************************************)
SuccessMeansLive ==
  [][\A p \in Procs :
       Step(p) /\ mem'[p] # mem[p] /\ ~lost' => mem'[p] = live']_vars

(***************************************************************************)
(* coordinated-refresh.ts:560-580 (the adopt guard): no refresh, replay,   *)
(* salvage or propagation, by however late a process, overwrites a stored  *)
(* token with an older one.                                                *)
(***************************************************************************)
TokensNeverRegress ==
  [][\A s \in Stores : record[s] # Absent /\ record'[s] # Absent =>
       record'[s] >= record[s]]_record

(***************************************************************************)
(* coordinated-refresh.ts:558-567: the persisted token a late commit adopts *)
(* instead of its own replacement is newer than the one it exchanged.      *)
(***************************************************************************)
AdoptedTokenIsNewer ==
  \A p \in Procs : pc[p] = "retarget" => call[p].got > call[p].exch

(***************************************************************************)
(* coordinated-refresh.ts:370-381: a journal file that exists is never     *)
(* overwritten by the journal of another rotation, so no writer erases     *)
(* another's only durable copy of a replacement.                           *)
(***************************************************************************)
JournalNotClobbered ==
  [][\A k \in Tokens : journal[k] # NoEntry /\ journal'[k] # NoEntry =>
       journal'[k].consumed = journal[k].consumed]_journal

(***************************************************************************)
(* A record left behind on a consumed token (its store was unreachable, or *)
(* a process died) is brought to the live token by a later refresh.        *)
(***************************************************************************)
RecordsHeal ==
  \A s \in Stores :
    record[s] \notin {live, Absent} ~> (record[s] \in {live, Absent} \/ lost)

(***************************************************************************)
(* Every journal is eventually replayed and removed: none blocks refreshes *)
(* for ever.                                                               *)
(***************************************************************************)
JournalsDrain == (Pending # {}) ~> (Pending = {})

(***************************************************************************)
(* Together: a journal does its work and then goes.                        *)
(***************************************************************************)
JournalsHeal == RecordsHeal /\ JournalsDrain

=============================================================================
