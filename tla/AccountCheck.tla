---------------------------- MODULE AccountCheck ----------------------------
(***************************************************************************)
(* The long jobs of the account menu (index.ts): filling in missing e-mail *)
(* addresses, the account check, and the verification of flagged accounts. *)
(* Each takes a snapshot, spends seconds on the network, one account after *)
(* the other, and then merges what it learned into whatever the store has  *)
(* become, while other processes refresh, sign in and quarantine.          *)
(*                                                                         *)
(* A token is <<seat, number>>; number 0 is the Codex CLI's own credential *)
(* for that seat.  A coordinated refresh is one step here: its own races   *)
(* are CoordinatedRefresh's.                                               *)
(***************************************************************************)
EXTENDS Integers, FiniteSets, Sequences, SequencesExt

CONSTANTS
  Seats,     \* seats the store has a credential for
  Mails,     \* functions Seats -> e-mail address, one is chosen
  Unnamed,   \* seats whose record lacks the member id
  Hazards,   \* which of AllHazards the environment may produce
  MaxMint    \* bound: tokens issued

\* Besides rotations, revocations and refusals: a quarantine by another runtime; the
\* check of another menu, and one during a restore; a sign-in; a crash; a credential of
\* the Codex CLI for the same address; a refusal of an account that another process
\* refreshes before the check is over.
AllHazards == {"quarantine", "menu", "restoring", "login", "crash", "cli", "overtaken"}

VARIABLES
  mail,     \* each seat's e-mail address
  live,     \* number of the seat's live token; 0: none
  minted,   \* tokens issued so far: the clock of tokenRotatedAt
  cli,      \* seats the Codex CLI is signed in to
  pool,     \* the stored accounts
  flagged,  \* the flagged accounts
  job       \* the job in progress

vars == <<mail, live, minted, cli, pool, flagged, job>>

\* acc is the workspace, one for all seats; access: an unexpired access token
\* is stored; address: the record has the e-mail address; why: what it is flagged for.
Record(s, access, address) ==
  [acc |-> "w", user |-> IF s \in Unnamed THEN "" ELSE s, token |-> <<s, 1>>, rotated |-> 0,
   access |-> access, address |-> address, why |-> ""]

NoJob == [kind |-> "none", work |-> <<>>, next |-> 1, probing |-> FALSE, changed |-> FALSE,
          reports |-> {}, found |-> <<>>, left |-> {}]

Init ==
  /\ mail \in Mails
  /\ cli \in IF "cli" \in Hazards THEN SUBSET Seats ELSE {{}}
  /\ \E stored \in SUBSET Seats : \E access, address \in [Seats -> BOOLEAN] :
       /\ pool = SetToSeq({Record(s, access[s], address[s]) : s \in stored})
       /\ flagged = {[Record(s, FALSE, TRUE) EXCEPT !.why = "token"] : s \in Seats \ stored}
  /\ live \in [Seats -> {0, 1}]
  /\ minted = 1
  /\ job = NoJob

\* getWorkspaceIdentityKey
Key(r) ==
  IF r.user # "" THEN <<"member", r.acc, r.user>>
  ELSE IF r.acc # "" THEN <<"account", r.acc>> ELSE <<"token", r.token>>

-----------------------------------------------------------------------------
(* A coordinated refresh of record r, in the store it belongs to.          *)

Homes(a, r) == {i \in DOMAIN a : Key(a[i]) = Key(r) \/ a[i].token = r.token}
Home(a, r) == CHOOSE i \in Homes(a, r) : \A j \in Homes(a, r) : i <= j

\* The store already has a newer token: it is taken.  Otherwise a live token
\* is exchanged, and every record that held it gets the new one, in both stores.
Adopted(r) == Homes(pool, r) # {} /\ pool[Home(pool, r)].token # r.token
Exchanges(r) == ~Adopted(r) /\ (live[r.token[1]] = r.token[2] \/ r.token[2] = 0)
Refused(r) == ~Adopted(r) /\ ~Exchanges(r)

Renewed(r) ==
  [r EXCEPT !.token = <<@[1], minted + 1>>, !.rotated = minted + 1, !.access = TRUE]

RenewedAll(a, r) ==
  [i \in DOMAIN a |-> IF a[i].token = r.token THEN Renewed(a[i]) ELSE a[i]]

RenewedFlagged(r) ==
  {IF x.token = r.token THEN [Renewed(x) EXCEPT !.access = FALSE] ELSE x : x \in flagged}

Mint(s) ==
  /\ minted < MaxMint
  /\ minted' = minted + 1
  /\ live' = [live EXCEPT ![s] = minted + 1]

-----------------------------------------------------------------------------
(* hydrateEmails and runAccountCheck.                                      *)

Start(kind) ==
  /\ job.kind = "none" /\ pool # <<>>
  /\ job' = [NoJob EXCEPT !.kind = kind, !.work = pool]
  /\ UNCHANGED <<mail, live, minted, cli, pool, flagged>>

Current == job.work[job.next]

\* The quick check goes on to ask for the quota with the token it has.
Learned(r) ==
  job' = [job EXCEPT !.work[job.next] = r, !.changed = @ \/ r # Current,
                     !.probing = (job.kind = "check"), !.next = IF job.kind = "check" THEN @ ELSE @ + 1]

Passed == job' = [job EXCEPT !.next = @ + 1, !.probing = FALSE]

\* upsertFlaggedAccountRecord
Upserted(f, r) == {x \in f : Key(x) # Key(r)} \cup {r}

\* The account is to be moved to the flagged ones, as the snapshot has it.
Overtaken(r) == live[r.token[1]] \notin {0, r.token[2]}
Flags(why) ==
  /\ "overtaken" \in Hazards \/ ~Overtaken(Current)
  /\ job' = [job EXCEPT !.next = @ + 1, !.probing = FALSE,
                     !.reports = Upserted(@, [Current EXCEPT !.why = why])]

Walking(kinds) == job.kind \in kinds /\ ~job.probing /\ job.next <= Len(job.work)

\* The checks skip an account that is disabled; the user may disable any.
Skip ==
  /\ Walking({"check", "deep"}) /\ Passed
  /\ UNCHANGED <<mail, live, minted, cli, pool, flagged>>

\* A stored access token is used as it is, and hydration asks only for
\* records without an address.
Pass ==
  /\ Walking({"hydrate", "check", "deep"})
  /\ IF job.kind = "hydrate" THEN Current.address ELSE Current.access
  /\ Learned(Current)
  /\ UNCHANGED <<mail, live, minted, cli, pool, flagged>>

\* Seats the Codex CLI's cache may answer with: it is keyed by address.
CliAnswers(s) == {c \in cli : mail[c] = mail[s]}

\* Without one the Codex CLI's token for the address is taken, if there is one.
FromCli ==
  /\ Walking({"check", "deep"}) /\ ~Current.access /\ Current.address
  /\ \E c \in CliAnswers(Current.token[1]) :
       Learned([Current EXCEPT !.token = <<c, 0>>, !.access = TRUE])
  /\ UNCHANGED <<mail, live, minted, cli, pool, flagged>>

\* Otherwise the token is refreshed.
Asks ==
  IF job.kind = "hydrate" THEN Walking({"hydrate"}) /\ ~Current.address
  ELSE /\ Walking({"check", "deep"}) /\ ~Current.access
       /\ Current.address => CliAnswers(Current.token[1]) = {}

Refresh ==
  /\ Asks
  /\ \/ /\ Adopted(Current)
        /\ LET d == pool[Home(pool, Current)]
           IN Learned([Current EXCEPT !.token = d.token, !.rotated = d.rotated,
                                      !.access = TRUE, !.address = TRUE])
        /\ UNCHANGED <<live, minted, pool, flagged>>
     \/ /\ Exchanges(Current) /\ Mint(Current.token[1])
        /\ pool' = RenewedAll(pool, Current) /\ flagged' = RenewedFlagged(Current)
        /\ Learned([Renewed(Current) EXCEPT !.address = TRUE])
  /\ UNCHANGED <<mail, cli>>

\* A refresh may fail; only a dead token, in the deep check, moves the account to
\* the flagged ones.
Fails ==
  /\ Asks
  /\ Passed \/ (job.kind = "deep" /\ Refused(Current) /\ Flags("token"))
  /\ UNCHANGED <<mail, live, minted, cli, pool, flagged>>

\* The quota of the account: the provider may refuse its workspace or its access
\* token, whether or not the refresh token lives.
Probe ==
  /\ job.probing
  /\ Passed \/ \E why \in {"token", "workspace"} : Flags(why)
  /\ UNCHANGED <<mail, live, minted, cli, pool, flagged>>

Dead == {Key(r) : r \in job.reports}
Walked == job.kind \in {"hydrate", "check", "deep"} /\ job.next > Len(job.work)

\* Mutant: what was learned is written whatever the store has become.
NewerAlways(w, d) == TRUE

\* The single-use token only goes forward.
Newer(w, d) == w.rotated >= d.rotated

Carried(w, d) ==
  IF Newer(w, d)
  THEN [d EXCEPT !.address = w.address, !.token = w.token, !.rotated = w.rotated,
                 !.access = w.access]
  ELSE [d EXCEPT !.address = w.address]

\* Of several working copies with one key, the last counts.
Copies(d) == {i \in DOMAIN job.work : Key(job.work[i]) = Key(d) /\ Key(d) \notin Dead}
Copy(d) == job.work[CHOOSE i \in Copies(d) : \A j \in Copies(d) : j <= i]

\* The storage transaction: updates by identity, removals by identity.
Merge ==
  /\ Walked
  /\ pool' = IF job.changed \/ Dead # {}
             THEN LET kept == SelectSeq(pool, LAMBDA d : Key(d) \notin Dead)
                  IN [i \in DOMAIN kept |->
                        IF Copies(kept[i]) = {} THEN kept[i] ELSE Carried(Copy(kept[i]), kept[i])]
             ELSE pool
  /\ job' = IF job.reports = {} THEN NoJob ELSE [job EXCEPT !.kind = "report"]
  /\ UNCHANGED <<mail, live, minted, cli, flagged>>

\* They are flagged in a transaction of its own.
Report ==
  /\ job.kind = "report"
  /\ flagged' = {x \in flagged : Key(x) \notin Dead} \cup job.reports
  /\ job' = NoJob
  /\ UNCHANGED <<mail, live, minted, cli, pool>>

-----------------------------------------------------------------------------
(* verifyFlaggedAccounts                                                   *)

StartVerify ==
  /\ job.kind = "none" /\ flagged # {}
  /\ job' = [NoJob EXCEPT !.kind = "verify", !.work = SetToSeq(flagged)]
  /\ UNCHANGED <<mail, live, minted, cli, pool, flagged>>

\* found pairs the record as it was flagged with what restores it.
Restores(r) ==
  job' = [job EXCEPT !.next = @ + 1, !.found = Append(@, [was |-> Current, now |-> [r EXCEPT !.why = ""]])]

\* A deactivated workspace stays flagged; the rest is restored with the Codex
\* CLI's token or with its own.
Verify ==
  /\ Walking({"verify"})
  /\ \/ /\ Current.why # "workspace"
        /\ \E c \in CliAnswers(Current.token[1]) :
             Restores([Current EXCEPT !.token = <<c, 0>>, !.access = TRUE,
                                      !.user = IF c \in Unnamed THEN "" ELSE c])
        /\ UNCHANGED <<live, minted, pool, flagged>>
     \/ /\ Current.why # "workspace" /\ CliAnswers(Current.token[1]) = {}
        /\ live[Current.token[1]] = Current.token[2] \/ Current.token[2] = 0
        /\ Mint(Current.token[1])
        /\ flagged' = {IF x.token = Current.token THEN Renewed(x) ELSE x : x \in flagged}
        /\ pool' = RenewedAll(pool, Current)
        /\ Restores(Renewed(Current))
     \/ /\ Current.why = "workspace" \/ CliAnswers(Current.token[1]) = {}
        /\ job' = [job EXCEPT !.next = @ + 1, !.left = @ \cup {Current}]
        /\ UNCHANGED <<live, minted, pool, flagged>>
  /\ UNCHANGED <<mail, cli>>

\* Where a login lands (persistAccountPool, see LoginMatch): the record of the
\* member, else of the token.
Put(a, r) ==
  LET mine == {i \in DOMAIN a : IF r.user # "" THEN a[i].user = r.user ELSE a[i].token = r.token}
  IN IF mine = {} THEN Append(a, r)
     ELSE LET i == CHOOSE i \in mine : TRUE IN [a EXCEPT ![i] = [r EXCEPT !.rotated = a[i].rotated]]

\* The restored are added to the pool first ...
Restore ==
  /\ job.kind = "verify" /\ job.next > Len(job.work)
  /\ pool' = FoldLeft(LAMBDA a, f : Put(a, [f.now EXCEPT !.rotated = 0]), pool, job.found)
  /\ job' = [job EXCEPT !.kind = "drop"]
  /\ UNCHANGED <<mail, live, minted, cli, flagged>>

\* Only what was positively restored may be dropped.
Droppable(x) ==
  /\ \E i \in DOMAIN job.found : \/ Key(job.found[i].was) = Key(x)
                                 \/ job.found[i].was.token = x.token
  /\ ~\E r \in job.left : Key(r) = Key(x) \/ r.token = x.token

\* ... and dropped from the flagged accounts afterwards.
Drop ==
  /\ job.kind = "drop"
  /\ flagged' = {x \in flagged : ~Droppable(x)}
  /\ job' = NoJob
  /\ UNCHANGED <<mail, live, minted, cli, pool>>

-----------------------------------------------------------------------------
(* Everybody else.                                                         *)

\* Another process refreshes a stored account.
Rotate ==
  /\ \E i \in DOMAIN pool :
       /\ live[pool[i].token[1]] = pool[i].token[2]
       /\ "overtaken" \in Hazards \/ Key(pool[i]) \notin Dead
       /\ Mint(pool[i].token[1])
       /\ pool' = RenewedAll(pool, pool[i]) /\ flagged' = RenewedFlagged(pool[i])
  /\ UNCHANGED <<mail, cli, job>>

\* The provider revokes a seat's token.
Revoke ==
  /\ \E s \in Seats : live[s] # 0 /\ live' = [live EXCEPT ![s] = 0]
  /\ UNCHANGED <<mail, minted, cli, pool, flagged, job>>

\* The user signs in to a seat.
Login ==
  /\ "login" \in Hazards
  /\ \E s \in Seats :
       /\ Mint(s)
       /\ pool' = Put(pool, [Record(s, TRUE, TRUE) EXCEPT !.token = <<s, minted + 1>>])
  /\ UNCHANGED <<mail, cli, flagged, job>>

\* A runtime meets a deactivated workspace: the account is flagged, and stays in
\* the pool, disabled.
Quarantine ==
  /\ "quarantine" \in Hazards
  /\ \E i \in DOMAIN pool : flagged' = Upserted(flagged, [pool[i] EXCEPT !.why = "workspace"])
  /\ UNCHANGED <<mail, live, minted, cli, pool, job>>

\* The check of another menu moves an account to the flagged ones.
Sweep ==
  /\ "menu" \in Hazards
  /\ "restoring" \in Hazards \/ job.kind \notin {"verify", "drop"}
  /\ \E i \in DOMAIN pool :
       /\ pool' = SelectSeq(pool, LAMBDA d : Key(d) # Key(pool[i]))
       /\ flagged' = Upserted(flagged, [pool[i] EXCEPT !.why = "token"])
  /\ UNCHANGED <<mail, live, minted, cli, job>>

\* The process of the job dies, or a write of it fails.
Crash ==
  /\ "crash" \in Hazards /\ job.kind # "none"
  /\ job' = NoJob
  /\ UNCHANGED <<mail, live, minted, cli, pool, flagged>>

Next ==
  \/ \E kind \in {"hydrate", "check", "deep"} : Start(kind)
  \/ Skip \/ Pass \/ FromCli \/ Refresh \/ Fails \/ Probe \/ Merge \/ Report
  \/ StartVerify \/ Verify \/ Restore \/ Drop
  \/ Rotate \/ Revoke \/ Login \/ Quarantine \/ Sweep \/ Crash

Spec == Init /\ [][Next]_vars

-----------------------------------------------------------------------------
(* Properties.                                                             *)

Held == {pool[i] : i \in DOMAIN pool} \cup flagged

\* Types: a job is at one of its phases and every token names a seat.
TypeOK ==
  /\ mail \in Mails /\ cli \subseteq Seats
  /\ live \in [Seats -> 0 .. MaxMint] /\ minted \in 1 .. MaxMint
  /\ job.kind \in {"none", "hydrate", "check", "deep", "report", "verify", "drop"}
  /\ \A r \in Held : /\ r.token \in Seats \X (0 .. MaxMint) /\ r.rotated \in 0 .. MaxMint
                     /\ {r.access, r.address} \subseteq BOOLEAN
                     /\ r.why = "" <=> r \notin flagged

\* No account vanishes: when no job is under way, each seat is in the pool or
\* among the flagged, and if it has a live token the store holds that token
\* or the Codex CLI's for the same seat.
AccountsKept ==
  job.kind = "none" =>
    \A s \in Seats : LET own == {r \in Held : r.token[1] = s}
                     IN /\ own # {}
                        /\ live[s] # 0 => \E r \in own : r.token[2] \in {0, live[s]}

\* No two stored accounts share one token: a merge by identity never gives one
\* member another one's credential.
TokensApart ==
  \A i, j \in DOMAIN pool : i # j => pool[i].token # pool[j].token

\* The jobs' promises together.
CheckSafe == AccountsKept /\ TokensApart
=============================================================================
