------------------------------ MODULE PoolTools ------------------------------
(***************************************************************************)
(* The tools that edit the account pool: codex-remove, -enable, -switch,   *)
(* -label, -note, -tag, -export and -import.  A tool first looks at the    *)
(* pool, for the user to pick an account; then it loads the pool again     *)
(* under the storage lease, edits it and saves it, and between the two     *)
(* other sessions may have saved.  Every load and every save puts the file *)
(* in order: duplicates merge and the indexes follow their accounts.       *)
(*                                                                         *)
(* A token is <<seat, number>>: the provider knows whose it is, the file   *)
(* only what the fields of the record say ("": absent).  The manager a     *)
(* tool loads when it is done is that of ManagerCache.                     *)
(***************************************************************************)
EXTENDS Integers, FiniteSets, Sequences, SequencesExt

CONSTANTS
  Sessions,     \* where tools run
  Pools,        \* files found at the start
  Exports,      \* files somebody else exported
  Tools,        \* the tools in use
  MAX_ACCOUNTS,
  MaxCalls, MaxRefreshes   \* bounds: calls of tools, refreshes of tokens

VARIABLES
  file,       \* the pool file
  copy,       \* the last export, or backup before an import
  call,       \* session -> its call
  calls,
  refreshes,
  last        \* history: what the last save did

vars == <<file, copy, call, calls, refreshes, last>>

-----------------------------------------------------------------------------
(* Whose record it is (identity.ts).                                       *)

Gone == [token |-> <<>>]
None == 0

Present(s) == SelectSeq(s, LAMBDA k : k # <<>>)
Part(name, value) == IF value = "" THEN <<>> ELSE <<name, value>>

\* toAccountIdentityKeys
Keys(x) ==
  Present(<<IF x.user = "" THEN <<>> ELSE <<"seat", x.org, x.acc, x.user>>,
            Part("org", x.org), Part("acc", x.acc), Part("user", x.user),
            IF x.token = <<>> THEN <<>> ELSE <<"token", x.token>> >>)

\* getWorkspaceIdentityKey
WorkspaceKey(x) ==
  IF x.org = "" /\ x.acc = "" /\ x.user = "" THEN <<"token", x.token>>
  ELSE <<"workspace", x.org, x.acc, x.user>>

\* findAccountIndexByIdentityKeys: the first record that has the first key any has.
Least(indexes) ==
  IF indexes = {} THEN None ELSE CHOOSE i \in indexes : \A j \in indexes : i <= j

Find(a, keys) ==
  FoldLeft(LAMBDA found, k : IF found # None THEN found
                             ELSE Least({i \in DOMAIN a : Contains(Keys(a[i]), k)}),
           None, keys)

\* clampIndex
Clamp(i, n) == IF n = 0 \/ i < 1 THEN 1 ELSE IF i > n THEN n ELSE i

\* selectNewestAccount: the candidate, on a tie.
Newer(x, candidate) == IF candidate.used >= x.used THEN candidate ELSE x

OrgLike(x) == x.org # "" \/ x.from = "org"
TokenLike(x) == x.org = "" /\ x.from = "token"

\* resolveMergedEnabled: whatever is disabled stays so, but a record that only
\* came with a token does not decide over an organization's.
MergedEnabled(target, source) ==
  IF OrgLike(target) /\ ~OrgLike(source) /\ source.from = "token" THEN target.enabled
  ELSE IF OrgLike(source) /\ ~OrgLike(target) /\ target.from = "token" THEN source.enabled
  ELSE target.enabled /\ source.enabled

Or(x, y) == IF x # "" THEN x ELSE y

\* mergeAccountRecords
Combined(target, source, newest, older) ==
  [newest EXCEPT
     !.note = Or(@, older.note), !.cool = Or(@, older.cool), !.tags = Or(@, older.tags),
     !.claim = Or(@, older.claim),
     !.org = Or(target.org, source.org), !.acc = Or(target.acc, source.acc),
     !.user = Or(target.user, source.user), !.from = Or(target.from, source.from),
     !.label = Or(target.label, source.label), !.mail = Or(target.mail, source.mail),
     !.enabled = MergedEnabled(target, source)]

Merge(target, source) ==
  Combined(target, source, Newer(target, source),
           IF Newer(target, source) = target THEN source ELSE target)

\* backfillUniqueSeatIdentity: a record of a workspace with one member is his.
Members(a, x) ==
  {a[i].user : i \in {j \in DOMAIN a : a[j].org = x.org /\ a[j].acc = x.acc}} \ {""}

Backfilled(a) ==
  [i \in DOMAIN a |->
     IF /\ a[i].user = "" /\ (a[i].org # "" \/ a[i].acc # "")
        /\ Cardinality(Members(a, a[i])) = 1
     THEN [a[i] EXCEPT !.user = CHOOSE u \in Members(a, a[i]) : TRUE]
     ELSE a[i]]

Indexes(a) == [i \in DOMAIN a |-> i]
Rest(a) == FoldLeft(LAMBDA s, x : IF x = Gone THEN s ELSE Append(s, x), <<>>, a)

\* Of the records i and j of a list one is kept, with what the other knows.
Joined(a, i, j, kept) ==
  [a EXCEPT ![kept] = Merge(a[kept], a[i + j - kept]), ![i + j - kept] = Gone]

\* deduplicateAccountsByKey: one record per first key, where the newest is.
FirstKeys(a) == [i \in DOMAIN a |-> Head(Append(Keys(a[i]), <<>>))]

ByFirst(a, first) ==
  LET keep(w, i, j) ==
        IF j = None THEN w
        ELSE Joined(w, i, j, IF Newer(w[j], w[i]) = w[i] THEN i ELSE j)
      step(w, i) ==
        keep(w, i, Least({j \in 1 .. i - 1 : w[j] # Gone /\ first[j] = first[i] /\ first[i] # <<>>}))
  IN Rest(FoldLeft(step, a, Indexes(a)))

ByKey(a) == ByFirst(Backfilled(a), FirstKeys(Backfilled(a)))

\* isLegacyRefreshTokenDuplicate
Same(x, y) == x # "" /\ x = y
LegacyTwins(x, y) ==
  /\ x.user = "" \/ y.user = "" \/ x.user = y.user
  /\ x.org = "" \/ y.org = "" \/ x.org = y.org
  /\ \/ /\ (OrgLike(x) /\ TokenLike(y)) \/ (OrgLike(y) /\ TokenLike(x))
        /\ Same(x.mail, y.mail) \/ x.token = y.token
     \/ /\ x.token = y.token
        /\ x.acc = "" \/ y.acc = "" \/ x.acc = y.acc
        /\ \/ Same(x.acc, y.acc)
           \/ x.org = "" /\ y.org # "" /\ x.acc = ""
           \/ x.org # "" /\ y.org = "" /\ y.acc = ""

\* deduplicateLegacyRefreshTokenDuplicates: each record against those after it.
ByToken(accounts) ==
  LET absorb(w, i) ==
        LET step(v, j) ==
              IF j <= i \/ v[i] = Gone \/ v[j] = Gone \/ ~LegacyTwins(w[i], v[j]) THEN v
              ELSE Joined(v, i, j,
                          IF \/ OrgLike(w[i]) /\ ~OrgLike(v[j])
                             \/ (OrgLike(w[i]) <=> OrgLike(v[j])) /\ Newer(v[i], v[j]) # v[j]
                          THEN i ELSE j)
        IN IF w[i] = Gone THEN w ELSE FoldLeft(step, w, Indexes(w))
  IN Rest(FoldLeft(absorb, accounts, Indexes(accounts)))

\* deduplicateAccountsByEmail: of records with nothing but an address, the newest.
ByMail(a) ==
  LET twins(i) == {j \in DOMAIN a : a[j].org = "" /\ a[j].acc = "" /\ Same(a[i].mail, a[j].mail)}
      kept(i) == \/ a[i].org # "" \/ a[i].acc # "" \/ a[i].mail = ""
                 \/ \A j \in twins(i) \ {i} :
                      a[j].used < a[i].used \/ (a[j].used = a[i].used /\ i < j)
  IN FoldLeft(LAMBDA s, i : IF kept(i) THEN Append(s, a[i]) ELSE s, <<>>, Indexes(a))

Deduplicated(a) == ByMail(ByToken(ByKey(a)))

-----------------------------------------------------------------------------
(* What a load makes of the file, and a save of the pool (normalize.ts).   *)

\* The seat is the stored one, or the access token's.
Seated(x) == [x EXCEPT !.user = Or(@, x.claim)]

\* sanitizeAccountNumericState, dropStaleGeneratedLabel
Healed(x) ==
  [Seated(x) EXCEPT !.cool = IF @ = "for ever" THEN "" ELSE @,
                    !.label = IF @ = "generated" THEN "" ELSE @]

KeysAt(a, i) == IF i \in DOMAIN a THEN Keys(Seated(a[i])) ELSE <<>>

\* Where the record that is at i in one list is in another.
Follow(old, new, i) ==
  LET n == Find(new, KeysAt(old, Clamp(i, Len(old))))
  IN IF n # None THEN n ELSE Clamp(i, Len(new))

Pool(accounts, active, family) ==
  [version |-> 3, accounts |-> accounts, active |-> active, family |-> family]

\* normalizeAccountStorage; a family without an index has the active one's.
Followed(f, a) ==
  Pool(a, Follow(f.accounts, a, f.active),
       Follow(f.accounts, a, IF f.family = None THEN f.active ELSE f.family))

Valid(a) == SelectSeq(a, LAMBDA x : x.token # <<>>)
Normalized(f) ==
  Followed(f, Deduplicated([i \in DOMAIN Valid(f.accounts) |-> Healed(Valid(f.accounts)[i])]))

\* Versions 1 and 3 are read; an older or a newer one is refused, and stays.
Readable(f) == f.version \in {1, 3}

Owners(a) == {a[i].token[1] : i \in {j \in DOMAIN a : a[j].token # <<>>}}
At(f, i) == f.accounts[i].token[1]

-----------------------------------------------------------------------------
(* The calls.                                                              *)

Idle == [tool |-> "none", at |-> None, key |-> <<>>, meant |-> "", seen |-> <<>>, source |-> Gone]

\* What a save did: by which tool, to whose record, whose was meant and whether
\* the pool had moved since; the seats it cost the pool; the indexes that name
\* another account now; who was enabled; whether the size told is the file's.
Nothing == [tool |-> "none", meant |-> "", hit |-> "", moved |-> FALSE, size |-> 0,
            lost |-> {}, strays |-> {}, raised |-> {}, told |-> TRUE]

OwnersOf(f) == [i \in DOMAIN f.accounts |-> At(f, i)]
Enabled(a) == {a[i].token[1] : i \in {j \in DOMAIN a : a[j].enabled}}

\* The indexes whose account is in the new pool, which has another there; the one
\* removed may have left a second record.
Strays(old, new, removed) ==
  LET n == Len(old.accounts)
      family == IF old.family = None THEN old.active ELSE old.family
      stray(i, j) == /\ At(old, Clamp(i, n)) \in Owners(new.accounts) \ {removed}
                     /\ j \notin DOMAIN new.accounts \/ At(new, j) # At(old, Clamp(i, n))
  IN IF n = 0 THEN {}
     ELSE {Clamp(i[1], n) : i \in {i \in {<<old.active, new.active>>, <<family, new.family>>} :
                                     stray(i[1], i[2])}}

Init ==
  /\ file \in Pools
  /\ copy = Gone
  /\ call = [p \in Sessions |-> Idle]
  /\ calls = 0 /\ refreshes = 0
  /\ last = Nothing

\* persist: after is the new pool, put in order again on its way to the file.
Persist(p, before, after, hit, brought, told) ==
  /\ file' = after
  /\ call' = [call EXCEPT ![p] = Idle]
  /\ last' = [tool |-> call[p].tool, meant |-> call[p].meant, hit |-> hit,
              moved |-> OwnersOf(before) # call[p].seen, size |-> Len(before.accounts),
              lost |-> (Owners(file.accounts) \cup Owners(brought)) \ Owners(after.accounts),
              strays |-> Strays(file, before, "")
                \cup Strays(before, after, IF call[p].tool = "remove" THEN hit ELSE ""),
              raised |-> (Owners(before.accounts) \ Enabled(before.accounts))
                           \cap Enabled(after.accounts),
              told |-> told = Len(after.accounts)]

\* The user picks an account of the pool as it is, or names one by its number.
Pick(p, pool, tool, beyond) ==
  /\ tool \in Tools /\ call[p] = Idle /\ calls < MaxCalls
  /\ Readable(file)
  /\ LET n == Len(pool.accounts)
     IN /\ n > 0
        /\ \E i \in 1 .. n + beyond :
             call' = [call EXCEPT ![p] =
               [tool |-> tool, at |-> i, seen |-> OwnersOf(pool), source |-> Gone,
                key |-> IF i > n THEN <<>> ELSE WorkspaceKey(pool.accounts[i]),
                meant |-> IF i > n THEN "" ELSE At(pool, i)]]
  /\ calls' = calls + 1
  /\ UNCHANGED <<file, copy, refreshes, last>>

\* A call may end without a save: the number is no account's, the account is not
\* there any more, the user gives up, or the save fails.
Refuse(p) ==
  /\ call[p] # Idle
  /\ call' = [call EXCEPT ![p] = Idle]
  /\ UNCHANGED <<file, copy, calls, refreshes, last>>

\* A tool saves the pool as it is now, with record i changed.
Change(p, pool, tool, i, edited) ==
  /\ call[p].tool = tool /\ i \in DOMAIN pool.accounts
  /\ Persist(p, pool, Normalized(edited), At(pool, i), <<>>, Len(edited.accounts))
  /\ UNCHANGED <<copy, calls, refreshes>>

\* The record with the workspace key of the one picked, wherever it is now.
Keyed(p, pool) ==
  Least({i \in DOMAIN pool.accounts : WorkspaceKey(pool.accounts[i]) = call[p].key})

-----------------------------------------------------------------------------
(* codex-remove.                                                           *)

\* An index beyond the shorter list starts again; one behind the record moves up.
Shifted(index, i, n) ==
  IF n = 0 \/ index > n THEN 1 ELSE IF index > i THEN index - 1 ELSE index

Without(f, i) ==
  LET a == RemoveAt(f.accounts, i)
  IN Pool(a, Shifted(f.active, i, Len(a)), Shifted(f.family, i, Len(a)))

PickToRemove(p, pool) == Pick(p, pool, "remove", 1)

RemoveAccount(p, pool) == Change(p, pool, "remove", call[p].at, Without(pool, call[p].at))

-----------------------------------------------------------------------------
(* codex-enable: the note of the plugin goes, and an auth failure's        *)
(* cooldown; what the operator wrote and a rate limit stay.                *)

Stripped(note) == CASE note = "auto" -> "" [] note = "both" -> "own" [] OTHER -> note

EnabledAgain(f, i) ==
  [f EXCEPT !.accounts[i] =
     [@ EXCEPT !.enabled = TRUE, !.note = Stripped(@),
               !.cool = IF @ = "auth" THEN "" ELSE @]]

PickToEnable(p, pool) ==
  /\ \E i \in DOMAIN pool.accounts : ~pool.accounts[i].enabled
  /\ Pick(p, pool, "enable", 1)

EnableAccount(p, pool) ==
  /\ call[p].at \in DOMAIN pool.accounts /\ ~pool.accounts[call[p].at].enabled
  /\ Change(p, pool, "enable", call[p].at, EnabledAgain(pool, call[p].at))

-----------------------------------------------------------------------------
(* codex-switch and codex-label, by number; codex-note and codex-tag, by   *)
(* workspace key.                                                          *)

Latest(f) == CHOOSE n \in {f.accounts[i].used : i \in DOMAIN f.accounts} :
               \A i \in DOMAIN f.accounts : f.accounts[i].used <= n

Switched(f, i) ==
  Pool([f.accounts EXCEPT ![i].used = Latest(f) + 1], i, i)

PickToSwitch(p, pool) == Pick(p, pool, "switch", 1)
SwitchAccount(p, pool) == Change(p, pool, "switch", call[p].at, Switched(pool, call[p].at))

PickToLabel(p, pool) == Pick(p, pool, "label", 1)
LabelAccount(p, pool) ==
  \E label \in {"", "typed"} :
    Change(p, pool, "label", call[p].at, [pool EXCEPT !.accounts[call[p].at].label = label])

PickToNote(p, pool) == Pick(p, pool, "note", 0)
NoteAccount(p, pool) ==
  \E note \in {"", "own"} :
    Change(p, pool, "note", Keyed(p, pool), [pool EXCEPT !.accounts[Keyed(p, pool)].note = note])

PickToTag(p, pool) == Pick(p, pool, "tag", 0)
TagAccount(p, pool) ==
  \E tags \in {"", "tags"} :
    Change(p, pool, "tag", Keyed(p, pool), [pool EXCEPT !.accounts[Keyed(p, pool)].tags = tags])

-----------------------------------------------------------------------------
(* codex-export and codex-import.                                          *)

ExportAccounts(p, pool) ==
  /\ "export" \in Tools /\ call[p] = Idle /\ calls < MaxCalls
  /\ Readable(file) /\ pool.accounts # <<>>
  /\ copy' = pool
  /\ calls' = calls + 1
  /\ UNCHANGED <<file, call, refreshes, last>>

\* analyzeImportedAccounts
Analyzed(pool, source) == Deduplicated(pool.accounts \o source.accounts)

\* The preview is an import that saves nothing.  The file it reads is read again
\* for the import, and taken to be the same.
PreviewImport(p, pool) ==
  /\ "import" \in Tools /\ call[p] = Idle /\ calls < MaxCalls /\ Readable(file)
  /\ \E source \in {Normalized(f) : f \in {f \in Exports \cup ({copy} \ {Gone}) : Readable(f)}} :
       /\ Len(Analyzed(pool, source)) <= MAX_ACCOUNTS
       /\ call' = [call EXCEPT ![p] =
            [Idle EXCEPT !.tool = "import", !.source = source,
                         !.seen = OwnersOf(pool)]]
  /\ calls' = calls + 1
  /\ UNCHANGED <<file, copy, refreshes, last>>

\* The pool is backed up first, if there is one, or nothing is imported.
BackUp(pool) == copy' = IF pool.accounts = <<>> THEN copy ELSE pool

\* The records of both, put in order; the indexes follow the pool's own.
Imported(pool, a) ==
  LET active == Follow(pool.accounts, a, pool.active)
      known == Find(a, KeysAt(pool.accounts, Clamp(pool.family, Len(pool.accounts)))) # None
  IN Pool(a, active, IF known THEN Follow(pool.accounts, a, pool.family) ELSE active)

ImportAccounts(p, pool) ==
  /\ call[p].tool = "import"
  /\ BackUp(pool)
  /\ \/ \E new \in {Imported(pool, Analyzed(pool, call[p].source))} :
          /\ Len(new.accounts) <= MAX_ACCOUNTS
          /\ Persist(p, pool, Normalized(new), "", call[p].source.accounts, Len(new.accounts))
     \/ /\ call' = [call EXCEPT ![p] = Idle]   \* too many, or the save fails
        /\ UNCHANGED <<file, last>>
  /\ UNCHANGED <<calls, refreshes>>

-----------------------------------------------------------------------------
\* The refresh of an account's token, in any session.
Refresh(pool) ==
  /\ refreshes < MaxRefreshes /\ Readable(file)
  /\ \E i \in DOMAIN pool.accounts :
       file' = Normalized([pool EXCEPT !.accounts[i].token = <<@[1], refreshes + 1>>])
  /\ refreshes' = refreshes + 1
  /\ UNCHANGED <<copy, call, calls, last>>

\* The pool every call starts from: what a load makes of the file.
Next == \E pool \in {Normalized(file)} :
  \/ \E p \in Sessions :
       \/ PickToRemove(p, pool) \/ PickToEnable(p, pool) \/ PickToSwitch(p, pool)
       \/ PickToLabel(p, pool) \/ PickToNote(p, pool) \/ PickToTag(p, pool)
       \/ RemoveAccount(p, pool) \/ EnableAccount(p, pool) \/ SwitchAccount(p, pool)
       \/ LabelAccount(p, pool) \/ NoteAccount(p, pool) \/ TagAccount(p, pool)
       \/ ExportAccounts(p, pool) \/ PreviewImport(p, pool) \/ ImportAccounts(p, pool) \/ Refuse(p)
  \/ Refresh(pool)

Spec == Init /\ [][Next]_vars

-----------------------------------------------------------------------------
TypeOK ==
  /\ \A i \in DOMAIN file.accounts : file.accounts[i].enabled \in BOOLEAN
  /\ calls \in 0 .. MaxCalls /\ refreshes \in 0 .. MaxRefreshes
  /\ \A p \in Sessions : call[p].tool \in Tools \cup {"none"}

(***************************************************************************)
(* Whatever stands in the file, and whatever else is saved between the     *)
(* look and the edit: no save costs the pool a seat but a removal, the one *)
(* removed; none enables an account but codex-enable, not even an import   *)
(* that has it enabled; the pool saved is in order, so that the next load  *)
(* changes nothing, and has as many accounts as the user is told; and a    *)
(* seat has one record in a workspace that it has for itself.              *)
(***************************************************************************)
NoSeatLost == last.lost \subseteq IF last.tool = "remove" THEN {last.hit} ELSE {}

NobodyRaised == last.raised \subseteq IF last.tool = "enable" THEN {last.hit} ELSE {}

InOrder == last.tool # "none" => last.told /\ Normalized(file) = file

OneRecordEach ==
  LET workspace(x) == <<x.org, x.acc>>
      a == file.accounts
  IN last.tool # "none" =>
       \A i, j \in DOMAIN a :
         i # j /\ At(file, i) = At(file, j) /\ workspace(a[i]) = workspace(a[j]) =>
           \E k \in DOMAIN a : workspace(a[k]) = workspace(a[i]) /\ At(file, k) # At(file, i)

(***************************************************************************)
(* The active account, and that of a family, stay the accounts they were,  *)
(* unless the user switches or removes them; with a removal that of the    *)
(* last account may change too.  A tool edits the account picked; one that *)
(* goes by its number, only if the pool has not moved.                     *)
(***************************************************************************)
PointersStay == last.tool = "switch" \/ last.strays = {}

IndexesFollow == PointersStay \/ (last.tool = "remove" /\ last.strays = {last.size})

HitsThePicked == last.hit = last.meant

HitsTheMeant == HitsThePicked \/ (last.moved /\ last.tool \notin {"note", "tag"})

PoolSafe ==
  NoSeatLost /\ NobodyRaised /\ InOrder /\ OneRecordEach /\ IndexesFollow /\ HitsTheMeant
=============================================================================
