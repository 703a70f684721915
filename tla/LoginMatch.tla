----------------------------- MODULE LoginMatch -----------------------------
(***************************************************************************)
(* Which stored account a login lands on (persistAccountPool, lib/auth/    *)
(* login-runner.ts).  The provider knows people by SEATS: a seat is one    *)
(* member of one workspace, and every sign-in to it mints a new refresh    *)
(* token.  The store knows only what the tokens claimed, and records saved *)
(* by old versions lack some of it.  A login must find the record of its   *)
(* own seat, or append one: landing on the record of another seat          *)
(* overwrites that seat's only credential.                                 *)
(***************************************************************************)
EXTENDS Integers, FiniteSets, Sequences, SequencesExt

CONSTANTS
  Seats,      \* the seats somebody signs in to
  Worlds,     \* functions Seats -> claims, one is chosen
  Shapes,     \* what records saved before may lack: "full", "no user", "bare"
  MaxLogins   \* bound: sign-ins in a behaviour

\* acc, user, email: claims of the access token, "" when absent; idAcc: the
\* account the id token names; orgs: the organizations both tokens list.
Claims == [acc : STRING, user : STRING, email : STRING, idAcc : STRING,
           orgs : Seq([id : STRING, default : BOOLEAN, personal : BOOLEAN])]

VARIABLES
  world,   \* what the provider puts in each seat's tokens
  pool,    \* the stored accounts, in order
  active,  \* activeIndex
  minted,  \* sign-ins so far: the number of the last refresh token
  last     \* ghost: what the last write did

vars == <<world, pool, active, minted, last>>

-----------------------------------------------------------------------------
(* What a login brings (resolveAccountSelection, token-utils.ts).          *)

\* getAccountIdCandidates: one candidate per account or organization id.
Candidates(c) ==
  (IF c.acc = "" THEN <<>>
   ELSE <<[id |-> c.acc, org |-> "", from |-> "token", default |-> TRUE, personal |-> FALSE]>>)
  \o (IF c.idAcc \in {"", c.acc} THEN <<>>
      ELSE <<[id |-> c.idAcc, org |-> IF c.orgs = <<>> THEN "" ELSE c.orgs[1].id,
              from |-> "id_token", default |-> FALSE, personal |-> FALSE]>>)
  \o [i \in DOMAIN c.orgs |->
        [id |-> c.orgs[i].id, org |-> c.orgs[i].id, from |-> "org",
         default |-> c.orgs[i].default, personal |-> c.orgs[i].personal]]

FirstOf(s, Test(_), otherwise) ==
  LET hits == SelectSeq(s, Test) IN IF hits = <<>> THEN otherwise ELSE Head(hits)

Nobody == [id |-> "", org |-> "", from |-> "", default |-> FALSE, personal |-> FALSE]

\* selectBestAccountCandidate: a default organization, then the id token's
\* account, then an organization that is not personal, then the token's.
Best(s) ==
  FirstOf(s, LAMBDA x : x.from = "org" /\ x.default /\ ~x.personal,
  FirstOf(s, LAMBDA x : x.from = "org" /\ x.default,
  FirstOf(s, LAMBDA x : x.from = "id_token",
  FirstOf(s, LAMBDA x : x.from = "org" /\ ~x.personal,
  FirstOf(s, LAMBDA x : x.from = "token",
  FirstOf(s, LAMBDA x : TRUE, Nobody))))))

\* The account id is the token's, whatever organization is best: quotas are
\* metered by account.
Selected(c) ==
  LET s == Candidates(c)
      routing == FirstOf(s, LAMBDA x : x.from = "token",
                 FirstOf(s, LAMBDA x : x.from = "id_token", Best(s)))
  IN [acc |-> routing.id, user |-> c.user, org |-> Best(s).org, email |-> c.email]

-----------------------------------------------------------------------------
(* The record it lands on; 0: none, append one.                            *)

None == 0

\* pickNewestAccountIndex: the last used, the later one on a tie.
Newest(a, S) ==
  IF S = {} THEN None
  ELSE CHOOSE i \in S : \A j \in S \ {i} : a[j].used < a[i].used \/ (a[j].used = a[i].used /\ j < i)

Unique(S) == IF Cardinality(S) = 1 THEN CHOOSE i \in S : TRUE ELSE None
Latest(S) == IF S = {} THEN None ELSE CHOOSE i \in S : \A j \in S : j <= i

With(a, field, value) == IF value = "" THEN {} ELSE {i \in DOMAIN a : a[i][field] = value}

\* resolveOrganizationMatch
OrgMatch(a, r) ==
  LET same == With(a, "org", r.org)
      own == {i \in same : a[i].user = r.user}
      legacy == {i \in same : /\ a[i].user = ""
                              /\ a[i].acc = "" \/ r.acc = "" \/ a[i].acc = r.acc
                              /\ r.email # "" /\ a[i].email = r.email}
      exact == {i \in same : a[i].acc # "" /\ a[i].acc = r.acc}
      blank == {i \in same : a[i].acc = ""}
      named == same \ blank
  IN IF r.user # ""
     THEN IF own # {} THEN Newest(a, own) ELSE Unique(legacy)
     ELSE IF r.acc # ""
     THEN IF exact # {} THEN Newest(a, exact) ELSE Newest(a, blank)
     ELSE IF blank # {} THEN Newest(a, blank)
     ELSE IF Cardinality({a[i].acc : i \in named}) = 1 THEN Newest(a, named) ELSE None

\* By member id, which names one seat; several such records are told apart
\* by the token.
MemberMatch(a, r) ==
  LET members == With(a, "user", r.user)
  IN IF Cardinality(members) = 1 THEN Unique(members)
     ELSE Newest(a, {i \in members : a[i].token = r.token})

\* resolveNoOrgRefreshMatch
TokenMatch(a, r) ==
  LET same == {i \in DOMAIN a : a[i].org = "" /\ a[i].token = r.token}
      exact == {i \in same : a[i].acc # "" /\ a[i].acc = r.acc}
  IN IF exact # {} THEN Newest(a, exact) ELSE Newest(a, {i \in same : a[i].acc = ""})

EmailMatch(a, r) ==
  LET i == Latest({j \in With(a, "email", r.email) : a[j].org = ""})
  IN IF /\ i # None
        /\ r.acc = "" \/ r.user # ""
        /\ r.user = "" \/ a[i].user = ""
     THEN i ELSE None

\* resolveUniqueOrgScopedMatch, then a token only one record holds.
ScopedMatch(a, r) ==
  LET scoped == {i \in DOMAIN a : a[i].org # ""}
      account == With(a, "acc", r.acc) \cap scoped
      holders == {i \in DOMAIN a : a[i].token = r.token}
      found == IF r.acc = "" THEN Unique(scoped \cap holders)
               ELSE IF Cardinality(account) = 1 THEN Unique(account)
               ELSE Newest(a, account \cap holders)
      only == Unique(holders)
  IN IF found # None THEN found
     ELSE IF only # None /\ (a[only].acc = "" \/ r.acc = "" \/ a[only].acc = r.acc)
     THEN only ELSE None

FirstFound(s) == FirstOf(s, LAMBDA i : i # None, None)

NoOrg(a, r) ==
  IF r.user = ""
  THEN <<Latest({i \in With(a, "acc", r.acc) : a[i].org = ""}), TokenMatch(a, r),
         EmailMatch(a, r), ScopedMatch(a, r)>>
  ELSE <<TokenMatch(a, r), EmailMatch(a, r)>>

\* Mutant: the organization's members are not told apart.
MatchByOrganization(a, r) ==
  IF r.org # "" THEN Newest(a, With(a, "org", r.org))
  ELSE FirstFound(<<MemberMatch(a, r)>> \o NoOrg(a, r))

Match(a, r) ==
  FirstFound(<<MemberMatch(a, r)>> \o IF r.org # "" THEN <<OrgMatch(a, r)>> ELSE NoOrg(a, r))

-----------------------------------------------------------------------------
(* What is written.                                                        *)

Or(x, y) == IF x # "" THEN x ELSE y

Appended(a, r) ==
  Append(a, [acc |-> r.acc, user |-> r.user, org |-> r.org, email |-> r.email,
             token |-> r.token, enabled |-> TRUE, used |-> r.used])

\* A record that has an organization keeps its account id when the login
\* names no organization.
Updated(a, i, r) ==
  [a EXCEPT ![i] = [@ EXCEPT
     !.acc = IF @ # "" /\ a[i].org # "" /\ r.org = "" THEN @ ELSE Or(r.acc, @),
     !.user = Or(r.user, @), !.org = Or(r.org, @), !.email = Or(r.email, @),
     !.token = r.token, !.used = r.used]]

\* getExactIdentityKey
ExactKey(x) ==
  IF x.user # "" THEN <<x.org, x.acc, x.user>>
  ELSE IF x.org # "" \/ x.acc # "" THEN <<x.org, x.acc, "", x.token>>
  ELSE <<x.email, x.token>>

\* mergeStoredAccountPair: the newer record's token; disabled wins.
Merged(target, source) ==
  LET newer == IF source.used > target.used THEN source ELSE target
  IN [acc |-> Or(target.acc, source.acc), user |-> Or(target.user, source.user),
      org |-> Or(target.org, source.org), email |-> Or(target.email, source.email),
      token |-> newer.token, enabled |-> target.enabled /\ source.enabled,
      used |-> newer.used]

\* pruneRefreshTokenCollisions: records of one exact identity become one.
Pruned(a) ==
  LET group(i) == {j \in DOMAIN a : ExactKey(a[j]) = ExactKey(a[i])}
      kept == {i \in DOMAIN a : i = Newest(a, group(i))}
      whole(i) == FoldLeft(LAMBDA x, j : IF j \in group(i) \ {i} THEN Merged(x, a[j]) ELSE x,
                           a[i], [j \in DOMAIN a |-> j])
  IN FoldLeft(LAMBDA s, i : IF i \in kept THEN Append(s, whole(i)) ELSE s,
              <<>>, [i \in DOMAIN a |-> i])

\* The row that carries the login's token is enabled again.
Enabled(a, token) ==
  LET i == CHOOSE n \in DOMAIN a : a[n].token = token /\ \A m \in 1 .. n - 1 : a[m].token # token
  IN [a EXCEPT ![i].enabled = TRUE]

\* collectIdentityKeys, and the first account that has one of them: member,
\* organization, account, token, in that order.
Keys(x) ==
  SelectSeq(<<<<"member", x.user>>, <<"org", x.org>>, <<"account", x.acc>>>>,
            LAMBDA k : k[2] # "") \o <<<<"refresh", x.token>>>>

Remapped(old, new, i) ==
  LET first(k) == {n \in DOMAIN new : Contains(Keys(new[n]), k)}
      hits == SelectSeq(Keys(old[i]), LAMBDA k : first(k) # {})
  IN IF i \notin DOMAIN old \/ hits = <<>> THEN i
     ELSE CHOOSE n \in first(Head(hits)) : \A m \in first(Head(hits)) : n <= m

Clamped(i, a) == IF i > Len(a) THEN Len(a) ELSE i

-----------------------------------------------------------------------------
(* The behaviour.                                                          *)

\* A token is <<seat, number>>.  Records saved before hold a token of their
\* seat and what the version that wrote them knew.
Stored(s, shape, n) ==
  LET r == Selected(world[s])
      full == [acc |-> r.acc, user |-> r.user, org |-> r.org, email |-> r.email,
               token |-> <<s, 0>>, enabled |-> n # 1, used |-> 0]
  IN CASE shape = "full" -> full
       [] shape = "no user" -> [full EXCEPT !.user = ""]
       [] shape = "bare" -> [full EXCEPT !.user = "", !.acc = "", !.org = ""]

Nothing == [seat |-> "", lost |-> {}, pointer |-> TRUE, told |-> FALSE]

Init ==
  /\ world \in Worlds
  /\ \E order \in {o \in SetToAllKPermutations(Seats) : o # <<>>} :
       \E shape \in [DOMAIN order -> Shapes] :
         pool = [n \in DOMAIN order |-> Stored(order[n], shape[n], n)]
  /\ active \in DOMAIN pool
  /\ minted = 0
  /\ last = Nothing

\* Seats whose sign-in the list still holds.
Owners(a) == {a[i].token[1] : i \in DOMAIN a}

\* The first key of the record is its own: no other record has it.
ToldApart(a, i) ==
  \A j \in DOMAIN a \ {i} : ~Contains(Keys(a[j]), Head(Keys(a[i])))

\* persistAccountPool: a sign-in with a new token, or the restoration of an
\* account under a token its record still holds.  replaceAll starts afresh.
Persist(s, token, replaceAll) ==
  LET r == Selected(world[s]) @@ [token |-> token, used |-> minted + 1]
      old == IF replaceAll THEN <<>> ELSE pool
      i == Match(old, r)
      new == Enabled(Pruned(IF i = None THEN Appended(old, r) ELSE Updated(old, i, r)), token)
      at == IF replaceAll THEN 1 ELSE Clamped(Remapped(old, new, active), new)
  IN /\ minted < MaxLogins
     /\ minted' = minted + 1
     /\ pool' = new /\ active' = at
     /\ last' = [seat |-> s,
                 lost |-> IF replaceAll THEN {} ELSE Owners(pool) \ Owners(new),
                 pointer |-> replaceAll \/ new[at].token[1] = pool[active].token[1],
                 told |-> ToldApart(pool, active)]
     /\ UNCHANGED world

Next ==
  \E s \in Seats :
    \/ \E replaceAll \in BOOLEAN : Persist(s, <<s, minted + 1>>, replaceAll)
    \/ \E i \in DOMAIN pool : pool[i].token[1] = s /\ Persist(s, pool[i].token, FALSE)

Spec == Init /\ [][Next]_vars

-----------------------------------------------------------------------------
(* Properties.                                                             *)

\* Types: the list is never empty and the active index names a record of it.
TypeOK ==
  /\ world \in Worlds
  /\ minted \in 0 .. MaxLogins
  /\ Len(pool) > 0 /\ active \in DOMAIN pool
  /\ \A i \in DOMAIN pool : /\ pool[i].token \in Seats \X (0 .. MaxLogins)
                            /\ pool[i].enabled \in BOOLEAN
                            /\ {pool[i].acc, pool[i].user, pool[i].org, pool[i].email} \subseteq STRING
  /\ last.lost \subseteq Seats /\ {last.pointer, last.told} \subseteq BOOLEAN

\* A sign-in never costs another seat the only credential the list holds for
\* it: matching by organization, account, e-mail address or token finds the
\* record of this seat or none (persistAccountPool, existingIndex).
NoSeatLost == last.lost = {}

\* The account in use stays the one in use, although records are merged and
\* indexes move (storedActiveKeys, resolveIndexByIdentityKeys).
PointerStays == last.pointer

\* It does when the record's first key tells it from the other records.
PointerKept == last.told => last.pointer

\* The record that carries a seat's token is bound to what the token can
\* bill: requests go out under the account id the store holds, and a login
\* that updates a record must not leave it the id of another workspace.
BoundToToken ==
  \A i \in DOMAIN pool : LET c == world[pool[i].token[1]] IN
    /\ c.acc # "" /\ pool[i].acc # "" => pool[i].acc = c.acc
    /\ c.user # "" /\ pool[i].user # "" => pool[i].user = c.user

\* The seat that has just signed in is in the list once, enabled and with the
\* new token: no duplicate record keeps a token the sign-in replaced.
SignedInOnce ==
  last.seat # "" =>
    LET mine == {i \in DOMAIN pool : pool[i].token[1] = last.seat}
    IN /\ \E i \in mine : pool[i].enabled
       /\ world[last.seat].user # "" =>
            Cardinality({i \in mine : pool[i].user # ""}) <= 1

\* The login's promises together.
LoginSafe == NoSeatLost /\ PointerKept /\ BoundToToken /\ SignedInOnce
=============================================================================
