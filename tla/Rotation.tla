------------------------------ MODULE Rotation ------------------------------
(***************************************************************************)
(* The order in which accounts serve (lib/accounts/rotation.ts, state.ts   *)
(* and lib/rotation.ts): the pool is a list, a cursor and a current        *)
(* position choose from it by the configured strategy, and the health and  *)
(* the token bucket of an account are kept by its position, in trackers    *)
(* that outlive the list.                                                  *)
(*                                                                         *)
(* One model family; positions count from 1, and 0 is none.                *)
(***************************************************************************)
EXTENDS Integers, Sequences, SequencesExt, FiniteSets

CONSTANTS
  Accounts,    \* the accounts there may be
  Requests,    \* concurrent requests
  Strategies,  \* which strategies are run
  Cap,         \* maxTokens of a bucket
  Best,        \* maxScore of an account's health
  Hazards      \* which of "dropped elsewhere", "late" may happen

VARIABLES
  strategy,  \* accountSelectionStrategy
  pool,      \* AccountState.accounts
  blocked,   \* disabled, rate-limited, out of quota or cooling down
  cursor,    \* cursorByFamily
  current,   \* currentAccountIndexByFamily
  bucket,    \* TokenBucketTracker, by position
  health,    \* HealthScoreTracker, by position
  recent,    \* the accounts by lastUsed, oldest first
  held,      \* each request's account
  own,       \* history: the bucket and health each account has earned
  passed     \* history: picks that passed over an account it could have taken

vars == <<strategy, pool, blocked, cursor, current, bucket, health, recent, held, own, passed>>

Positions == 1 .. Cardinality(Accounts)

Fresh == [bucket |-> Cap, health |-> Best]

\* index: account.index of the object the request holds.
Idle == [account |-> "none", index |-> 0, paid |-> FALSE, tried |-> {}]

InPool(a) == a \in ToSet(pool)

Init ==
  /\ strategy \in Strategies
  /\ pool = SetToSeq(Accounts)
  /\ blocked = {} /\ cursor = 1 /\ current = 1
  /\ bucket = [i \in Positions |-> Cap] /\ health = [i \in Positions |-> Best]
  /\ recent = <<>>
  /\ held = [r \in Requests |-> Idle]
  /\ own = [a \in Accounts |-> Fresh] /\ passed = [a \in Accounts |-> 0]

-----------------------------------------------------------------------------
(* Selection.                                                              *)

\* isSelectable
Selectable(i) == pool[i] \notin blocked /\ bucket[i] >= 1

Candidates(r) == {i \in DOMAIN pool : i \notin held[r].tried /\ Selectable(i)}

After(i) == (i % Len(pool)) + 1

\* How far i lies ahead of the cursor.
Ahead(i) == (i - cursor + Len(pool)) % Len(pool)

Nearest(s) == CHOOSE i \in s : \A j \in s : Ahead(i) <= Ahead(j)

Lowest(s) == CHOOSE i \in s : \A j \in s : i <= j

\* lastUsed: 0 for an account that has not been used.
Used(i) == IF pool[i] \in ToSet(recent) THEN CHOOSE k \in DOMAIN recent : recent[k] = pool[i] ELSE 0

\* The score adds health, tokens and the time since the last use: the best is one
\* that no other beats in all three.
Bests(s) ==
  {i \in s : ~\E j \in s : /\ health[j] >= health[i] /\ bucket[j] >= bucket[i]
                           /\ Used(j) < Used(i)}

Oldest(s) == {i \in s : \A j \in s : Used(i) <= Used(j)}

Stays(r) == current \in Candidates(r)

\* What getAccountForStrategy may return.  The hybrid one falls back on a blocked
\* account; the request then drops it.
Picks(r) ==
  LET all == Candidates(r)
  IN IF all = {} THEN {}
     ELSE CASE strategy = "round-robin" -> {Nearest(all)}
            [] strategy = "custom" -> {Lowest(all)}
            [] strategy = "sticky" -> IF Stays(r) THEN {current} ELSE {Lowest(all)}
            [] strategy = "hybrid" -> IF Stays(r) THEN {current} ELSE Bests(all)

\* Only the hybrid strategy looks at lastUsed.
Touched(i) ==
  IF strategy = "hybrid" THEN Append(SelectSeq(recent, LAMBDA a : a # pool[i]), pool[i]) ELSE recent

Take(r, i) ==
  /\ held' = [held EXCEPT ![r] =
               [account |-> pool[i], index |-> i, paid |-> FALSE, tried |-> @.tried]]
  /\ current' = i
  /\ cursor' = IF strategy \in {"sticky", "hybrid"} /\ Stays(r) THEN cursor ELSE After(i)
  /\ recent' = Touched(i)

\* History: how often in a row each account that could serve was passed over.
Passing(r, i) ==
  passed' = [a \in Accounts |->
               IF \E j \in Candidates(r) : j # i /\ pool[j] = a THEN passed[a] + 1 ELSE 0]

Pick(r) ==
  /\ held[r].account = "none"
  /\ \E i \in Picks(r) :
       /\ Take(r, i)
       /\ IF strategy = "round-robin" THEN Passing(r, i) ELSE UNCHANGED passed
  /\ UNCHANGED <<strategy, pool, blocked, bucket, health, own>>

\* No account is selectable: the least recently used one is chosen, whatever blocks it,
\* and the request loop, which sees it is not eligible, gives it up.
PickBlocked(r) ==
  /\ strategy = "hybrid" /\ held[r].account = "none" /\ Candidates(r) = {}
  /\ \E i \in Oldest(DOMAIN pool \ held[r].tried) :
       /\ current' = i /\ cursor' = After(i)
       /\ recent' = Touched(i)
       /\ held' = [held EXCEPT ![r].tried = @ \cup {i}]
  /\ UNCHANGED <<strategy, pool, blocked, bucket, health, own, passed>>

-----------------------------------------------------------------------------
(* What a request records on its account's position.                       *)

Less(b) == IF b > 0 THEN b - 1 ELSE 0

More(b) == IF b < Cap THEN b + 1 ELSE Cap

Drained(b) == 0

Worse(h) == IF h > 0 THEN h - 1 ELSE 0

Better(h) == IF h < Best THEN h + 1 ELSE Best

\* The bucket becomes B and the health H where the request's account object points,
\* and, in the history, for that account.
Records(r, B(_), H(_)) ==
  LET i == held[r].index
      a == held[r].account
  IN /\ bucket' = [bucket EXCEPT ![i] = B(@)]
     /\ health' = [health EXCEPT ![i] = H(@)]
     /\ own' = [own EXCEPT ![a] = [bucket |-> B(@.bucket), health |-> H(@.health)]]

Same(x) == x

\* Between the choice and the request the account's token is refreshed, and
\* other requests may take the tokens it was chosen for.
Consume(r) ==
  /\ held[r].account # "none" /\ ~held[r].paid
  /\ IF bucket[held[r].index] >= 1
     THEN /\ Records(r, Less, Same)
          /\ held' = [held EXCEPT ![r].paid = TRUE]
     ELSE /\ held' = [held EXCEPT ![r] = [Idle EXCEPT !.tried = held[r].tried \cup {held[r].index}]]
          /\ UNCHANGED <<bucket, health, own>>
  /\ UNCHANGED <<strategy, pool, blocked, cursor, current, recent, passed>>

\* A request that fails goes on to another account.
GoesOn(r) == held' = [held EXCEPT ![r] = [Idle EXCEPT !.tried = held[r].tried \cup {held[r].index}]]

Ends(r) == held' = [held EXCEPT ![r] = Idle]

Serve(r) ==
  /\ held[r].paid /\ Ends(r)
  /\ Records(r, Same, Better)
  /\ UNCHANGED <<strategy, pool, blocked, cursor, current, recent, passed>>

\* A network or server error counts against the account; the token is refunded,
\* unless the refund window is over.
Fail(r) ==
  /\ held[r].paid /\ GoesOn(r)
  /\ Records(r, More, Worse) \/ Records(r, Same, Worse)
  /\ UNCHANGED <<strategy, pool, blocked, cursor, current, recent, passed>>

\* A rate limit drains the bucket and blocks the account.
Limit(r) ==
  /\ held[r].paid /\ GoesOn(r)
  /\ Records(r, Drained, Worse)
  /\ blocked' = blocked \cup {held[r].account}
  /\ UNCHANGED <<strategy, pool, cursor, current, recent, passed>>

Exhaust(r) ==
  /\ held[r].account = "none" /\ held[r].tried # {} /\ Picks(r) = {} /\ Ends(r)
  /\ UNCHANGED <<strategy, pool, blocked, cursor, current, bucket, health, recent, own, passed>>

-----------------------------------------------------------------------------
(* Time.                                                                   *)

Recovers(i, B(_), H(_)) ==
  /\ bucket' = [bucket EXCEPT ![i] = B(@)] /\ health' = [health EXCEPT ![i] = H(@)]
  /\ own' = IF i \in DOMAIN pool
            THEN [own EXCEPT ![pool[i]] = [bucket |-> B(@.bucket), health |-> H(@.health)]] ELSE own
  /\ UNCHANGED <<strategy, pool, blocked, cursor, current, recent, held, passed>>

\* All positions recover alike.
Refill(i) ==
  /\ bucket[i] < Cap \/ health[i] < Best
  /\ Recovers(i, More, Better)

Unblock(a) ==
  /\ a \in blocked /\ blocked' = blocked \ {a}
  /\ UNCHANGED <<strategy, pool, cursor, current, bucket, health, recent, held, own, passed>>

-----------------------------------------------------------------------------
(* The pool changes.                                                       *)

\* setActiveIndex
SetActive(i) ==
  /\ i \in DOMAIN pool /\ i # cursor /\ pool[i] \notin blocked
  /\ cursor' = i /\ current' = i
  /\ recent' = Touched(i)
  /\ passed' = [a \in Accounts |-> 0]
  /\ UNCHANGED <<strategy, pool, blocked, bucket, health, held, own>>

\* Mutant: the entries after the removed one keep their positions.
RemappedNot(f, i, default) == [f EXCEPT ![i] = default]

\* remapIndexedKeys
Remapped(f, i, default) ==
  [j \in Positions |-> IF j < i THEN f[j] ELSE IF j + 1 \in Positions THEN f[j + 1] ELSE default]

\* Where the cursor goes when the account at i is removed.
CursorAfter(i) ==
  LET c == IF cursor > i THEN cursor - 1 ELSE cursor
  IN IF c > Len(pool) - 1 THEN 1 ELSE c

\* removeAccount: the account at i leaves, those after it move up, and with them the
\* positions of the objects that requests hold.
RemoveAccount(i) ==
  /\ i \in DOMAIN pool /\ Len(pool) > 1
  /\ "late" \in Hazards \/ \A r \in Requests : held[r].account # pool[i]
  /\ pool' = RemoveAt(pool, i)
  /\ bucket' = Remapped(bucket, i, Cap) /\ health' = Remapped(health, i, Best)
  /\ cursor' = CursorAfter(i)
  /\ current' = LET c == IF current > i THEN current - 1 ELSE current
                IN IF c > Len(pool) - 1 THEN 0 ELSE c
  /\ held' = [r \in Requests |->
                [held[r] EXCEPT !.index = IF @ > i /\ InPool(held[r].account) THEN @ - 1 ELSE @,
                                !.tried = {}]]
  /\ own' = [own EXCEPT ![pool[i]] = Fresh]
  /\ passed' = [passed EXCEPT ![pool[i]] = 0]
  /\ UNCHANGED <<strategy, blocked, recent>>

\* The manager is loaded again after another process changed the accounts.  The
\* trackers stay; a request keeps the object of the old manager.
Reload(new) ==
  /\ pool' = new
  /\ cursor' = 1 /\ current' = 1
  /\ held' = [r \in Requests |-> [held[r] EXCEPT !.tried = {}]]
  /\ passed' = [a \in Accounts |-> 0]
  /\ UNCHANGED <<strategy, blocked, bucket, health, recent, own>>

LoginElsewhere(a) == ~InPool(a) /\ Reload(Append(pool, a))

RemovedElsewhere(i) ==
  /\ "dropped elsewhere" \in Hazards /\ i \in DOMAIN pool /\ Len(pool) > 1
  /\ Reload(RemoveAt(pool, i))

Next ==
  \/ \E r \in Requests : \/ Pick(r) \/ PickBlocked(r) \/ Consume(r) \/ Serve(r)
                         \/ Fail(r) \/ Limit(r) \/ Exhaust(r)
  \/ \E i \in Positions : Refill(i) \/ SetActive(i) \/ RemoveAccount(i) \/ RemovedElsewhere(i)
  \/ \E a \in Accounts : Unblock(a) \/ LoginElsewhere(a)

Spec == Init /\ [][Next]_vars

-----------------------------------------------------------------------------
(* Properties.                                                             *)

TypeOK ==
  /\ pool # <<>> /\ IsInjective(pool) /\ ToSet(pool) \subseteq Accounts
  /\ cursor \in DOMAIN pool /\ current \in {0} \cup DOMAIN pool
  /\ \A i \in Positions : bucket[i] \in 0 .. Cap /\ health[i] \in 0 .. Best
  /\ \A r \in Requests : held[r].tried \subseteq Positions

\* However the list shifts, every account keeps the bucket and the health it has
\* earned, and inherits nobody's.
HistoryFollows ==
  \A i \in DOMAIN pool : own[pool[i]] = [bucket |-> bucket[i], health |-> health[i]]

\* Round-robin: an account that can serve is passed over by each other account at
\* most once, also while accounts are removed.
NoOneSkipped == \A a \in Accounts : passed[a] < Cardinality(Accounts)

RotationSafe == HistoryFollows /\ NoOneSkipped
=============================================================================
