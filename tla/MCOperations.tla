---------------------------- MODULE MCOperations ----------------------------
(***************************************************************************)
(* Instances, for TLC, of what is done to the stores and on behalf of the  *)
(* user: AccountStore, FlaggedClear, PoolTools, LoginMatch, LoginFlow,      *)
(* AccountCheck, Installer and UpdateCheck.  A behaviour is one of a       *)
(* single part, and the parts take turns in the variables x1 to x13.       *)
(*                                                                         *)
(* Case "sound" is what is checked; under each other case the invariant    *)
(* Refuted fails in one of the parts (README, disagreements).              *)
(***************************************************************************)
EXTENDS Integers, Sequences, FiniteSets

CONSTANTS
  Parts,  \* the parts to check
  Case    \* "sound", or a disagreement

VARIABLES part, x1, x2, x3, x4, x5, x6, x7, x8, x9, x10, x11, x12, x13

After5 == <<part, x6, x7, x8, x9, x10, x11, x12, x13>>
After6 == <<part, x7, x8, x9, x10, x11, x12, x13>>
After7 == <<part, x8, x9, x10, x11, x12, x13>>
After8 == <<part, x9, x10, x11, x12, x13>>
After9 == <<part, x10, x11, x12, x13>>
All == <<x1, x2, x3, x4, x5, x6, x7, x8, x9, x10, x11, x12, x13>>

\* What a run of the account store finds, does, and may see fail.
World(store, format, keychain, up, does, fails) ==
  [store |-> store, format |-> format, keychain |-> keychain,
   up |-> up, does |-> does, fails |-> fails]
One == {"p1"}
Two == {"p1", "p2"}
Stores == {"accounts", "flagged"}
Saves == {"load", "transaction"}
Everything == {"load", "transaction", "clear", "rollback"}
Writes == {"crash", "rename", "write"}

\* Two processes: a backend that may refuse, clears, a rollback while the other saves.
Shared ==
  {World(s, f, k, Two, Saves, Writes \cup {"refused"}) :
     s \in Stores, f \in {"none", "current"}, k \in BOOLEAN}
    \cup {World("accounts", f, k, Two, Saves \cup {"clear"}, Writes) :
            f \in {"none", "current"}, k \in BOOLEAN}
    \cup {World(s, "current", TRUE, Two, {"transaction", "rollback"}, Writes) : s \in Stores}

\* One process: every operation, with markers and files that cannot be removed, and
\* files of an older version, in today's place or elsewhere.
Alone ==
  {World("accounts", f, k, One, Everything, fails) : f \in {"current", "old"}, k \in BOOLEAN,
     fails \in {Writes \cup {"marker"}, {"stuck"}}}
    \cup {World("accounts", "current", TRUE, One, Saves, {"rename", "stuck", "marker"})}
    \cup {World(s, "legacy", k, One, Saves, Writes \cup {"marker", "refused", "stuck"}) :
            s \in Stores, k \in BOOLEAN}
    \cup {World("accounts", "current", TRUE, One, Saves, {"locked"}),
          World("accounts", "current", TRUE, One, Saves \cup {"rollback"}, {"kept"})}

\* One kind of failure, or one operation, more.
StoreWorlds ==
  CASE Case = "transient" -> {World("accounts", "current", TRUE, One, Saves, {"transient"})}
    [] Case = "locked" -> {World("accounts", "none", TRUE, One, Saves, {"locked"})}
    [] Case = "refused then cleared" ->
         {World("accounts", "current", TRUE, One, Everything, {"refused", "crash"})}
    [] Case = "legacy cleared" ->
         {World("accounts", "legacy", FALSE, One, Saves \cup {"clear"}, {})}
    [] Case = "old" -> {World("accounts", "old", FALSE, Two, Saves, {})}
    [] OTHER -> Shared \cup Alone

Store == INSTANCE AccountStore WITH
  Procs <- Two, NoProc <- "nobody", Worlds <- StoreWorlds,
  Retention <- 2, MaxOps <- 5, MaxFaults <- 2,
  world <- x1, file <- x2, old <- x3, legacy <- x4, entry <- x5, markers <- x6, retired <- x7,
  lease <- x8, op <- x9, current <- x10, made <- x11, ops <- x12, faults <- x13

ClearFaults == {"crash", "unreadable", "rename", "stuck", "refused", "transient", "kept", "marker"}
Wipe == INSTANCE FlaggedClear WITH
  Faults <- IF Case \in {"locked keychain", "marker lost"} THEN ClearFaults \cup {"locked", "marker lost"}
            ELSE ClearFaults,
  MaxFaults <- 2,
  keychain <- x1, file <- x2, entry <- x3, markers <- x4, at <- x5, current <- x6, faults <- x7,
  loud <- x8, wasFresh <- x9

\* Records of three seats, a colleague's in the workspace of one of the user's two;
\* `own' is the address of the other.
Record(seat, own, n) ==
  LET workspace == IF seat = "home" THEN <<"", "A", "token">> ELSE <<"o2", "B", "org">>
      person == CASE seat = "home" -> <<"u1", own>> [] seat = "work" -> <<"u2", "me">>
                  [] seat = "mate" -> <<"u3", "you">>
  IN [org |-> workspace[1], acc |-> workspace[2], from |-> workspace[3],
      user |-> person[1], mail |-> person[2], claim |-> "", token |-> <<seat, 0>>,
      label |-> "", note |-> "", cool |-> "", tags |-> "", used |-> n, enabled |-> TRUE]

\* A record, a disabled one, that of a sign-in without its organization, one whose
\* member only the token tells, one with an old token that tells none, one that tells
\* nothing but an address.
Off(x) == [x EXCEPT !.enabled = FALSE, !.note = "both", !.cool = "auth"]
Twin(x) == [x EXCEPT !.org = "", !.from = "token", !.used = @ + 1]
Variants(x) ==
  {x, Off(x), Twin(x), Off(Twin(x)),
   [x EXCEPT !.user = "", !.claim = x.user, !.cool = "for ever"],
   [x EXCEPT !.user = "", !.token[2] = 1, !.label = "generated"],
   [x EXCEPT !.user = "", !.acc = "", !.org = "", !.from = ""]}
Shaped(own, n) == UNION {Variants(Record(s, own, n)) : s \in {"home", "work", "mate"}}
FoundWith(own) ==
  {<<x>> : x \in Shaped(own, 1)} \cup {<<x, y>> : x \in Shaped(own, 1), y \in Shaped(own, 2)}
    \cup {<<x, Record("mate", own, 2), Record(s, own, 2)>> :
            x \in Shaped(own, 1), s \in {"home", "work"}}

\* What tells no member has neither the workspace nor the address of another's record,
\* and what tells no organization not the account of another's.
Telling(list) ==
  \A x \in {list[i] : i \in DOMAIN list}, y \in {list[i] : i \in DOMAIN list} :
    x.token[1] # y.token[1] =>
      /\ x.user = "" /\ x.claim = "" => x.mail # y.mail /\ (x.acc # y.acc \/ x.acc = "")
      /\ x.org = "" => x.acc # y.acc \/ x.acc = ""

PoolFile(version, list, active, family) ==
  [version |-> version, accounts |-> list, active |-> active, family |-> family]
Everyone == <<Record("home", "me", 2), Off(Record("work", "me", 2)), Record("mate", "me", 2)>>

\* One call on any file, and two calls of two sessions on one.
OneCall == [name |-> "edit", sessions |-> {"s1"}, tools |-> {"remove", "enable", "label", "note"},
            calls |-> 1, refreshes |-> 0,
            pools |-> {PoolFile(3, list, i, 0) : i \in {1, 3},
                         list \in {l \in FoundWith("me") \cup FoundWith("us") :
                                    Case = "unowned" \/ Telling(l)}}]
TwoCalls == [name |-> "shared edit", sessions |-> {"s1", "s2"},
             tools |-> {"remove", "enable", "switch", "tag", "export", "import"},
             calls |-> 2, refreshes |-> 1,
             pools |-> {PoolFile(3, Everyone, 3, 2), PoolFile(2, Everyone, 1, 2)}]
Edit(w) == INSTANCE PoolTools WITH
  Sessions <- w.sessions, Pools <- w.pools, Tools <- w.tools,
  Exports <- {PoolFile(1, <<Twin(Record("work", "me", 2))>>, 1, 1),
              PoolFile(3, <<Record("work", "me", 3)>>, 1, 1)},
  MAX_ACCOUNTS <- 3, MaxCalls <- w.calls, MaxRefreshes <- w.refreshes,
  file <- x1, copy <- x2, call <- x3, calls <- x4, refreshes <- x5, last <- x6

\* Three seats: two of one person, in two workspaces, and a colleague's in one of
\* them; organizations in both tokens or in none.
Claims(acc, user, email, orgs) ==
  [acc |-> acc, user |-> user, email |-> email, idAcc |-> acc, orgs |-> orgs]
Org(id, default, personal) == [id |-> id, default |-> default, personal |-> personal]
Team(own, orgs) ==
  [s \in {"home", "work", "mate"} |->
     CASE s = "home" -> Claims("A", "u1", own, orgs)
       [] s = "work" -> Claims("B", "u2", "me", orgs)
       [] s = "mate" -> Claims("B", "u3", "you", <<Org("o2", TRUE, FALSE)>>)]
Listed == {Team("me", <<Org("o1", TRUE, TRUE)>>),
           Team("me", <<Org("o1", FALSE, TRUE), Org("o2", TRUE, FALSE)>>)}
Match == INSTANCE LoginMatch WITH
  Seats <- {"home", "work", "mate"},
  Worlds <- CASE Case = "workspaces" -> {Team("me", <<>>)} [] Case = "pointer" -> Listed
              [] OTHER -> Listed \cup {Team("us", <<>>)},
  Shapes <- {"full", "no user"} \cup (IF Case = "sound" THEN {"bare"} ELSE {}), MaxLogins <- 2,
  world <- x1, pool <- x2, active <- x3, minted <- x4, last <- x5

Flow == INSTANCE LoginFlow WITH
  Sessions <- {"s1", "s2"}, Methods <- {"browser", "manual browser", "device", "paste"},
  Projects <- IF Case = "path" THEN {"p1", "p2"} ELSE {"p1"}, Fresh <- {"s1"},
  Wait <- 2, MaxFlags <- 1, MaxClock <- 3,
  clock <- x1, session <- x2, owner <- x3, path <- x4, pools <- x5, flagged <- x6, flags <- x7,
  last <- x8

\* Two seats; their addresses matter to the Codex CLI only.  No token is stored twice
\* under any but the other runtimes' hazards; the rest holds under those alone.
Same == [s \in {"s1", "s2"} |-> "me"]
Checks == {"check", "raced check", "disturbed check"}
Other == [s \in {"s1", "s2"} |-> s]
Check(kind) == INSTANCE AccountCheck WITH
  Seats <- {"s1", "s2"}, Mails <- {Other} \cup (IF Case = "cli" THEN {Same} ELSE {}),
  Unnamed <- IF Case = "unnamed" THEN {"s1", "s2"} ELSE {},
  Hazards <- IF kind = "check" THEN {"quarantine", "menu", Case} \ {"sound"}
             ELSE {"login", "crash", "overtaken"} \cup (IF kind = "raced check" THEN {} ELSE {"cli"}),
  MaxMint <- CASE kind = "check" -> 4 [] kind = "raced check" -> 3 [] OTHER -> 2,
  mail <- x1, live <- x2, minted <- x3, cli <- x4, pool <- x5, flagged <- x6, job <- x7

\* Plugin lists of up to two entries.
Entries == {"published", "pinned", "cached", "checkout", "formerCheckout", "other"}
Lists == {<<>>} \cup {<<a>> : a \in Entries} \cup {<<"published", a>> : a \in Entries}
           \cup {<<a, "other">> : a \in Entries}
Written(list) == [plugin |-> list, keys |-> {"user", "staleModels", "legacyModels", "apiKey"},
                  exists |-> TRUE, parses |-> TRUE]
Install == INSTANCE Installer WITH
  Configs <- {Written(list) : list \in Lists},
  TuiLists <- {<<>>, <<"checkout">>, <<"published">>, <<"cached">>},
  MaxRuns <- 1, MaxEdits <- 1,
  opened <- x1, json <- x2, jsonc <- x3, tui <- x4, cache <- x5, run <- x6, runs <- x7, edits <- x8

\* One of the two may run a checkout of the repository.
Update(local) == INSTANCE UpdateCheck WITH
  Procs <- Two, Local <- local, Linked <- Case = "linked", AutoUpdate <- TRUE, Day <- 2,
  Faults <- {"fetch", "write", "kill", "rm"}, MaxVersion <- 2, MaxClock <- 2,
  registry <- x1, disk <- x2, file <- x3, clock <- x4, proc <- x5, was <- x6, promised <- x7

-----------------------------------------------------------------------------
(***************************************************************************)
(* One part at a time; the variables it does not need stay 0.              *)
(***************************************************************************)
Zero9 == x10 = 0 /\ x11 = 0 /\ x12 = 0 /\ x13 = 0
Zero8 == x9 = 0 /\ Zero9
Zero7 == x8 = 0 /\ Zero8
Zero6 == x7 = 0 /\ Zero7
Zero5 == x6 = 0 /\ Zero6

Init ==
  /\ part \in Parts
  /\ \/ part = "store" /\ Store!Init
     \/ part = "wipe" /\ Wipe!Init /\ Zero9
     \/ \E w \in {OneCall, TwoCalls} : part = w.name /\ Edit(w)!Init /\ Zero6
     \/ part = "match" /\ Match!Init /\ Zero5
     \/ part = "flow" /\ Flow!Init /\ Zero8
     \/ \E k \in Checks : part = k /\ Check(k)!Init /\ Zero7
     \/ part = "install" /\ Install!Init /\ Zero8
     \/ part = "update" /\ Update({})!Init /\ Zero7
     \/ part = "update beside a checkout" /\ Update({"p2"})!Init /\ Zero7

Next ==
  \/ part = "store" /\ Store!Next /\ UNCHANGED part
  \/ part = "wipe" /\ Wipe!Next /\ UNCHANGED After9
  \/ \E w \in {OneCall, TwoCalls} : part = w.name /\ Edit(w)!Next /\ UNCHANGED After6
  \/ part = "match" /\ Match!Next /\ UNCHANGED After5
  \/ part = "flow" /\ Flow!Next /\ UNCHANGED After8
  \/ \E k \in Checks : part = k /\ Check(k)!Next /\ UNCHANGED After7
  \/ part = "install" /\ Install!Next /\ UNCHANGED After8
  \/ part = "update" /\ Update({})!Next /\ UNCHANGED After7
  \/ part = "update beside a checkout" /\ Update({"p2"})!Next /\ UNCHANGED After7

Spec == Init /\ [][Next]_<<part, All>>

-----------------------------------------------------------------------------
\* Each property of a part is checked with the part's type invariant.

\* What was saved last is what is loaded, whoever dies and whatever fails on the
\* way to the keychain and back (load-save.ts:667, :972); a fresh start wipes what it
\* means to and nothing flagged since (flagged.ts:533); and a tool that edits the pool
\* costs it no seat and moves no pointer (normalize.ts:193, codex-remove.ts:128).
StoresSafe ==
  /\ part = "store" => Store!TypeOK /\ Store!LoadIsCurrent /\ Store!PoolSurvives
  /\ part = "wipe" => Wipe!TypeOK /\ Wipe!FlaggedSafe
  /\ \A w \in {OneCall, TwoCalls} : part = w.name => Edit(w)!TypeOK /\ Edit(w)!PoolSafe

\* A sign-in ends in the record of its own seat and costs no other seat its
\* credential (login-runner.ts:826), and no two sign-ins share the loopback port,
\* a code or a project (loopback-flow.ts).
LoginsSafe ==
  /\ part = "match" => Match!TypeOK /\ Match!LoginSafe
  /\ part = "flow" => Flow!TypeOK /\ Flow!FlowSafe

\* The check of all accounts, the hydration and the restoring of flagged accounts
\* lose no account and give none another one's token (index.ts:4950 to 5430).
ChecksSafe ==
  /\ part = "check" => Check("check")!CheckSafe
  /\ \A k \in Checks : part = k => Check(k)!TypeOK /\ Check(k)!TokensApart

\* After an install the plugin loads once, from somewhere (the installer's core),
\* and a promised update is what the restart brings (auto-update-checker.ts).
PluginSafe ==
  /\ part = "install" => Install!TypeOK /\ Install!InstallSafe
  /\ part = "update" => Update({})!TypeOK /\ Update({})!UpdateSafe
  /\ part = "update beside a checkout" => Update({"p2"})!TypeOK /\ Update({"p2"})!UpdateSafe

\* A step of the installer loses nothing that it did not copy before, and nothing
\* of the user's own at all (backupConfig, install-oc-codex-multi-auth-core.js).
NothingLost == [][part = "install" => Install!LosesNothing]_<<part, All>>

\* What the code does not keep, by Case: false in a state TLC reaches.
Refuted ==
  CASE Case = "workspaces" -> part = "match" => Match!NoSeatLost
    [] Case = "pointer" -> part = "match" => Match!PointerStays
    [] Case = "last" -> part = "edit" => Edit(OneCall)!PointersStay
    [] Case = "renumbered" -> part = "shared edit" => Edit(TwoCalls)!HitsThePicked
    [] Case = "page" -> part = "flow" => Flow!PageIsTrue
    [] Case = "path" -> part = "flow" => Flow!SavedWhereAsked
    [] Case = "dangling" -> part = "install" /\ x6.phase = "none" /\ x5 = {} =>
         \A f \in {x2, x3, x4} : \A i \in DOMAIN f.plugin : f.plugin[i] # "cached"
    [] Case = "older" -> part = "update" => Update({})!OfferIsNewer
    [] Case = "linked" -> PluginSafe
    [] Case \in {"login", "crash", "cli", "restoring", "overtaken", "unnamed"} -> ChecksSafe
    [] Case # "sound" -> StoresSafe
    [] OTHER -> TRUE
=============================================================================
