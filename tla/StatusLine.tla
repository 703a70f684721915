----------------------------- MODULE StatusLine -----------------------------
(***************************************************************************)
(* The terminal's status line for the serving account (tui.ts) and the     *)
(* caches it lives on (tui-quota-cache.ts).  The request path pushes a     *)
(* reading of the response headers into a shared file and into the file of *)
(* the session; every open line polls both each second, and asks the usage *)
(* endpoint itself, minutes apart or after an event, when what it finds is *)
(* old.  An answer may take long, and a poll runs beside it.               *)
(*                                                                         *)
(* What the provider would report for an account is a version: a request   *)
(* or the end of a window makes the next one.  A snapshot is a version     *)
(* with the credential it was read under and the time it claims; version 0 *)
(* is a response without quota headers.                                    *)
(***************************************************************************)
EXTENDS Integers, FiniteSets

CONSTANTS
  Accounts,   \* accounts
  Lines,      \* open status lines
  Sessions,   \* those of Lines that show a session
  Together,   \* the lines are in one terminal process
  Requests,   \* requests in flight at once
  Slow,       \* {"response"}: a response may be handled long after it was made
  FreshFor,   \* TUI_QUOTA_SNAPSHOT_FRESH_MS
  MaxVersion, \* bound: versions of an account's quota
  MaxToken,   \* bound: credentials of an account
  MaxClock    \* bound: the last FreshFor ticks of it are calm

VARIABLES
  clock,    \* the time
  now,      \* what the provider would report for an account
  base,     \* history: what it was when a tick began
  token,    \* number of the stored credential
  pool,     \* the stored accounts
  active,   \* the account resolveCodexUsageActiveAccount picks
  shared,   \* the shared cache file
  session,  \* the session files
  kv,       \* each line's key-value cache of its process
  line,     \* what the line shows
  current,  \* currentFingerprint and currentSnapshotRevision
  refresh,  \* refreshQuotaStatusInner in flight
  poll,     \* pollSharedQuotaCache in flight: its target
  response  \* responses not handled yet

vars == <<clock, now, base, token, pool, active, shared, session, kv, line, current,
          refresh, poll, response>>
world == <<now, base, token, pool, active, response>>
views == <<line, current, refresh, poll>>

NoPrint == <<"none", 0>>
NoSnapshot == [print |-> NoPrint, version |-> 0, at |-> -1, source |-> "none"]
NoRefresh == [phase |-> "idle", print |-> NoPrint, at |-> 0, version |-> 0, cached |-> NoSnapshot]
NoTarget == [print |-> NoPrint, session |-> NoSnapshot]
Showing(type, s, stale) == [type |-> type, snap |-> s, stale |-> stale]

Init ==
  /\ clock = 0 /\ now = [a \in Accounts |-> 1]
  /\ base = [a \in Accounts |-> [t \in 0 .. MaxClock |-> 1]]
  /\ token = [a \in Accounts |-> 1] /\ pool = Accounts /\ active \in Accounts
  /\ shared = NoSnapshot
  /\ session = [l \in Sessions |-> NoSnapshot]
  /\ kv = [l \in Lines |-> NoSnapshot]
  /\ line = [l \in Lines |-> Showing("loading", NoSnapshot, FALSE)]
  /\ current = [l \in Lines |-> [print |-> NoPrint, revision |-> <<"none", -1>>]]
  /\ refresh = [l \in Lines |-> [NoRefresh EXCEPT !.phase = "due"]]
  /\ poll = [l \in Lines |-> NoTarget]
  /\ response = [r \in Requests |-> NoSnapshot]

\* createUsageAccountFingerprint: a new credential is a new fingerprint.
Fingerprint(a) == <<a, token[a]>>
Known(print) == \E a \in pool : print = Fingerprint(a)
Revision(s) == <<s.source, s.at>>

Fresh(s) == clock - s.at < FreshFor

-----------------------------------------------------------------------------
(* The readers of the cache files.                                         *)

ReadShared(print) == IF shared.print = print THEN shared ELSE NoSnapshot

\* The account the session last ran on, under its present credential.
Binding(l) ==
  IF l \in Sessions /\ session[l] # NoSnapshot /\ session[l].print[1] \in pool
  THEN [session[l] EXCEPT !.print = Fingerprint(@[1])] ELSE NoSnapshot

ReadSlot(print, s) ==
  IF s.version > 0 /\ s.at >= ReadShared(print).at THEN s ELSE ReadShared(print)

Serving(s) == s.source = "headers" /\ Fresh(s) /\ Known(s.print)

\* resolveQuotaPollTarget
Target(l) ==
  LET b == Binding(l)
  IN IF b # NoSnapshot THEN [print |-> b.print, session |-> b]
     ELSE [NoTarget EXCEPT !.print = IF Serving(shared) THEN shared.print ELSE Fingerprint(active)]

-----------------------------------------------------------------------------
(* applyQuota, and the refresh.                                            *)

Apply(l, view) ==
  /\ line' = [line EXCEPT ![l] = view]
  /\ current' = IF view.type = "unavailable" THEN current
                ELSE [current EXCEPT ![l] = [print |-> view.snap.print, revision |-> Revision(view.snap)]]

\* The interval and the events of the session.
Due(l) ==
  /\ refresh[l].phase = "idle"
  /\ refresh' = [refresh EXCEPT ![l].phase = "due"]
  /\ UNCHANGED <<clock, world, shared, session, kv, line, current, poll>>

Store(l, s) == kv' = [m \in Lines |-> IF m = l \/ Together THEN s ELSE kv[m]]

\* A line that asks for what another one is asking already shares the answer.
Shares(l, m) == m # l /\ Together /\ refresh[m].phase \in {"asked", "served"}
Joined(l) == {m \in Lines : refresh[m].phase = refresh[l].phase
                            /\ (m = l \/ (Together /\ refresh[m].print = refresh[l].print))}

Begin(l) ==
  /\ refresh[l].phase = "due"
  /\ LET b == Binding(l)
         latest == IF b = NoSnapshot THEN shared ELSE ReadSlot(b.print, b)
         print == IF b = NoSnapshot THEN Fingerprint(active) ELSE b.print
         mine == IF b = NoSnapshot THEN ReadShared(print) ELSE latest
         stored == IF kv[l].print = print THEN kv[l] ELSE NoSnapshot
         asking == {m \in Lines : Shares(l, m) /\ refresh[m].print = print}
     IN IF pool = {}
        THEN /\ Apply(l, Showing("missing", NoSnapshot, FALSE))
             /\ refresh' = [refresh EXCEPT ![l] = NoRefresh]
             /\ UNCHANGED kv
        ELSE IF Serving(latest) /\ latest.version > 0
        THEN /\ Apply(l, Showing("ready", latest, FALSE))
             /\ refresh' = [refresh EXCEPT ![l] = NoRefresh]
             /\ Store(l, latest)
        ELSE /\ refresh' = [refresh EXCEPT ![l] =
                  LET own == [phase |-> "asked", print |-> print, at |-> clock, version |-> 0,
                              cached |-> IF mine.at >= stored.at THEN mine ELSE stored]
                  IN IF asking = {} THEN own
                     ELSE LET m == CHOOSE m \in asking : TRUE
                          IN [own EXCEPT !.phase = refresh[m].phase, !.version = refresh[m].version]]
             /\ UNCHANGED <<line, current, kv>>
  /\ UNCHANGED <<clock, world, shared, session, poll>>

\* The provider reads the account; an expired access token is renewed first,
\* which changes the stored credential.
Serve(l) ==
  /\ refresh[l].phase = "asked"
  /\ LET a == refresh[l].print[1]
     IN /\ refresh' = [m \in Lines |-> IF m \in Joined(l)
                                       THEN [refresh[m] EXCEPT !.phase = "served", !.version = now[a]]
                                       ELSE refresh[m]]
        /\ token' \in {t \in {token, [token EXCEPT ![a] = @ + 1]} :
                        t = token \/ (a \in pool /\ t[a] <= MaxToken)}
  /\ UNCHANGED <<clock, now, base, pool, active, response, shared, session, kv, line, current, poll>>

\* Mutant: the reading is stamped when it arrives.
StampedLate(f) == clock

\* A reading is stamped with the time its refresh began.
Stamped(f) == f.at

Answer(f) == [print |-> f.print, version |-> f.version, at |-> Stamped(f), source |-> "usage"]

\* The answer arrives at every line that shares it.  Their equal writes to
\* the shared file within half a second are one, the first.
Answered(l) ==
  /\ refresh[l].phase = "served"
  /\ LET first == CHOOSE m \in Joined(l) : \A n \in Joined(l) : refresh[m].at <= refresh[n].at
         last == CHOOSE m \in Joined(l) : \A n \in Joined(l) : refresh[n].at <= refresh[m].at
         view(m) == Showing("ready", Answer(refresh[m]), FALSE)
     IN /\ line' = [m \in Lines |-> IF m \in Joined(l) THEN view(m) ELSE line[m]]
        /\ current' = [m \in Lines |-> IF m \in Joined(l)
                         THEN [print |-> refresh[m].print, revision |-> Revision(Answer(refresh[m]))]
                         ELSE current[m]]
        /\ shared' = Answer(refresh[first])
        /\ Store(l, Answer(refresh[last]))
        /\ refresh' = [m \in Lines |-> IF m \in Joined(l) THEN NoRefresh ELSE refresh[m]]
  /\ UNCHANGED <<clock, world, session, poll>>

Calm == clock + FreshFor > MaxClock

\* It fails: the cached reading is shown as stale.
Failed(l) ==
  /\ refresh[l].phase \in {"asked", "served"} /\ ~Calm
  /\ LET old(m) == refresh[m].cached
         view(m) == IF old(m) = NoSnapshot THEN Showing("unavailable", NoSnapshot, FALSE)
                    ELSE Showing("ready", old(m), TRUE)
     IN /\ line' = [m \in Lines |-> IF m \in Joined(l) THEN view(m) ELSE line[m]]
        /\ current' = [m \in Lines |-> IF m \in Joined(l) /\ old(m) # NoSnapshot
                         THEN [print |-> old(m).print, revision |-> Revision(old(m))] ELSE current[m]]
        /\ refresh' = [m \in Lines |-> IF m \in Joined(l) THEN NoRefresh ELSE refresh[m]]
  /\ UNCHANGED <<clock, world, shared, session, kv, poll>>

-----------------------------------------------------------------------------
(* pollSharedQuotaCache, each second.                                      *)

\* A different account or credential: the line is blanked and a refresh asked
\* for, unless one is in flight already.
PollTarget(l) ==
  /\ poll[l] = NoTarget
  /\ IF pool = {}
     THEN /\ IF current[l].print = NoPrint THEN UNCHANGED <<line, current>>
             ELSE Apply(l, Showing("missing", NoSnapshot, FALSE))
          /\ UNCHANGED <<refresh, poll>>
     ELSE IF Target(l).print # current[l].print
     THEN /\ current' = [current EXCEPT ![l] = [print |-> Target(l).print, revision |-> <<"none", -1>>]]
          /\ line' = [line EXCEPT ![l] = Showing("loading", NoSnapshot, FALSE)]
          /\ refresh' = [refresh EXCEPT ![l].phase = IF @ = "idle" THEN "due" ELSE @]
          /\ UNCHANGED poll
     ELSE /\ poll' = [poll EXCEPT ![l] = Target(l)]
          /\ UNCHANGED <<line, current, refresh>>
  /\ UNCHANGED <<clock, world, shared, session, kv>>

\* Then the newest cached reading is shown, unless the line has a newer one.
PollShow(l) ==
  /\ poll[l] # NoTarget
  /\ LET s == ReadSlot(poll[l].print, poll[l].session)
     IN IF \/ s.version = 0
           \/ (line[l].type = "ready" /\ s.at < line[l].snap.at)
           \/ Revision(s) = current[l].revision
        THEN UNCHANGED <<line, current, kv>>
        ELSE Apply(l, Showing("ready", s, ~Fresh(s))) /\ Store(l, s)
  /\ poll' = [poll EXCEPT ![l] = NoTarget]
  /\ UNCHANGED <<clock, world, shared, session, refresh>>

-----------------------------------------------------------------------------
(* The request path and everybody else.                                    *)

\* A session's request is served.
Respond(r) ==
  /\ response[r] = NoSnapshot /\ ~Calm
  /\ \E a \in pool :
       /\ now[a] < MaxVersion
       /\ now' = [now EXCEPT ![a] = @ + 1]
       /\ \E version \in {0, now[a] + 1} :
            response' = [response EXCEPT ![r] = [NoSnapshot EXCEPT !.print = Fingerprint(a), !.version = version]]
  /\ UNCHANGED <<clock, base, token, pool, active, shared, session, kv, views>>

\* A response's reading is stamped when its headers are parsed.
Parsed(r) == [response[r] EXCEPT !.at = clock, !.source = "headers"]

\* writeSessionQuotaEntry: the session's file names the account even without
\* a reading.
Filed(s) == IF Sessions = {} THEN {session} ELSE {[session EXCEPT ![l] = s] : l \in Sessions}

\* recordPromptQuotaHeaders: the session's file, and the shared one if there
\* were quota headers.
Record(r) ==
  /\ response[r] # NoSnapshot
  /\ session' \in Filed(Parsed(r))
  /\ shared' = IF Parsed(r).version = 0 THEN shared ELSE Parsed(r)
  /\ active' \in {active} \cup ({Parsed(r).print[1]} \cap pool)
  /\ response' = [response EXCEPT ![r] = NoSnapshot]
  /\ UNCHANGED <<clock, now, base, token, pool, kv, views>>

\* codex-switch: another account, and the shared file is removed.
Switch ==
  /\ ~Calm /\ \E a \in pool \ {active} : active' = a
  /\ shared' = NoSnapshot
  /\ UNCHANGED <<clock, now, base, token, pool, response, session, kv, views>>

\* A window ends at the provider; a credential is rotated; an account is
\* removed.
Lapse ==
  /\ ~Calm /\ \E a \in Accounts : now[a] < MaxVersion /\ now' = [now EXCEPT ![a] = @ + 1]
  /\ UNCHANGED <<clock, base, token, pool, active, response, shared, session, kv, views>>
Rotate ==
  /\ ~Calm /\ \E a \in pool : token[a] < MaxToken /\ token' = [token EXCEPT ![a] = @ + 1]
  /\ UNCHANGED <<clock, now, base, pool, active, response, shared, session, kv, views>>
Remove ==
  /\ ~Calm /\ \E a \in pool : /\ pool' = pool \ {a}
                              /\ active' \in IF pool = {a} THEN {active} ELSE pool \ {a}
  /\ UNCHANGED <<clock, now, base, token, response, shared, session, kv, views>>

Tick ==
  /\ clock < MaxClock
  /\ "response" \in Slow \/ \A r \in Requests : response[r] = NoSnapshot
  /\ clock' = clock + 1
  /\ base' = [a \in Accounts |-> [base[a] EXCEPT ![clock + 1] = now[a]]]
  /\ UNCHANGED <<now, token, pool, active, response, shared, session, kv, views>>

Next ==
  \/ \E l \in Lines : \/ Due(l) \/ Begin(l) \/ Serve(l) \/ Answered(l) \/ Failed(l)
                      \/ PollTarget(l) \/ PollShow(l)
  \/ \E r \in Requests : Respond(r) \/ Record(r)
  \/ Switch \/ Lapse \/ Rotate \/ Remove \/ Tick

Spec == Init /\ [][Next]_vars

\* Timers fire, files are read and the provider answers.
Fairness ==
  /\ WF_vars(Tick) /\ \A r \in Requests : WF_vars(Record(r))
  /\ \A l \in Lines : /\ WF_vars(Due(l)) /\ WF_vars(Begin(l)) /\ WF_vars(Serve(l))
                      /\ WF_vars(Answered(l)) /\ WF_vars(PollTarget(l)) /\ WF_vars(PollShow(l))

FairSpec == Spec /\ Fairness

-----------------------------------------------------------------------------
(* Properties.                                                             *)

Snapshots ==
  {shared} \cup {session[l] : l \in Sessions} \cup {kv[l] : l \in Lines} \cup {line[l].snap : l \in Lines}

\* Types: a line is in one of its states, and only accounts have readings.
TypeOK ==
  /\ clock \in 0 .. MaxClock /\ pool \subseteq Accounts
  /\ \A l \in Lines : /\ line[l].type \in {"loading", "ready", "missing", "unavailable"}
                      /\ refresh[l].phase \in {"idle", "due", "asked", "served"}
  /\ \A s \in Snapshots : s = NoSnapshot \/ s.print[1] \in Accounts

\* No reading claims to be newer than it is: what a snapshot of time t says of
\* an account is at least what was true when t began, so that choosing the
\* snapshot with the later time never prefers the older reading.
HonestStamps ==
  \A s \in Snapshots : s.version > 0 => s.version >= base[s.print[1]][s.at]

\* A line that shows a reading of the account never replaces it by an older one
\* of the same account.
NeverBack ==
  [][\A l \in Lines : (/\ line[l].type = "ready" /\ line'[l].type = "ready"
                       /\ line[l].snap.print = line'[l].snap.print)
                      => line'[l].snap.at >= line[l].snap.at]_vars

\* What a line should show: nothing of an empty pool, else the account of its
\* session, or the active one, as the provider reports it.
Right(l) ==
  IF pool = {} THEN line[l].type = "missing"
  ELSE LET a == IF Binding(l) = NoSnapshot THEN active ELSE Binding(l).print[1]
       IN line[l].type = "ready" /\ line[l].snap.print = Fingerprint(a) /\ line[l].snap.version = now[a]

\* Once requests, rotations and switches end, every line comes to show the right
\* account's present quota and stays with it.
LineSettles == \A l \in Lines : <>[]Right(l)
=============================================================================
