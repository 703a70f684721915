------------------------------ MODULE LoginFlow ------------------------------
(***************************************************************************)
(* How a sign-in reaches the account store (lib/auth/server.ts, loopback-  *)
(* flow.ts, device-code.ts and the auth methods of index.ts).  The host    *)
(* asks an auth method to AUTHORIZE, shows what it returns, and calls back *)
(* later, or never.  The browser methods share one port on two loopback    *)
(* addresses; the methods that persist share the process's storage path.   *)
(*                                                                         *)
(* Sessions are sign-ins; each has a method and the project it was asked   *)
(* for, and "fresh" ones replace the list.  Several may run at a time, in  *)
(* one process.                                                            *)
(***************************************************************************)
EXTENDS Integers

CONSTANTS
  Sessions,  \* sign-ins
  Methods,   \* the auth methods they may use
  Projects,  \* projects with a store of their own
  Fresh,     \* sessions that start afresh
  Wait,      \* polls until a listener gives up
  MaxFlags,  \* bound: accounts flagged by others meanwhile
  MaxClock   \* bound: poll intervals

AllMethods == {"browser", "manual browser", "device", "paste"}
Hosts == {"127.0.0.1", "::1"}
Loopback == {"browser", "manual browser"}

Nobody == "nobody"
Other == "other program"

VARIABLES
  clock,
  session,  \* each sign-in
  owner,    \* who listens on each loopback address
  path,     \* the process's storage path: a project
  pools,    \* whose credentials each project's account list holds
  flagged,  \* each project's flagged accounts, by the order they came in
  flags,    \* accounts flagged so far
  last      \* ghost: what the last step did

vars == <<clock, session, owner, path, pools, flagged, flags, last>>

\* step: where the sign-in is; outcome: what callbackOutcome settled to;
\* page: the browser was told it succeeded; polled: when waitForCode last
\* looked; cutoff: freshCutoff.
Asked(method, project) ==
  [step |-> "idle", method |-> method, project |-> project, code |-> FALSE,
   outcome |-> "none", page |-> FALSE, polled |-> 0, deadline |-> 0, closes |-> 0,
   called |-> FALSE, cutoff |-> 0]

Quiet == [saved |-> "", at |-> "", wiped |-> {}, mixed |-> FALSE]

Init ==
  /\ clock = 0
  /\ \E m \in [Sessions -> Methods] : \E p \in [Sessions -> Projects] :
       session = [s \in Sessions |-> Asked(m[s], p[s])]
  /\ owner \in [Hosts -> {Nobody, Other}]
  /\ path \in Projects
  /\ pools = [p \in Projects |-> {}]
  /\ flagged = [p \in Projects |-> {0}]
  /\ flags = 0
  /\ last = Quiet

To(s, step) == session' = [session EXCEPT ![s].step = step]

Bound(s) == {h \in Hosts : owner[h] = s}

\* closeOnce: the addresses are free again.
Released(s) == [h \in Hosts |-> IF owner[h] = s THEN Nobody ELSE owner[h]]

-----------------------------------------------------------------------------
(* Authorize.                                                              *)

\* The storage path is set to the project of this sign-in.
Pin(s) == path' = session[s].project

\* startLoopbackFlow, startLocalOAuthServer: one free address is enough;
\* without any there is no session and no browser is opened.  The deadline
\* runs from here.
Authorize(s) ==
  /\ session[s].step = "idle"
  /\ session[s].method \in Loopback
  /\ Pin(s)
  /\ LET free == {h \in Hosts : owner[h] = Nobody}
     IN IF free = {}
        THEN To(s, "failed") /\ UNCHANGED owner
        ELSE /\ owner' = [h \in Hosts |-> IF h \in free THEN s ELSE owner[h]]
             /\ session' = [session EXCEPT ![s].step = "open", ![s].polled = clock,
                  ![s].deadline = clock + Wait, ![s].called = session[s].method = "browser"]
  /\ last' = Quiet
  /\ UNCHANGED <<clock, pools, flagged, flags>>

\* createDeviceCodeSession, createAuthorizationFlow: nothing is listened on.
AuthorizeRemote(s) ==
  /\ session[s].step = "idle"
  /\ session[s].method \notin Loopback
  /\ Pin(s)
  /\ \/ session' = [session EXCEPT ![s].step = "open", ![s].deadline = clock + Wait]
     \/ session[s].method = "device" /\ To(s, "failed")
  /\ last' = Quiet
  /\ UNCHANGED <<clock, owner, pools, flagged, flags>>

-----------------------------------------------------------------------------
(* The loopback listener.                                                  *)

\* A browser that signed in for s is sent to localhost.  The listener there
\* takes the code when the state is its own; any other gets an error page.
Heard(s, h) == owner[h] = s

BrowserReturns(s) ==
  /\ session[s].step \in {"open", "done", "failed"}
  /\ session[s].method \in Loopback
  /\ \E h \in Hosts :
       /\ Heard(s, h)
       /\ session' = [session EXCEPT ![owner[h]].code = TRUE, ![owner[h]].page = TRUE]
       /\ last' = [Quiet EXCEPT !.mixed = owner[h] # s]
  /\ UNCHANGED <<clock, owner, path, pools, flagged, flags>>

\* Mutant: the observation starts when the host calls back.
ObservedWhenCalled(s) == session[s].step = "open" /\ session[s].called

\* The observation of the callback starts with the session.
Observed(s) == session[s].step = "open"

\* waitForCode looks every interval, until the deadline.  What it settles to
\* is kept for the host, and the listener is closed.
Poll(s) ==
  /\ Observed(s) /\ session[s].outcome = "none"
  /\ session[s].method \in Loopback
  /\ session[s].polled < clock
  /\ IF clock < session[s].deadline /\ ~session[s].code
     THEN session' = [session EXCEPT ![s].polled = clock] /\ UNCHANGED owner
     ELSE /\ session' = [session EXCEPT ![s].polled = clock, ![s].closes = @ + 1,
               ![s].outcome = IF clock < session[s].deadline THEN "code" ELSE "cancelled"]
          /\ owner' = Released(s)
  /\ last' = Quiet
  /\ UNCHANGED <<clock, path, pools, flagged, flags>>

\* The listeners of this process look before the next interval ends.
Tick ==
  /\ clock < MaxClock
  /\ \A s \in Sessions : Bound(s) # {} /\ Observed(s) => session[s].polled = clock
  /\ clock' = clock + 1
  /\ last' = Quiet
  /\ UNCHANGED <<session, owner, path, pools, flagged, flags>>

\* Another program takes or leaves an address.
OtherProgram(h) ==
  /\ owner[h] \in {Nobody, Other}
  /\ owner' = [owner EXCEPT ![h] = IF @ = Nobody THEN Other ELSE Nobody]
  /\ last' = Quiet
  /\ UNCHANGED <<clock, session, path, pools, flagged, flags>>

-----------------------------------------------------------------------------
(* The host's callback.                                                    *)

\* The host calls back, once, at any time; it may never do so.
Call(s) ==
  /\ session[s].step = "open" /\ ~session[s].called
  /\ session' = [session EXCEPT ![s].called = TRUE]
  /\ last' = Quiet
  /\ UNCHANGED <<clock, owner, path, pools, flagged, flags>>

\* manualInputRejection: of a paste, what carries this attempt's state; a link
\* of another attempt, a bare code or a text without one is refused.
PasteTaken(s, of) == of = s

\* A device code is polled while it is pending, until it is granted, refused
\* or too old.
DeviceGranted(s) == clock < session[s].deadline

HasCode(s, of) ==
  CASE session[s].method \in Loopback -> session[s].outcome = "code"
    [] session[s].method = "paste" -> PasteTaken(s, of)
    [] session[s].method = "device" -> DeviceGranted(s)

\* A code is exchanged, which may fail; without one the sign-in fails.
Exchange(s) ==
  /\ session[s].step = "open" /\ session[s].called
  /\ session[s].method \in Loopback => session[s].outcome # "none"
  /\ \E of \in Sessions \cup {Nobody} :
       \/ /\ HasCode(s, of)
          /\ session' = [session EXCEPT ![s].step = "exchanged", ![s].cutoff = flags]
          /\ last' = [Quiet EXCEPT !.mixed = session[s].method = "paste" /\ of # s]
       \/ To(s, "failed") /\ last' = Quiet
  /\ UNCHANGED <<clock, owner, path, pools, flagged, flags>>

\* Only the interactive menu, and its paste variant, can start afresh.
StartsAfresh(s) == s \in Fresh /\ session[s].method \in {"browser", "paste"}

\* persistAuthenticatedSelections: the list of the storage path is written; a
\* failure is shown and the sign-in counts as done.
Save(s) ==
  /\ session[s].step = "exchanged"
  /\ \/ /\ pools' = [pools EXCEPT ![path] = IF StartsAfresh(s) THEN {s} ELSE @ \cup {s}]
        /\ To(s, IF StartsAfresh(s) THEN "saved" ELSE "done")
        /\ last' = [Quiet EXCEPT !.saved = s, !.at = path]
     \/ To(s, "done") /\ last' = Quiet /\ UNCHANGED pools
  /\ UNCHANGED <<clock, owner, path, flagged, flags>>

\* clearFlaggedAccounts, keepFlaggedAtOrAfter
Kept(s) == {f \in flagged[path] : f > session[s].cutoff}

\* A fresh sign-in then clears the flagged accounts of the storage path; a
\* failure is shown.
Clear(s) ==
  /\ session[s].step = "saved"
  /\ \/ /\ flagged' = [flagged EXCEPT ![path] = Kept(s)]
        /\ last' = [Quiet EXCEPT !.saved = s, !.at = path,
                                 !.wiped = {f \in flagged[path] \ Kept(s) : f > session[s].cutoff}]
     \/ UNCHANGED flagged /\ last' = Quiet
  /\ To(s, "done")
  /\ UNCHANGED <<clock, owner, path, pools, flags>>

\* Another runtime flags an account.
Flag(p) ==
  /\ flags < MaxFlags
  /\ flags' = flags + 1
  /\ flagged' = [flagged EXCEPT ![p] = @ \cup {flags + 1}]
  /\ last' = Quiet
  /\ UNCHANGED <<clock, session, owner, path, pools>>

Next ==
  \/ \E s \in Sessions :
       \/ Authorize(s) \/ AuthorizeRemote(s) \/ BrowserReturns(s) \/ Poll(s)
       \/ Call(s) \/ Exchange(s) \/ Save(s) \/ Clear(s)
  \/ \E h \in Hosts : OtherProgram(h)
  \/ \E p \in Projects : Flag(p)
  \/ Tick

Spec == Init /\ [][Next]_vars

\* Timers fire; nobody is obliged to open a browser or to call back.
Fairness == WF_vars(Tick) /\ \A s \in Sessions : WF_vars(Poll(s))

FairSpec == Spec /\ Fairness

-----------------------------------------------------------------------------
(* Properties.                                                             *)

\* Types: a session is at one step of the flow and an address has one owner.
TypeOK ==
  /\ clock \in 0 .. MaxClock /\ flags \in 0 .. MaxFlags
  /\ \A s \in Sessions :
       /\ session[s].step \in {"idle", "open", "exchanged", "saved", "done", "failed"}
       /\ session[s].method \in Methods /\ session[s].project \in Projects
       /\ session[s].outcome \in {"none", "code", "cancelled"}
       /\ session[s].deadline \in 0 .. MaxClock + Wait
  /\ owner \in [Hosts -> Sessions \cup {Nobody, Other}]
  /\ path \in Projects
  /\ pools \in [Projects -> SUBSET Sessions]
  /\ flagged \in [Projects -> SUBSET (0 .. MaxFlags)]

\* The port belongs to sign-ins that still wait for it, and each gives it back
\* exactly once, on every path out of the flow (closeOnce).
PortHeldByWaiting ==
  \A s \in Sessions :
    /\ Bound(s) # {} => session[s].step = "open" /\ session[s].outcome = "none"
    /\ session[s].closes = (IF session[s].outcome = "none" THEN 0 ELSE 1)

\* A callback never completes the sign-in of another session (the state is
\* compared before the code is taken, server.ts).
NoCrossedCodes == ~last.mixed

\* What others flag while a fresh sign-in is being saved outlives the clear
\* (freshCutoff, clearFlaggedAccounts).
LateFlagsSurvive == last.wiped = {}

\* Credentials are saved, and flagged accounts cleared, in the project that
\* was asked for: the path is set on authorize for the callback to find.
SavedWhereAsked == last.saved # "" => last.at = session[last.saved].project

\* A browser that was told the sign-in succeeded was told the truth: the code
\* it brought is what the session settles to.
PageIsTrue == \A s \in Sessions : session[s].page => session[s].outcome # "cancelled"

\* The flow's promises together; where credentials go is kept for one project.
FlowSafe ==
  /\ PortHeldByWaiting
  /\ NoCrossedCodes
  /\ LateFlagsSurvive
  /\ (\A p, q \in Projects : p = q) => SavedWhereAsked

\* An authorization the host abandons still gives the port back (the
\* observation starts with the session, loopback-flow.ts).
PortComesBack ==
  \A s \in Sessions : Bound(s) # {} /\ session[s].deadline <= MaxClock ~> Bound(s) = {}
=============================================================================
