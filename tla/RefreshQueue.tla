---------------------------- MODULE RefreshQueue ----------------------------
(***************************************************************************)
(* The queue every token exchange of a process goes through                *)
(* (lib/refresh-queue.ts).  A caller joins the exchange of its token that  *)
(* is in flight, gets the result of one that just rotated it, or starts    *)
(* one.  The provider accepts a refresh token once.                        *)
(*                                                                         *)
(* Tokens are numbers: the exchange of the live token t makes t + 1 live.  *)
(***************************************************************************)
EXTENDS Integers, Sequences, FiniteSets

CONSTANTS
  Callers,
  MaxAge,       \* maxEntryAgeMs, in ticks
  MaxToken,     \* bound: tokens
  MaxExchanges, \* bound: exchanges started
  MaxClock      \* bound: ticks

VARIABLES
  clock,
  live,       \* the token the provider would accept
  exchanges,  \* the exchanges started, in order
  pending,    \* token -> the exchange callers of it join; 0: none
  rotation,   \* token -> the token it was rotated to; 0: none
  recent,     \* token -> the exchange that rotated it lately; 0: none
  calls       \* caller -> what it waits for, or got

vars == <<clock, live, exchanges, pending, rotation, recent, calls>>

Tokens == 1..MaxToken

NoCall == [token |-> 0, live |-> FALSE, waits |-> 0, got |-> "nothing"]

Init ==
  /\ clock = 0 /\ live = 1
  /\ exchanges = <<>>
  /\ pending = [t \in Tokens |-> 0]
  /\ rotation = [t \in Tokens |-> 0]
  /\ recent = [t \in Tokens |-> 0]
  /\ calls = [c \in Callers |-> NoCall]

(***************************************************************************)
(* Cleanup: entries of a stuck exchange, and old rotations, are forgotten. *)
(***************************************************************************)
TooOld(since) == clock - since > MaxAge

Fresh(t) == IF pending[t] # 0 /\ TooOld(exchanges[pending[t]].started) THEN 0 ELSE pending[t]

StillRecent(t) == IF recent[t] # 0 /\ TooOld(exchanges[recent[t]].ended) THEN 0 ELSE recent[t]

CleanPending == [t \in Tokens |-> Fresh(t)]

Cleanup ==
  /\ pending' = CleanPending
  /\ recent' = [t \in Tokens |-> StillRecent(t)]

\* The exchange in flight of the token that t was rotated from.
Joinable(t) == {CleanPending[o] : o \in {u \in Tokens : rotation[u] = t}} \ {0}

\* The tokens this process was ever given: it may still hold any of them.
Given == {1} \cup {exchanges[e].token + 1 : e \in {f \in DOMAIN exchanges : exchanges[f].rotated}}

(***************************************************************************)
(* A caller asks for a refresh of a token it holds: the newest one, or one *)
(* that it read before a rotation.                                         *)
(***************************************************************************)
Waits(c, t, e) ==
  calls' = [calls EXCEPT ![c] = [token |-> t, live |-> t = live, waits |-> e, got |-> "nothing"]]

Join(c, t) ==
  /\ Cleanup
  /\ \/ CleanPending[t] # 0 /\ Waits(c, t, CleanPending[t])
     \/ /\ CleanPending[t] = 0 /\ StillRecent(t) = 0
        /\ \E e \in Joinable(t) : Waits(c, t, e)
  /\ UNCHANGED <<clock, live, exchanges, rotation>>

Reuse(c, t) ==
  /\ Cleanup
  /\ CleanPending[t] = 0 /\ StillRecent(t) # 0
  /\ calls' = [calls EXCEPT ![c] = [token |-> t, live |-> t = live, waits |-> 0, got |-> "tokens"]]
  /\ UNCHANGED <<clock, live, exchanges, rotation>>

Start(c, t) ==
  LET e == Len(exchanges) + 1
  IN /\ CleanPending[t] = 0 /\ StillRecent(t) = 0 /\ Joinable(t) = {}
     /\ e <= MaxExchanges
     /\ exchanges' = Append(exchanges,
          [token |-> t, started |-> clock, answer |-> "none", ended |-> -1, rotated |-> FALSE])
     /\ pending' = [CleanPending EXCEPT ![t] = e]
     /\ recent' = [u \in Tokens |-> StillRecent(u)]
     /\ Waits(c, t, e)
     /\ UNCHANGED <<clock, live, rotation>>

\* Mutant: the pending entry is not looked at.
AskUnqueued(c) ==
  /\ calls[c].waits = 0
  /\ \E t \in Given : Start(c, t) \/ Reuse(c, t)
       \/ /\ pending[t] # 0 /\ Len(exchanges) < MaxExchanges
          /\ exchanges' = Append(exchanges,
               [token |-> t, started |-> clock, answer |-> "none", ended |-> -1, rotated |-> FALSE])
          /\ Waits(c, t, Len(exchanges'))
          /\ UNCHANGED <<clock, live, pending, rotation, recent>>

Ask(c) ==
  /\ calls[c].waits = 0
  /\ \E t \in Given : Join(c, t) \/ Reuse(c, t) \/ Start(c, t)

(***************************************************************************)
(* The provider handles an exchange; it may do so twice to no effect.      *)
(***************************************************************************)
Flying(e) == exchanges[e].ended = -1

Provider(e) ==
  /\ Flying(e) /\ exchanges[e].answer = "none"
  /\ exchanges[e].token = live => live < MaxToken
  /\ IF exchanges[e].token = live
       THEN /\ live' = live + 1
            /\ exchanges' = [exchanges EXCEPT ![e].answer = "tokens"]
       ELSE /\ exchanges' = [exchanges EXCEPT ![e].answer = "rejected"]
            /\ UNCHANGED live
  /\ UNCHANGED <<clock, pending, rotation, recent, calls>>

(***************************************************************************)
(* The answer arrives, or the connection fails before or after the         *)
(* provider handled the request.  An entry is removed by identity: it may  *)
(* belong to a later exchange of the same token.                           *)
(***************************************************************************)
Settled(e, got) ==
  calls' = [c \in Callers |->
              IF calls[c].waits = e THEN [calls[c] EXCEPT !.waits = 0, !.got = got] ELSE calls[c]]

Forget(r, t) == [o \in Tokens |-> IF o = t \/ r[o] = t THEN 0 ELSE r[o]]

Settle(e) ==
  LET x == exchanges[e]
  IN /\ Flying(e)
     /\ \E got \in {"error"} \cup ({x.answer} \ {"none"}) :
          LET rotates == got = "tokens"
              mapped == IF rotates THEN [rotation EXCEPT ![x.token] = x.token + 1] ELSE rotation
          IN /\ exchanges' = [exchanges EXCEPT ![e].ended = clock, ![e].rotated = rotates]
             /\ recent' = IF rotates THEN [recent EXCEPT ![x.token] = e] ELSE recent
             /\ IF pending[x.token] = e
                  THEN /\ pending' = [pending EXCEPT ![x.token] = 0]
                       /\ rotation' = Forget(mapped, x.token)
                  ELSE /\ rotation' = mapped
                       /\ UNCHANGED pending
             /\ Settled(e, got)
     /\ UNCHANGED <<clock, live>>

Tick ==
  /\ clock < MaxClock
  /\ clock' = clock + 1
  /\ UNCHANGED <<live, exchanges, pending, rotation, recent, calls>>

Next ==
  \/ \E c \in Callers : Ask(c)
  \/ \E e \in DOMAIN exchanges : Provider(e) \/ Settle(e)
  \/ Tick

Spec == Init /\ [][Next]_vars

-----------------------------------------------------------------------------
TypeOK ==
  /\ clock \in 0..MaxClock /\ live \in Tokens
  /\ \A t \in Tokens :
       /\ {pending[t], recent[t]} \subseteq 0..Len(exchanges)
       /\ rotation[t] \in {0, t + 1}
       /\ pending[t] # 0 => exchanges[pending[t]].token = t /\ Flying(pending[t])
       /\ recent[t] # 0 => exchanges[recent[t]].token = t /\ exchanges[recent[t]].rotated
  /\ \A c \in Callers : calls[c].waits # 0 => Flying(calls[c].waits)

(***************************************************************************)
(* A refresh token is exchanged again only when its last exchange failed,  *)
(* or is older than MaxAge: neither a stuck exchange that settles late nor *)
(* one that settled meanwhile lets two of them run within that time.       *)
(***************************************************************************)
ExchangesSpaced ==
  \A e, f \in DOMAIN exchanges :
    e < f /\ exchanges[e].token = exchanges[f].token =>
      LET x == exchanges[e]
          since == exchanges[f].started
          unsettled == x.ended = -1 \/ x.ended > since \/ (x.rotated /\ x.ended = since)
      IN /\ unsettled => since - x.started > MaxAge
         /\ ~unsettled /\ x.rotated => since - x.ended > MaxAge

(***************************************************************************)
(* While no exchange outlasts MaxAge, a caller is told that its token was  *)
(* rejected, which flags the account, only if the token was consumed       *)
(* before the caller asked.                                                *)
(***************************************************************************)
Prompt ==
  \A e \in DOMAIN exchanges :
    (IF Flying(e) THEN clock ELSE exchanges[e].ended) - exchanges[e].started <= MaxAge

RejectedOnlyIfSpent ==
  Prompt => \A c \in Callers : calls[c].got = "rejected" => ~calls[c].live

QueueSafe == ExchangesSpaced /\ RejectedOnlyIfSpent
=============================================================================
