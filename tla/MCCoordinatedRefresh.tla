------------------------ MODULE MCCoordinatedRefresh ------------------------
(* Two plugin processes sharing one storage directory.  Every interleaving *)
(* of the protocol involves a pair: a holder and the process after it.     *)
EXTENDS CoordinatedRefresh, TLC

ProcSymmetry == Permutations(Procs)

(* What a stolen lease and two deaths can leave: the first holder journaled *)
(* 0 -> 1 and committed 1, the thief journaled 1 -> 2 and committed 2, and  *)
(* neither reached the flagged store.  Replay then has a chain to order.    *)
InitChained ==
  /\ live = 2
  /\ lost = FALSE
  /\ record = [s \in Stores |-> IF s = "accounts" THEN 2 ELSE 0]
  /\ fresh = TRUE
  /\ journal = [k \in Tokens |-> IF k < 2 THEN [consumed |-> k, rotated |-> k + 1]
                                        ELSE NoEntry]
  /\ lease = Abandoned
  /\ faults = 0
  /\ pc = [p \in Procs |-> "idle"]
  /\ mem \in [Procs -> {0, 2}]
  /\ call = [p \in Procs |-> NewCall("accounts")]

AnyInit == Init \/ InitChained

AnySpec == AnyInit /\ [][Next]_vars /\ Fairness
=============================================================================
