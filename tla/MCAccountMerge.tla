--------------------------- MODULE MCAccountMerge ---------------------------
(* Two managers: a stale one, and the one whose work it could undo.        *)
EXTENDS AccountMerge, TLC

ManagerSymmetry == Permutations(Managers)

Budget(c, q, l) ==
  [k \in Kinds |-> CASE k = "credential" -> c [] k = "quota" -> q [] OTHER -> l]

\* Credentials and quota blocks are separate fields of a record that a save
\* merges independently, so a behaviour is rich in changes of one kind.
PassBudgets == {Budget(3, 0, 2), Budget(0, 3, 2), Budget(1, 1, 2)}
LoginBudgets == {Budget(3, 0, 1)}
ClearBudgets == {Budget(0, 3, 0)}
=============================================================================
