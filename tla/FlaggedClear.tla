---- MODULE FlaggedClear ----
(***************************************************************************)
(* Starting fresh clears the flagged records, except those another         *)
(* runtime flagged after the wipe was decided (clearFlaggedAccounts with   *)
(* keepFlaggedAtOrAfter).  The store may be a file, a keychain entry or a  *)
(* marker of an interrupted migration, holding records flagged before      *)
(* ("old") or after ("fresh") the cutoff; any step may fail, and the       *)
(* process may die between two.  The storage lease is held throughout.     *)
(***************************************************************************)
EXTENDS Naturals, Sequences

CONSTANTS
    Faults,     \* what may go wrong
    MaxFaults   \* bound: how often

None == [is |-> "none", has |-> {}]
Damaged == [is |-> "damaged", has |-> {}]
Holding(records) == [is |-> "good", has |-> records]
Contents == {Holding(r) : r \in SUBSET {"old", "fresh"}}
Older == Holding({"old"})

VARIABLES
    keychain,   \* CODEX_KEYCHAIN
    file, entry, markers,  \* the places, the markers newest first
    at,         \* the step of the clear
    current,    \* the records the clear works on
    faults,
    loud,       \* the clear logged an error, threw, or left the store alone
    wasFresh    \* history: a fresh record was stored

vars == <<keychain, file, entry, markers, at, current, faults, loud, wasFresh>>

(* The store as a save, an opt-in, a migration that died or a fallback     *)
(* from a refused keychain write leave it.                                 *)
Init ==
    /\ \E c \in Contents :
         \/ /\ keychain = TRUE /\ file = None /\ entry = c
            /\ markers \in {<<>>, <<c>>}
         \/ /\ keychain = TRUE /\ file = c /\ entry = None
            /\ markers \in {<<>>, <<Older>>}
         \/ /\ keychain \in BOOLEAN /\ file = None /\ entry = None
            /\ markers \in {<<c>>, <<c, Older>>, <<Damaged, c>>}
         \/ /\ keychain = FALSE /\ file \in {c, Damaged} /\ entry = None
            /\ markers \in {<<>>, <<Older>>}
    /\ at = "load"
    /\ current = {}
    /\ faults = 0
    /\ loud = FALSE
    /\ wasFresh = \E c \in {file, entry} \cup {markers[i] : i \in DOMAIN markers} :
                    "fresh" \in c.has

Fault(name) == name \in Faults /\ faults < MaxFaults /\ faults' = faults + 1
Fine == UNCHANGED faults

-----------------------------------------------------------------------------
(* The survivor check uses the shared load.  Only a file that cannot be    *)
(* read leaves the store alone; a damaged one has no survivors; a keychain *)
(* or a marker that cannot be read is passed over like a missing one.      *)

(* The newest marker that can be read.                                     *)
FromMarkers(ms) ==
    LET good == {i \in DOMAIN ms : ms[i].is = "good"}
    IN  IF good = {} THEN {}
        ELSE ms[CHOOSE i \in good : \A j \in good : i <= j].has

Loaded == IF keychain /\ entry.is = "good" THEN entry.has
          ELSE CASE file.is = "good" -> file.has
                 [] file.is = "damaged" -> {}
                 [] file.is = "none" -> FromMarkers(markers)

Survivors(records) == records \cap {"fresh"}

Chosen(records) ==
    /\ current' = Survivors(records)
    /\ at' = IF Survivors(records) = {} THEN "unlink file"
             ELSE IF keychain THEN "retire file" ELSE "write file"
    /\ UNCHANGED loud

Load ==
    /\ at = "load"
    /\ \/ Fine /\ Chosen(Loaded)
       \/ /\ keychain /\ entry.is # "none" /\ Fault("locked")
          /\ Chosen(CASE file.is = "good" -> file.has
                      [] file.is = "damaged" -> {}
                      [] file.is = "none" -> FromMarkers(markers))
       \/ /\ ~(keychain /\ entry.is = "good") /\ file.is = "none"
          /\ markers # <<>> /\ Fault("marker lost")
          /\ Chosen(FromMarkers(Tail(markers)))
       \/ /\ ~(keychain /\ entry.is = "good") /\ file.is # "none"
          /\ Fault("unreadable")
          /\ at' = "over" /\ loud' = TRUE /\ UNCHANGED current
    /\ UNCHANGED <<keychain, file, entry, markers, wasFresh>>

-----------------------------------------------------------------------------
(* saveFlaggedAccountsUnlocked with the survivors.                         *)

Goto(step) == at' = step /\ UNCHANGED <<keychain, current, loud, wasFresh>>

(* The file becomes the newest marker before the entry is written; if it   *)
(* cannot be renamed it is overwritten.                                    *)
RetireFile ==
    /\ at = "retire file"
    /\ \/ file = None /\ Fine /\ UNCHANGED <<file, markers>>
       \/ file # None /\ Fine /\ markers' = <<file>> \o markers /\ file' = None
       \/ file # None /\ Fault("rename") /\ file' = Holding(current) /\ UNCHANGED markers
    /\ UNCHANGED entry
    /\ Goto("write entry")

WriteEntry ==
    /\ at = "write entry"
    /\ \/ Fine /\ entry' = Holding(current) /\ Goto("sync markers")
       \/ Fault("refused") /\ UNCHANGED entry /\ Goto("write file, drop entry")
       \/ Fault("transient") /\ UNCHANGED entry /\ Goto("write file")
    /\ UNCHANGED <<file, markers>>

(* The newest marker mirrors the entry, the others go.                     *)
SyncMarkers ==
    /\ at = "sync markers"
    /\ \/ Fine /\ markers' = IF markers = <<>> THEN <<>> ELSE <<Holding(current)>>
       \/ markers # <<>> /\ Fault("marker") /\ markers' = <<>>
    /\ UNCHANGED <<file, entry>>
    /\ Goto("verify entry")

WriteFile ==
    /\ at \in {"write file", "write file, drop entry"}
    /\ Fine
    /\ file' = Holding(current)
    /\ UNCHANGED <<entry, markers>>
    /\ Goto(IF at = "write file" THEN "verify entry" ELSE "drop entry")

DropEntry ==
    /\ at = "drop entry"
    /\ \/ Fine /\ entry' = None
       \/ Fault("kept") /\ UNCHANGED entry
    /\ UNCHANGED <<file, markers>>
    /\ Goto("verify entry")

(* An entry the save could not replace still holds the wiped records: it   *)
(* is deleted when it is not what was saved.                               *)
VerifyEntry ==
    /\ at = "verify entry"
    /\ at' = "retire markers"
    /\ \/ Fine /\ UNCHANGED loud
          /\ entry' = IF keychain /\ entry # Holding(current) THEN None ELSE entry
       \/ /\ keychain /\ entry \notin {None, Holding(current)}
          /\ Fault("kept") /\ loud' = TRUE /\ UNCHANGED entry
    /\ UNCHANGED <<keychain, file, markers, current, wasFresh>>

(* Markers that do not mirror the survivors go; one that stays is logged.  *)
(* The others are all alike.                                               *)
RetireMarkers ==
    /\ at = "retire markers"
    /\ at' = "over"
    /\ LET Kept(m) == m = Holding(current)
       IN  \/ /\ Fine /\ UNCHANGED loud
              /\ markers' = [i \in 1 .. Len(SelectSeq(markers, Kept)) |-> Holding(current)]
           \/ /\ \E i \in DOMAIN markers : ~Kept(markers[i])
              /\ Fault("marker") /\ loud' = TRUE /\ UNCHANGED markers
    /\ UNCHANGED <<keychain, file, entry, current, wasFresh>>

-----------------------------------------------------------------------------
(* No survivors: the file goes first, then the entry, then the markers.    *)

UnlinkFile ==
    /\ at = "unlink file"
    /\ \/ /\ Fine /\ file' = None /\ UNCHANGED loud
          /\ at' = IF keychain THEN "delete entry" ELSE "unlink markers"
       \/ file # None /\ Fault("stuck") /\ at' = "over" /\ loud' = TRUE /\ UNCHANGED file
    /\ UNCHANGED <<keychain, entry, markers, current, wasFresh>>

DeleteEntry ==
    /\ at = "delete entry"
    /\ at' = "unlink markers"
    /\ \/ Fine /\ entry' = None /\ UNCHANGED loud
       \/ entry # None /\ Fault("kept") /\ UNCHANGED entry /\ loud' = TRUE
    /\ UNCHANGED <<keychain, file, markers, current, wasFresh>>

UnlinkMarkers ==
    /\ at = "unlink markers"
    /\ at' = "over"
    /\ \/ Fine /\ markers' = <<>> /\ UNCHANGED loud
       \/ markers # <<>> /\ Fault("marker") /\ UNCHANGED markers /\ loud' = TRUE
    /\ UNCHANGED <<keychain, file, entry, current, wasFresh>>

Crash ==
    /\ at # "over"
    /\ Fault("crash")
    /\ at' = "over" /\ loud' = TRUE
    /\ UNCHANGED <<keychain, file, entry, markers, current, wasFresh>>

Next == \/ Load \/ RetireFile \/ WriteEntry \/ SyncMarkers \/ WriteFile
        \/ DropEntry \/ VerifyEntry \/ RetireMarkers
        \/ UnlinkFile \/ DeleteEntry \/ UnlinkMarkers \/ Crash

Spec == Init /\ [][Next]_vars

-----------------------------------------------------------------------------
Places == {file, entry} \cup {markers[i] : i \in DOMAIN markers}

TypeOK ==
    /\ keychain \in BOOLEAN /\ loud \in BOOLEAN
    /\ Places \subseteq Contents \cup {None, Damaged}
    /\ current \subseteq {"fresh"}
    /\ faults \in 0 .. MaxFaults

(* A record flagged after the wipe was decided is there for every later    *)
(* load, whatever step fails and wherever the clear dies.                  *)
FreshKept == wasFresh => "fresh" \in Loaded

(* A clear that ends without a complaint leaves no record from before the  *)
(* cutoff in any place a load, an opt-out or a rollback reads.             *)
WipeIsWhole ==
    at = "over" /\ ~loud => \A c \in Places : "old" \notin c.has

FlaggedSafe == FreshKept /\ WipeIsWhole
====
