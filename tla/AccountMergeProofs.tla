------------------------- MODULE AccountMergeProofs -------------------------
(***************************************************************************)
(* Why a stale manager's save undoes nothing.  What a save writes was      *)
(* merged with the record that is still on disk, since nothing else writes *)
(* while it holds the storage lock; and of all the copies that a save may  *)
(* still write, those with the newest token carry the newest stamps.       *)
(***************************************************************************)
EXTENDS AccountMerge, TLAPS

Writing(m) == save[m].phase = "writing"

\* What is about to be written agrees with the record it was merged with.
WriteInv ==
  \A m \in Managers : Writing(m) =>
    /\ save[m].keep = present
    /\ \/ save[m].out.enabled = disk.enabled
       \/ disk.enabled /\ disk.token = marked[m]
    /\ disk.until > now => save[m].out.until >= disk.until
    /\ disk.cleared # None => save[m].out.until = None \/ save[m].out.at > disk.cleared

\* A manager disables its copy once, for the token it then has.
MarkInv == \A m \in Managers : marked[m] # NoToken => ~mem[m].enabled

OneOfBoth(r) == r.until = None \/ r.cleared = None

CopyInv ==
  /\ OneOfBoth(disk)
  /\ \A m \in Managers :
       OneOfBoth(mem[m]) /\ OneOfBoth(save[m].snap) /\ OneOfBoth(save[m].out)

MergeInv == TypeOK /\ WriteInv /\ MarkInv /\ CopyInv

-----------------------------------------------------------------------------
\* The credentials that a save may still write.
Cred(r) == [token |-> r.token, stamp |-> r.stamp]

Held(m) ==
  (IF retired[m] THEN {} ELSE {Cred(mem[m])})
    \cup (IF ~retired[m] /\ save[m].phase = "queued" THEN {Cred(save[m].snap)} ELSE {})
    \cup (IF Writing(m) THEN {Cred(save[m].out)} ELSE {})

Copies == {Cred(disk)} \cup UNION {Held(m) : m \in Managers}

CredInv ==
  /\ disk.token = issued
  /\ \A m \in Managers : Writing(m) => save[m].out.token = issued
  /\ \A c \in Copies : c.token <= issued /\ c.stamp <= now
  /\ \A c, d \in Copies : c.token < issued /\ d.token = issued => c.stamp < d.stamp
  /\ \A m \in Managers : ~retired[m] => adopting[m] \in {NoToken, issued}

-----------------------------------------------------------------------------
(* The operators of a merge.                                               *)

LEMMA NextStampIs ==
  ASSUME NEW time \in Nat, NEW stamp \in Nat
  PROVE  /\ NextStamp(time, stamp) \in Nat
         /\ NextStamp(time, stamp) >= time /\ NextStamp(time, stamp) > stamp
         /\ stamp < time => NextStamp(time, stamp) = time
<1> DEFINE both == {time, stamp + 1}
<1>1. \E x \in both : \A y \in both : x >= y
  <2>1. CASE time >= stamp + 1 BY <2>1
  <2>2. CASE stamp + 1 >= time BY <2>2
  <2> QED  BY <2>1, <2>2
<1> HIDE DEF both
<1>2. Max(both) \in both /\ \A y \in both : Max(both) >= y
  BY <1>1, Zenon DEF Max
<1>3. NextStamp(time, stamp) \in both /\ \A y \in both : NextStamp(time, stamp) >= y
  BY <1>2 DEF NextStamp, both
<1> QED  BY <1>3 DEF both

\* A record with another quota block.
Blocked(r, until, at, cleared) ==
  [r EXCEPT !.until = until, !.at = at, !.cleared = cleared]

LEMMA WithBlock ==
  ASSUME NEW r \in Records, NEW until \in Nat, NEW at \in Nat, NEW cleared \in Nat
  PROVE  Blocked(r, until, at, cleared) \in Records
BY DEF Records, Blocked

LEMMA BlockFields ==
  ASSUME NEW r \in Records, NEW until, NEW at, NEW cleared
  PROVE  /\ Blocked(r, until, at, cleared).until = until
         /\ Blocked(r, until, at, cleared).at = at
         /\ Blocked(r, until, at, cleared).cleared = cleared
         /\ Blocked(r, until, at, cleared).enabled = r.enabled
         /\ Blocked(r, until, at, cleared).token = r.token
         /\ Blocked(r, until, at, cleared).stamp = r.stamp
BY DEF Records, Blocked

\* A record with another credential.
WithToken(r, token, stamp) == [r EXCEPT !.token = token, !.stamp = stamp]

LEMMA TokenFields ==
  ASSUME NEW r \in Records, NEW token, NEW stamp
  PROVE  /\ WithToken(r, token, stamp).token = token
         /\ WithToken(r, token, stamp).stamp = stamp
         /\ WithToken(r, token, stamp).until = r.until
         /\ WithToken(r, token, stamp).at = r.at
         /\ WithToken(r, token, stamp).cleared = r.cleared
         /\ WithToken(r, token, stamp).enabled = r.enabled
BY DEF Records, WithToken

LEMMA FieldsAreNumbers ==
  ASSUME NEW r \in Records
  PROVE  /\ r.token \in Nat /\ r.stamp \in Nat /\ r.enabled \in BOOLEAN
         /\ r.until \in Nat /\ r.at \in Nat /\ r.cleared \in Nat
BY DEF Records

\* A full merge: the blocks and clears on disk are respected, enabled comes
\* from there, and of the two credentials the newer stays.
LEMMA FullMergeIs ==
  ASSUME TypeOK, OneOfBoth(disk), NEW m \in Managers, OneOfBoth(save[m].snap)
  PROVE  /\ FullMerge(m) \in Records
         /\ FullMerge(m).enabled = EnabledAfter(m)
         /\ OneOfBoth(FullMerge(m))
         /\ disk.until > now => FullMerge(m).until >= disk.until
         /\ disk.cleared # None => FullMerge(m).until = None \/ FullMerge(m).at > disk.cleared
         /\ Cred(FullMerge(m)) =
              IF DiskIsNewer(save[m].snap) THEN Cred(disk) ELSE Cred(save[m].snap)
<1> DEFINE mine == save[m].snap
           r1 == ApplyTombstone(mine)
           r2 == AdoptLongerBlock(r1)
           r3 == AdoptNewerCredentials(r2)
           r4 == [r3 EXCEPT !.enabled = EnabledAfter(m)]
<1>1. disk \in Records /\ mine \in Records /\ now \in Nat /\ FullMerge(m) = r4
  BY DEF TypeOK, FullMerge
<1>2. EnabledAfter(m) \in BOOLEAN
  BY DEF EnabledAfter
<1> HIDE DEF mine
<1>3. /\ r1 \in Records /\ OneOfBoth(r1)
      /\ r1.token = mine.token /\ r1.stamp = mine.stamp
      /\ disk.cleared # None => r1.until = None \/ r1.at > disk.cleared
  <2>1. OneOfBoth(mine)
    BY DEF mine
  <2>2. /\ mine.until \in Nat /\ mine.at \in Nat /\ mine.cleared \in Nat
        /\ disk.until \in Nat /\ disk.at \in Nat /\ disk.cleared \in Nat
    BY <1>1, FieldsAreNumbers
  <2>3. CASE disk.cleared # None /\ mine.until # None /\ mine.at <= disk.cleared
    <3>1. r1 = Blocked(mine, 0, 0, disk.cleared)
      BY <2>3 DEF ApplyTombstone, None, Blocked
    <3>2. r1 \in Records
      <4>1. 0 \in Nat
        OBVIOUS
      <4> QED  BY <1>1, <2>2, <3>1, <4>1, WithBlock, ZenonT(60)
    <3>3. /\ r1.until = 0 /\ r1.at = 0 /\ r1.cleared = disk.cleared
          /\ r1.token = mine.token /\ r1.stamp = mine.stamp
      BY <1>1, <3>1, BlockFields
    <3> QED  BY <3>2, <3>3 DEF OneOfBoth, None
  <2>4. CASE ~ (disk.cleared # None /\ mine.until # None /\ mine.at <= disk.cleared)
    <3>1. r1 = mine
      BY <2>4 DEF ApplyTombstone
    <3> QED  BY <1>1, <2>1, <2>2, <2>4, <3>1
  <2> QED  BY <2>3, <2>4
<1> HIDE DEF r1
<1>4. /\ r2 \in Records /\ OneOfBoth(r2)
      /\ r2.token = mine.token /\ r2.stamp = mine.stamp
      /\ disk.cleared # None => r2.until = None \/ r2.at > disk.cleared
      /\ disk.until > now => r2.until >= disk.until
  <2>1. /\ r1.until \in Nat /\ r1.at \in Nat /\ r1.cleared \in Nat
        /\ disk.until \in Nat /\ disk.at \in Nat /\ disk.cleared \in Nat
    BY <1>1, <1>3, FieldsAreNumbers
  <2>2. CASE disk.until > now /\ disk.until > r1.until
    <3>1. r2 = Blocked(r1, disk.until, disk.at, 0)
      BY <2>2 DEF AdoptLongerBlock, None, Blocked
    <3>2. disk.cleared = None
      BY <1>1, <2>1, <2>2 DEF OneOfBoth, None
    <3>3. r2 \in Records
      BY <1>3, <2>1, <3>1, WithBlock
    <3>4. /\ r2.until = disk.until /\ r2.at = disk.at /\ r2.cleared = 0
          /\ r2.token = r1.token /\ r2.stamp = r1.stamp
      BY <1>3, <3>1, BlockFields
    <3> QED  BY <1>3, <2>1, <3>2, <3>3, <3>4 DEF OneOfBoth, None
  <2>3. CASE ~ (disk.until > now /\ disk.until > r1.until)
    <3>1. r2 = r1
      BY <2>3 DEF AdoptLongerBlock
    <3> QED  BY <1>1, <1>3, <2>1, <2>3, <3>1
  <2> QED  BY <2>2, <2>3
<1> HIDE DEF r2
<1>5. /\ r3 \in Records /\ r3.until = r2.until /\ r3.at = r2.at /\ r3.cleared = r2.cleared
      /\ Cred(r3) = IF DiskIsNewer(mine) THEN Cred(disk) ELSE Cred(mine)
  BY <1>1, <1>4 DEF AdoptNewerCredentials, DiskIsNewer, Records, Cred
<1> HIDE DEF r3
<1>6. /\ r4 \in Records /\ r4.enabled = EnabledAfter(m)
      /\ r4.until = r3.until /\ r4.at = r3.at /\ r4.cleared = r3.cleared
      /\ Cred(r4) = Cred(r3)
  BY <1>2, <1>5 DEF Records, Cred
<1> HIDE DEF r4
<1> QED  BY <1>1, <1>4, <1>5, <1>6 DEF OneOfBoth, mine

\* The merge of a replaced manager adds a block at most.
LEMMA VolatileMergeIs ==
  ASSUME TypeOK, OneOfBoth(disk), NEW m \in Managers
  PROVE  /\ VolatileMerge(m) \in Records
         /\ VolatileMerge(m).enabled = disk.enabled
         /\ OneOfBoth(VolatileMerge(m))
         /\ VolatileMerge(m).until >= disk.until
         /\ disk.cleared # None =>
              VolatileMerge(m).until = None \/ VolatileMerge(m).at > disk.cleared
         /\ Cred(VolatileMerge(m)) = Cred(disk)
<1>1. disk \in Records /\ mem[m] \in Records /\ now \in Nat
  BY DEF TypeOK
<1>2. CASE VolatileMerge(m) = disk BY <1>1, <1>2 DEF Records, OneOfBoth, None
<1>3. CASE /\ VolatileMerge(m) = Carried(mem[m])
           /\ mem[m].until > disk.until
           /\ disk.cleared = None \/ mem[m].at > disk.cleared
  <2>1. Carried(mem[m]) = Blocked(disk, mem[m].until, mem[m].at, 0)
    BY DEF Carried, Blocked, None
  <2>2. Carried(mem[m]) \in Records
    <3>1. mem[m].until \in Nat /\ mem[m].at \in Nat
      BY <1>1, FieldsAreNumbers
    <3> QED  BY <1>1, <2>1, <3>1, WithBlock
  <2>5. /\ Carried(mem[m]).until = mem[m].until
        /\ Carried(mem[m]).at = mem[m].at /\ Carried(mem[m]).cleared = None
        /\ Carried(mem[m]).enabled = disk.enabled
        /\ Carried(mem[m]).token = disk.token /\ Carried(mem[m]).stamp = disk.stamp
    BY <1>1, <2>1, BlockFields DEF None
  <2>3. mem[m].until \in Nat /\ disk.until \in Nat
    BY <1>1 DEF Records
  <2> QED  BY <1>3, <2>2, <2>3, <2>5 DEF OneOfBoth, Cred
<1> QED  BY <1>2, <1>3 DEF VolatileMerge

-----------------------------------------------------------------------------
(* The types, and the storage lock.                                        *)

SaveStates ==
  [phase : {"idle", "queued", "writing"}, snap : Records, out : Records,
   keep : BOOLEAN, full : BOOLEAN]

OneWrites == \A m, n \in Managers : Writing(m) /\ Writing(n) => m = n

LEMMA BlankIs ==
  /\ \A t \in Nat : Blank(t) \in Records /\ OneOfBoth(Blank(t))
  /\ Idle \in SaveStates /\ Idle.phase = "idle"
  /\ OneOfBoth(Idle.snap) /\ OneOfBoth(Idle.out)
BY DEF Blank, Records, OneOfBoth, Idle, SaveStates, None

LEMMA SpendTypes ==
  ASSUME left \in [Kinds -> Nat], NEW kind \in Kinds, Spend(kind)
  PROVE  left' \in [Kinds -> Nat]
BY DEF Spend

LEMMA ExchangeTypes ==
  ASSUME TypeOK, Exchange
  PROVE  /\ now' = now + 1 /\ now' \in 1 .. MaxTime /\ issued' = issued + 1 /\ disk' \in Records
         /\ disk'.token = issued + 1 /\ disk'.stamp >= now'
         /\ disk.stamp <= now => disk'.stamp = now'
         /\ OneOfBoth(disk) => OneOfBoth(disk')
<1>1. now \in Nat /\ issued \in Nat /\ disk \in Records /\ now + 1 <= MaxTime /\ MaxTime \in Nat
  BY MergeAssumption DEF TypeOK, Exchange, MayExchange
<1>2. disk.stamp \in Nat
  BY <1>1, FieldsAreNumbers
<1> DEFINE stamp == NextStamp(now + 1, disk.stamp)
<1>3. stamp \in Nat /\ stamp >= now + 1 /\ (disk.stamp < now + 1 => stamp = now + 1)
  <2>1. now + 1 \in Nat
    BY <1>1
  <2> QED  BY <1>2, <2>1, NextStampIs, Zenon
<1>4. disk' = [disk EXCEPT !.token = issued + 1, !.stamp = stamp]
      /\ now' = now + 1 /\ issued' = issued + 1
  BY DEF Exchange
<1> HIDE DEF stamp
<1>5. /\ disk' \in Records /\ disk'.token = issued + 1 /\ disk'.stamp = stamp
      /\ disk'.until = disk.until /\ disk'.cleared = disk.cleared
  <2>1. issued + 1 \in Nat
    BY <1>1
  <2>2. disk' \in Records
    BY <1>1, <1>3, <1>4, <2>1 DEF Records
  <2>3. disk' = WithToken(disk, issued + 1, stamp)
    BY <1>4 DEF WithToken
  <2> QED BY <1>1, <2>2, <2>3, TokenFields
<1> QED BY <1>1, <1>2, <1>3, <1>4, <1>5 DEF OneOfBoth

Types ==
  /\ MaxTime \in Nat
  /\ now \in 1 .. MaxTime /\ issued \in Nat /\ lastClear \in Nat
  /\ present \in BOOLEAN /\ disk \in Records
  /\ mem \in [Managers -> Records]
  /\ marked \in [Managers -> Nat \cup {NoToken}]
  /\ adopting \in [Managers -> Nat \cup {NoToken}]
  /\ retired \in [Managers -> BOOLEAN]
  /\ superseded \in [Managers -> Stamps]
  /\ save \in [Managers -> SaveStates]
  /\ left \in [Kinds -> Nat]
  /\ OneWrites

LEMMA TypesAre == TypeOK <=> Types
BY MergeAssumption DEF TypeOK, Types, SaveStates, OneWrites, Writing

LEMMA CopyTypes ==
  ASSUME Types
  PROVE  /\ disk.token \in Nat /\ disk.stamp \in Nat /\ disk.until \in Nat
         /\ disk.at \in Nat /\ disk.cleared \in Nat /\ disk.enabled \in BOOLEAN
         /\ \A m \in Managers :
              /\ mem[m] \in Records /\ mem[m].token \in Nat /\ mem[m].stamp \in Nat
              /\ mem[m].until \in Nat /\ mem[m].at \in Nat /\ mem[m].cleared \in Nat
              /\ save[m] \in SaveStates
              /\ save[m].snap \in Records /\ save[m].out \in Records
BY FieldsAreNumbers DEF Types, SaveStates

LEMMA MergedTypes ==
  ASSUME MergeInv, NEW m \in Managers
  PROVE  (IF retired[m] THEN VolatileMerge(m) ELSE FullMerge(m)) \in Records
<1>1. TypeOK /\ OneOfBoth(disk) /\ OneOfBoth(save[m].snap)
  BY DEF MergeInv, CopyInv
<1>2. VolatileMerge(m) \in Records
  BY <1>1, VolatileMergeIs
<1>3. FullMerge(m) \in Records
  BY <1>1, FullMergeIs
<1> QED  BY <1>2, <1>3

LEMMA SaveTypes ==
  ASSUME MergeInv, NEW m \in Managers, CallSave(m) \/ Merge(m) \/ Persist(m)
  PROVE  Types'
<1>1. Types
  BY TypesAre DEF MergeInv
<1> USE <1>1 DEF Types
<1>2. CASE CallSave(m)
  <2>1. [Idle EXCEPT !.phase = "queued", !.snap = mem[m]] \in SaveStates
    BY BlankIs, CopyTypes DEF SaveStates
  <2>2. save' \in [Managers -> SaveStates]
    BY <1>2, <2>1 DEF CallSave
  <2>3. save'[m].phase = "queued" /\ \A n \in Managers : n # m => save'[n] = save[n]
    BY <1>2 DEF CallSave, Idle
  <2>4. OneWrites'
    BY <2>3 DEF OneWrites, Writing
  <2> QED  BY <1>2, <2>2, <2>4 DEF CallSave
<1>3. CASE Merge(m)
  <2> DEFINE out == IF retired[m] THEN VolatileMerge(m) ELSE FullMerge(m)
  <2>1. out \in Records
    BY MergedTypes
  <2>2. save' = [save EXCEPT ![m].phase = "writing", ![m].out = out,
                             ![m].keep = present, ![m].full = ~retired[m]]
    BY <1>3 DEF Merge, Membership
  <2> HIDE DEF out
  <2>3. save' \in [Managers -> SaveStates]
    <3> DEFINE mine == [save[m] EXCEPT !.phase = "writing", !.out = out,
                                       !.keep = present, !.full = ~retired[m]]
    <3>1. mine \in SaveStates
      BY <2>1, CopyTypes DEF SaveStates
    <3>2. save' = [save EXCEPT ![m] = mine]
      BY <2>2
    <3> HIDE DEF mine
    <3> QED  BY <3>1, <3>2
  <2>4. \A n \in Managers : n # m => save'[n] = save[n] /\ ~Writing(n)
    BY <1>3, <2>2 DEF Merge, Locked, Writing
  <2>5. OneWrites'
    BY <2>4 DEF OneWrites, Writing
  <2>6. mem' \in [Managers -> Records]
    <3>1. [mem EXCEPT ![m].token = disk.token, ![m].stamp = disk.stamp] \in [Managers -> Records]
      <4> DEFINE x == [mem[m] EXCEPT !.token = disk.token, !.stamp = disk.stamp]
      <4>1. x \in Records
        BY CopyTypes DEF Records
      <4>2. [mem EXCEPT ![m].token = disk.token, ![m].stamp = disk.stamp] = [mem EXCEPT ![m] = x]
        BY CopyTypes
      <4> HIDE DEF x
      <4> QED  BY <4>1, <4>2 DEF Types
    <3>2. mem \in [Managers -> Records]
      BY DEF Types
    <3> QED  BY <1>3, <3>1, <3>2 DEF Merge
  <2> QED  BY <1>3, <2>3, <2>5, <2>6 DEF Merge
<1>4. CASE Persist(m)
  <2>1. save' \in [Managers -> SaveStates]
    BY <1>4, BlankIs DEF Persist
  <2>2. save'[m].phase = "idle" /\ \A n \in Managers : n # m => save'[n] = save[n]
    BY <1>4 DEF Persist, Idle
  <2>3. OneWrites'
    BY <2>2 DEF OneWrites, Writing
  <2>4. disk' \in Records /\ present' \in BOOLEAN
    BY <1>4, CopyTypes DEF Persist, SaveStates
  <2>5. marked' \in [Managers -> Nat \cup {NoToken}]
    BY <1>4 DEF Persist
  <2> QED  BY <1>4, <2>1, <2>3, <2>4, <2>5 DEF Persist
<1> QED  BY <1>2, <1>3, <1>4
\* Steps that leave the saves alone keep the rest of the types.
LEMMA QuietTypes ==
  ASSUME MergeInv,
         \/ \E m \in Managers : Refresh(m) \/ Adopt(m) \/ Disable(m) \/ ExpireQuota(m)
         \/ ToolRefresh \/ Login \/ Remove \/ ClearQuota \/ Tick
         \/ \E enabled \in BOOLEAN : SetEnabled(enabled)
  PROVE  Types'
<1>1. Types /\ TypeOK
  BY TypesAre DEF MergeInv
<1> USE <1>1 DEF Types
<1>2. {"credential", "quota", "lifecycle"} \subseteq Kinds
  BY DEF Kinds
<1>3. OneWrites /\ (save' = save => OneWrites')
  BY DEF OneWrites, Writing
<1>4. ASSUME NEW m \in Managers, Refresh(m) PROVE Types'
  <2>1. left' \in [Kinds -> Nat]
    BY <1>2, <1>4, SpendTypes DEF Refresh
  <2>2. CASE /\ adopting' = [adopting EXCEPT ![m] = disk.token]
             /\ UNCHANGED <<now, issued, disk>>
    <3>1. adopting' \in [Managers -> Nat \cup {NoToken}]
      BY <2>2, CopyTypes
    <3> QED  BY <1>3, <1>4, <2>1, <2>2, <3>1 DEF Refresh
  <2>3. CASE Exchange /\ adopting' = [adopting EXCEPT ![m] = issued']
    <3>1. now' \in 1 .. MaxTime /\ issued' = issued + 1 /\ disk' \in Records
      BY <2>3, ExchangeTypes
    <3>2. adopting' \in [Managers -> Nat \cup {NoToken}]
      BY <2>3, <3>1
    <3> QED  BY <1>3, <1>4, <2>1, <3>1, <3>2 DEF Refresh
  <2> QED  BY <1>4, <2>2, <2>3 DEF Refresh
<1>5. ASSUME NEW m \in Managers, Adopt(m) PROVE Types'
  <2>1. adopting[m] \in Nat /\ mem[m].stamp \in Nat /\ now \in Nat /\ mem[m] \in Records
    BY <1>5, CopyTypes DEF Adopt
  <2>2. NextStamp(now, mem[m].stamp) \in Nat
    BY <2>1, NextStampIs, Zenon
  <2>3. mem' \in [Managers -> Records]
    BY <1>5, <2>1, <2>2 DEF Adopt, Records
  <2> QED  BY <1>3, <1>5, <2>3 DEF Adopt
<1>6. CASE ToolRefresh
  <2>1. left' \in [Kinds -> Nat]
    BY <1>2, <1>6, SpendTypes DEF ToolRefresh
  <2>2. now' \in 1 .. MaxTime /\ issued' = issued + 1 /\ disk' \in Records
    BY <1>6, ExchangeTypes DEF ToolRefresh
  <2> QED  BY <1>3, <1>6, <2>1, <2>2 DEF ToolRefresh
<1>7. CASE Login
  <2>1. left' \in [Kinds -> Nat]
    BY <1>2, <1>7, SpendTypes DEF Login
  <2>2. disk' \in Records
    <3>1. issued + 1 \in Nat
      OBVIOUS
    <3>2. Blank(issued + 1) \in Records
      BY <3>1, BlankIs
    <3>3. [disk EXCEPT !.token = issued + 1, !.enabled = TRUE] \in Records
      BY <3>1 DEF Records
    <3> QED  BY <1>7, <3>2, <3>3 DEF Login
  <2> QED  BY <1>3, <1>7, <2>1, <2>2 DEF Login
<1>8. ASSUME NEW m \in Managers, Disable(m) PROVE Types'
  <2>1. left' \in [Kinds -> Nat]
    BY <1>2, <1>8, SpendTypes DEF Disable
  <2>2. mem' \in [Managers -> Records] /\ marked' \in [Managers -> Nat \cup {NoToken}]
    BY <1>8, CopyTypes DEF Disable, Records
  <2> QED  BY <1>3, <1>8, <2>1, <2>2 DEF Disable
<1>9. ASSUME NEW enabled \in BOOLEAN, SetEnabled(enabled) PROVE Types'
  <2>1. left' \in [Kinds -> Nat]
    BY <1>2, <1>9, SpendTypes DEF SetEnabled
  <2>2. disk' \in Records
    BY <1>9 DEF SetEnabled, Records
  <2> QED  BY <1>3, <1>9, <2>1, <2>2 DEF SetEnabled
<1>10. CASE Remove
  <2>1. left' \in [Kinds -> Nat]
    BY <1>2, <1>10, SpendTypes DEF Remove
  <2> QED  BY <1>3, <1>10, <2>1 DEF Remove, None
<1>11. CASE ClearQuota
  <2>1. left' \in [Kinds -> Nat]
    BY <1>2, <1>11, SpendTypes DEF ClearQuota
  <2>2. disk' \in Records
    <3>1. now \in Nat
      OBVIOUS
    <3>2. disk' = Blocked(disk, 0, 0, IF disk.until > now THEN now ELSE disk.cleared)
      BY <1>11 DEF ClearQuota, Blocked, None
    <3>3. (IF disk.until > now THEN now ELSE disk.cleared) \in Nat
      BY <3>1, CopyTypes
    <3>4. 0 \in Nat
      OBVIOUS
    <3> QED  BY <3>2, <3>3, <3>4, WithBlock, ZenonT(60)
  <2>3. lastClear' \in Nat
    BY <1>11 DEF ClearQuota
  <2> QED  BY <1>3, <1>11, <2>1, <2>2, <2>3 DEF ClearQuota
<1>12. ASSUME NEW m \in Managers, ExpireQuota(m) PROVE Types'
  <2>1. mem' \in [Managers -> Records]
    BY <1>12, CopyTypes, SMTT(40) DEF ExpireQuota, Records, None
  <2> QED  BY <1>3, <1>12, <2>1 DEF ExpireQuota
<1>13. CASE Tick
  <2>1. now' \in 1 .. MaxTime
    BY <1>13 DEF Tick
  <2> QED  BY <1>3, <1>13, <2>1 DEF Tick
<1> QED BY <1>4, <1>5, <1>6, <1>7, <1>8, <1>9, <1>10, <1>11, <1>12, <1>13

\* A reset that a server can name is a time.
LEMMA ResetsAreTimes == \A reset \in Resets : reset \in Nat
BY DEF Resets

\* A quota mark leaves a record in every copy.
LEMMA MarkTypes ==
  ASSUME mem \in [Managers -> Records], now \in Nat,
         NEW m \in Managers, NEW reset \in Nat, MarkQuota(m, reset)
  PROVE  mem' \in [Managers -> Records]
<1>1. mem' = [mem EXCEPT ![m].until = reset, ![m].at = now, ![m].cleared = 0]
  BY DEF MarkQuota, None
<1>2. mem[m] \in Records
  OBVIOUS
<1>3. mem' = [mem EXCEPT ![m] = Blocked(mem[m], reset, now, 0)]
  BY <1>1 DEF Blocked
<1>4. Blocked(mem[m], reset, now, 0) \in Records
  BY <1>2, WithBlock
<1> QED  BY <1>3, <1>4

LEMMA ManagerTypes ==
  ASSUME MergeInv, NEW m \in Managers,
         \/ \E reset \in Resets : MarkQuota(m, reset)
         \/ \E external \in BOOLEAN : Retire(m, external)
         \/ Load(m)
  PROVE  Types'
<1>1. Types
  BY TypesAre DEF MergeInv
<1> USE <1>1 DEF Types
<1>2. {"credential", "quota", "lifecycle"} \subseteq Kinds
  BY DEF Kinds
<1>3. OneWrites /\ (save' = save => OneWrites')
  BY DEF OneWrites, Writing
<1>4. ASSUME NEW reset \in Resets, MarkQuota(m, reset) PROVE Types'
  <2>1. left' \in [Kinds -> Nat]
    BY <1>2, <1>4, SpendTypes DEF MarkQuota
  <2>2. reset \in Nat /\ now \in Nat
    <3>1. reset \in Nat
      BY ResetsAreTimes, Zenon
    <3>2. now \in 1 .. MaxTime
      BY Zenon
    <3>3. now \in Nat
      BY <3>2
    <3> QED  BY <3>1, <3>3, Zenon
  <2>3. mem' \in [Managers -> Records]
    BY <1>4, <2>2, MarkTypes, Zenon
  <2> QED  BY <1>3, <1>4, <2>1, <2>3 DEF MarkQuota
<1>5. ASSUME NEW external \in BOOLEAN, Retire(m, external) PROVE Types'
  <2>1. left' \in [Kinds -> Nat]
    BY <1>2, <1>5, SpendTypes DEF Retire
  <2>2. StampOf(mem[m]) \in Stamps
    BY CopyTypes DEF StampOf, Stamps
  <2>3. retired' \in [Managers -> BOOLEAN] /\ superseded' \in [Managers -> Stamps]
    BY <1>5, <2>2 DEF Retire
  <2> QED  BY <1>3, <1>5, <2>1, <2>3 DEF Retire
<1>6. CASE Load(m)
  <2>1. left' \in [Kinds -> Nat]
    BY <1>2, <1>6, SpendTypes DEF Load
  <2>2. /\ mem' \in [Managers -> Records]
        /\ marked' \in [Managers -> Nat \cup {NoToken}]
        /\ adopting' \in [Managers -> Nat \cup {NoToken}]
        /\ retired' \in [Managers -> BOOLEAN]
    BY <1>6 DEF Load
  <2>3. superseded' \in [Managers -> Stamps]
    BY <1>6 DEF Load, Stamps
  <2>4. save' \in [Managers -> SaveStates]
    BY <1>6, BlankIs DEF Load
  <2>5. OneWrites'
    BY <1>3, <1>6, BlankIs DEF Load, OneWrites, Writing
  <2> QED  BY <1>6, <2>1, <2>2, <2>3, <2>4, <2>5 DEF Load
<1> QED  BY <1>4, <1>5, <1>6

LEMMA TypeKept == MergeInv /\ [Next]_vars => TypeOK'
<1> SUFFICES ASSUME MergeInv, [Next]_vars PROVE TypeOK'
  OBVIOUS
<1>1. Types' => TypeOK'
  BY TypesAre, PTL
<1>2. ASSUME NEW m \in Managers, ManagerStep(m) PROVE Types'
  BY <1>2, SaveTypes, QuietTypes, ManagerTypes DEF ManagerStep
<1>3. CASE UNCHANGED vars BY <1>3 DEF MergeInv, TypeOK, vars
<1> QED BY <1>1, <1>2, <1>3, QuietTypes DEF Next

-----------------------------------------------------------------------------
(* What is being written still agrees with the disk.                       *)

\* Nothing a running write was merged with has changed.
LEMMA WriteStays ==
  ASSUME Types, WriteInv, UNCHANGED <<disk, present>>, now' \in Nat, now' >= now,
         \A m \in Managers : Writing(m)' =>
           save'[m] = save[m] /\ (marked'[m] = marked[m] \/ save[m].out.enabled = disk.enabled)
  PROVE  WriteInv'
<1> SUFFICES ASSUME NEW m \in Managers, Writing(m)'
             PROVE  /\ save'[m].keep = present'
                    /\ \/ save'[m].out.enabled = disk'.enabled
                       \/ disk'.enabled /\ disk'.token = marked'[m]
                    /\ disk'.until > now' => save'[m].out.until >= disk'.until
                    /\ disk'.cleared # None =>
                         save'[m].out.until = None \/ save'[m].out.at > disk'.cleared
  BY DEF WriteInv
<1>1. save'[m] = save[m] /\ Writing(m)
  BY DEF Writing
<1>2. now \in Nat /\ disk.until \in Nat
  BY CopyTypes DEF Types
<1> QED  BY <1>1, <1>2 DEF WriteInv

\* Nothing is being written.
LEMMA NothingWritten ==
  ASSUME ~Locked, save' = save
  PROVE  WriteInv'
BY DEF Locked, WriteInv, Writing

LEMMA SaveWrites ==
  ASSUME MergeInv, Types, Types', NEW m \in Managers, CallSave(m) \/ Merge(m) \/ Persist(m)
  PROVE  WriteInv'
<1>1. now \in Nat /\ WriteInv
  BY DEF Types, MergeInv
<1>2. CASE CallSave(m)
  <2>1. /\ UNCHANGED <<disk, present, now, marked>> /\ save'[m].phase = "queued"
        /\ \A n \in Managers : n # m => save'[n] = save[n]
    BY <1>2 DEF CallSave, Types, Idle, SaveStates
  <2> QED  BY <1>1, <2>1, WriteStays DEF Writing
<1>3. CASE Persist(m)
  <2>1. /\ save'[m].phase = "idle" /\ Writing(m)
        /\ \A n \in Managers : n # m => save'[n] = save[n]
    BY <1>3, BlankIs DEF Persist, Types, Writing
  <2>2. \A n \in Managers : ~Writing(n)'
    BY <2>1 DEF Types, OneWrites, Writing
  <2> QED  BY <2>2 DEF WriteInv
<1>4. CASE Merge(m)
  <2> DEFINE out == IF retired[m] THEN VolatileMerge(m) ELSE FullMerge(m)
  <2> DEFINE mine == [save[m] EXCEPT !.phase = "writing", !.out = out,
                                     !.keep = present, !.full = ~retired[m]]
  <2>1. save' = [save EXCEPT ![m] = mine] /\ UNCHANGED <<disk, present, now, marked>> /\ ~Locked
    BY <1>4 DEF Merge, Membership
  <2>6. mine.out = out /\ mine.keep = present
    BY CopyTypes DEF SaveStates
  <2> HIDE DEF mine
  <2>2. /\ out.enabled = disk.enabled \/ (disk.enabled /\ disk.token = marked[m])
        /\ disk.until > now => out.until >= disk.until
        /\ disk.cleared # None => out.until = None \/ out.at > disk.cleared
    <3>1. TypeOK /\ OneOfBoth(disk) /\ OneOfBoth(save[m].snap)
      BY DEF MergeInv, CopyInv
    <3>2. CASE retired[m]
      <4>1. out = VolatileMerge(m)
        BY <3>2
      <4> QED  BY <3>1, <4>1, VolatileMergeIs
    <3>3. CASE ~retired[m]
      <4>1. out = FullMerge(m)
        BY <3>3
      <4>2. out.enabled = (marked[m] # disk.token /\ disk.enabled) /\ disk.enabled \in BOOLEAN
        BY <3>1, <4>1, FullMergeIs, CopyTypes DEF EnabledAfter
      <4>3. out.enabled = disk.enabled \/ (disk.enabled /\ disk.token = marked[m])
        BY <4>2
      <4> QED  BY <3>1, <4>1, <4>3, FullMergeIs
    <3> QED  BY <3>2, <3>3
  <2> HIDE DEF out
  <2>3. save'[m].out = out /\ save'[m].keep = present
    BY <2>1, <2>6 DEF Types
  <2>4. \A n \in Managers : n # m => ~Writing(n)'
    BY <2>1 DEF Locked, Writing, Types
  <2> QED BY <2>1, <2>2, <2>3, <2>4 DEF WriteInv
<1> QED  BY <1>2, <1>3, <1>4

LEMMA WriteKept ==
  ASSUME MergeInv, [Next]_vars, Types, Types'
  PROVE  WriteInv'
<1>1. now \in Nat /\ now' \in Nat /\ WriteInv /\ MarkInv
  BY DEF Types, MergeInv
<1>2. ASSUME NEW m \in Managers, CallSave(m) \/ Merge(m) \/ Persist(m) PROVE WriteInv'
  BY <1>2, SaveWrites
<1>3. ASSUME NEW m \in Managers,
             \/ Adopt(m) \/ ExpireQuota(m)
             \/ \E reset \in Resets : MarkQuota(m, reset)
             \/ \E external \in BOOLEAN : Retire(m, external)
      PROVE  WriteInv'
  <2>1. UNCHANGED <<now, disk, present, save, marked>>
    BY <1>3 DEF Adopt, ExpireQuota, MarkQuota, Retire
  <2> QED  BY <1>1, <2>1, WriteStays
<1>4. CASE Tick
  <2>1. now' = now + 1 /\ UNCHANGED <<disk, present, save, marked>>
    BY <1>4 DEF Tick
  <2> QED  BY <1>1, <2>1, WriteStays
<1>5. ASSUME \/ \E m \in Managers : Refresh(m)
             \/ ToolRefresh \/ Login \/ Remove \/ ClearQuota
             \/ \E enabled \in BOOLEAN : SetEnabled(enabled)
      PROVE  WriteInv'
  <2>1. ~Locked /\ save' = save
    BY <1>5 DEF Refresh, ToolRefresh, Login, Remove, ClearQuota, SetEnabled
  <2> QED  BY <2>1, NothingWritten
<1>6. ASSUME NEW m \in Managers, Disable(m) PROVE WriteInv'
  <2>1. /\ UNCHANGED <<now, disk, present, save>> /\ mem[m].enabled
        /\ \A n \in Managers : n # m => marked'[n] = marked[n]
    BY <1>6 DEF Disable, Types
  <2>2. marked[m] = NoToken /\ disk.token # NoToken
    BY <1>1, <2>1, CopyTypes DEF MarkInv, NoToken
  <2>3. Writing(m) => save[m].out.enabled = disk.enabled
    BY <1>1, <2>2 DEF WriteInv
  <2> QED  BY <1>1, <2>1, <2>3, WriteStays DEF Writing
<1>7. ASSUME NEW m \in Managers, Load(m) PROVE WriteInv'
  <2>1. /\ UNCHANGED <<now, disk, present>> /\ save'[m].phase = "idle"
        /\ \A n \in Managers : n # m => save'[n] = save[n] /\ marked'[n] = marked[n]
    BY <1>7, BlankIs DEF Load, Types
  <2> QED  BY <1>1, <2>1, WriteStays DEF Writing
<1>8. CASE UNCHANGED vars BY <1>1, <1>8, WriteStays DEF vars
<1> QED BY <1>2, <1>3, <1>4, <1>5, <1>6, <1>7, <1>8 DEF Next, ManagerStep

LEMMA MarkKept ==
  ASSUME MergeInv, [Next]_vars, Types
  PROVE  MarkInv'
<1>1. MarkInv /\ marked \in [Managers -> Nat \cup {NoToken}] /\ mem \in [Managers -> Records]
  BY DEF MergeInv, Types
<1>2. ASSUME NEW m \in Managers, Disable(m) PROVE MarkInv'
  BY <1>1, <1>2, CopyTypes DEF Disable, MarkInv, Records
<1>3. ASSUME NEW m \in Managers, Load(m) PROVE MarkInv'
  BY <1>1, <1>3 DEF Load, MarkInv
<1>4. ASSUME NEW m \in Managers, Persist(m) PROVE MarkInv'
  BY <1>1, <1>4 DEF Persist, MarkInv
<1>5. ASSUME NEW m \in Managers,
             \/ Merge(m) \/ Adopt(m) \/ ExpireQuota(m)
             \/ \E reset \in Resets : MarkQuota(m, reset)
      PROVE  MarkInv'
  <2>1. marked' = marked /\ \A n \in Managers : mem'[n].enabled = mem[n].enabled
    <3>1. CASE Merge(m) BY <1>1, <3>1 DEF Merge, Records
    <3>2. CASE Adopt(m) BY <1>1, <3>2 DEF Adopt, Records
    <3>3. CASE ExpireQuota(m) BY <1>1, <3>3 DEF ExpireQuota, Records
    <3>4. ASSUME NEW reset \in Resets, MarkQuota(m, reset)
          PROVE  marked' = marked /\ \A n \in Managers : mem'[n].enabled = mem[n].enabled
      BY <1>1, <3>4 DEF MarkQuota, Records
    <3> QED  BY <1>5, <3>1, <3>2, <3>3, <3>4
  <2> QED  BY <1>1, <2>1 DEF MarkInv
<1>6. ASSUME \/ \E m \in Managers : \/ CallSave(m) \/ Refresh(m)
                                    \/ \E external \in BOOLEAN : Retire(m, external)
             \/ ToolRefresh \/ Login \/ Remove \/ ClearQuota \/ Tick
             \/ \E enabled \in BOOLEAN : SetEnabled(enabled)
             \/ UNCHANGED vars
      PROVE  MarkInv'
  <2>1. UNCHANGED <<marked, mem>>
    BY <1>6
    DEF CallSave, Refresh, Retire, ToolRefresh, Login, Remove, ClearQuota, Tick, SetEnabled, vars
  <2> QED  BY <1>1, <2>1 DEF MarkInv
<1> QED BY <1>2, <1>3, <1>4, <1>5, <1>6 DEF Next, ManagerStep

-----------------------------------------------------------------------------
(* No copy has a block and a tombstone at once.                            *)

\* The steps that change the disk outside a save.
LEMMA DiskStaysClean ==
  ASSUME MergeInv,
         \/ \E m \in Managers : Refresh(m)
         \/ ToolRefresh \/ Login \/ Remove \/ ClearQuota
         \/ \E enabled \in BOOLEAN : SetEnabled(enabled)
  PROVE  OneOfBoth(disk') /\ UNCHANGED <<mem, save>>
<1>1. OneOfBoth(disk) /\ TypeOK /\ disk \in Records /\ issued \in Nat
  BY TypesAre DEF MergeInv, CopyInv, Types
<1>2. ASSUME NEW m \in Managers, Refresh(m) PROVE OneOfBoth(disk') /\ UNCHANGED <<mem, save>>
  BY <1>1, <1>2, ExchangeTypes DEF Refresh
<1>3. CASE ToolRefresh BY <1>1, <1>3, ExchangeTypes DEF ToolRefresh
<1>4. CASE Login
  <2>1. OneOfBoth(Blank(issued + 1))
    BY <1>1 DEF Blank, OneOfBoth
  <2>2. OneOfBoth([disk EXCEPT !.token = issued + 1, !.enabled = TRUE])
    BY <1>1 DEF OneOfBoth, Records
  <2> QED  BY <1>4, <2>1, <2>2 DEF Login
<1>5. CASE Remove BY <1>1, <1>5 DEF Remove
<1>6. CASE ClearQuota
  <2>1. disk' = Blocked(disk, 0, 0, IF disk.until > now THEN now ELSE disk.cleared)
    BY <1>6 DEF ClearQuota, Blocked, None
  <2>2. disk'.until = 0
    BY <1>1, <2>1, BlockFields
  <2> QED  BY <1>6, <2>2 DEF ClearQuota, OneOfBoth, None
<1>7. ASSUME NEW enabled \in BOOLEAN, SetEnabled(enabled)
      PROVE  OneOfBoth(disk') /\ UNCHANGED <<mem, save>>
  <2>1. disk'.until = disk.until /\ disk'.cleared = disk.cleared
    BY <1>1, <1>7 DEF SetEnabled, Records
  <2> QED  BY <1>1, <1>7, <2>1 DEF SetEnabled, OneOfBoth
<1> QED  BY <1>2, <1>3, <1>4, <1>5, <1>6, <1>7

\* The steps that change a manager's copy.
LEMMA CopyStaysClean ==
  ASSUME MergeInv, NEW m \in Managers,
         \/ Adopt(m) \/ Disable(m) \/ ExpireQuota(m)
         \/ \E reset \in Resets : MarkQuota(m, reset)
  PROVE  (\A n \in Managers : OneOfBoth(mem'[n])) /\ UNCHANGED <<disk, save>>
<1>1. Types /\ \A n \in Managers : OneOfBoth(mem[n]) /\ mem[n] \in Records
  BY TypesAre, CopyTypes DEF MergeInv, CopyInv
<1>2. mem \in [Managers -> Records]
  BY <1>1 DEF Types
<1>3. CASE Adopt(m)
  <2>1. \A n \in Managers : mem'[n].until = mem[n].until /\ mem'[n].cleared = mem[n].cleared
    BY <1>2, <1>3 DEF Adopt, Records
  <2> QED  BY <1>1, <1>3, <2>1 DEF Adopt, OneOfBoth
<1>4. CASE Disable(m)
  <2>1. \A n \in Managers : mem'[n].until = mem[n].until /\ mem'[n].cleared = mem[n].cleared
    BY <1>2, <1>4 DEF Disable, Records
  <2> QED  BY <1>1, <1>4, <2>1 DEF Disable, OneOfBoth
<1>5. CASE ExpireQuota(m)
  <2>1. mem'[m].until = None /\ \A n \in Managers : n # m => mem'[n] = mem[n]
    BY <1>2, <1>5 DEF ExpireQuota, Records
  <2> QED  BY <1>1, <1>5, <2>1 DEF ExpireQuota, OneOfBoth
<1>6. ASSUME NEW reset \in Resets, MarkQuota(m, reset)
      PROVE  (\A n \in Managers : OneOfBoth(mem'[n])) /\ UNCHANGED <<disk, save>>
  <2>1. mem'[m].cleared = None /\ \A n \in Managers : n # m => mem'[n] = mem[n]
    <3>1. mem' = [mem EXCEPT ![m] = Blocked(mem[m], reset, now, None)]
      BY <1>6 DEF MarkQuota, Blocked
    <3> QED  BY <1>1, <1>2, <3>1, BlockFields
  <2> QED  BY <1>1, <1>6, <2>1 DEF MarkQuota, OneOfBoth
<1> QED  BY <1>3, <1>4, <1>5, <1>6

LEMMA CopyKept ==
  ASSUME MergeInv, [Next]_vars, Types, Types'
  PROVE  CopyInv'
<1>1. CopyInv /\ mem \in [Managers -> Records] /\ save \in [Managers -> SaveStates]
  BY DEF MergeInv, Types
<1>2. ASSUME NEW m \in Managers, CallSave(m) PROVE CopyInv'
  <2>1. /\ save'[m].snap = mem[m] /\ save'[m].out = Idle.out
        /\ \A n \in Managers : n # m => save'[n] = save[n]
    BY <1>1, <1>2 DEF CallSave, Idle
  <2> QED  BY <1>1, <1>2, <2>1, BlankIs DEF CallSave, CopyInv
<1>3. ASSUME NEW m \in Managers, Merge(m) PROVE CopyInv'
  <2> DEFINE out == IF retired[m] THEN VolatileMerge(m) ELSE FullMerge(m)
             mine == [save[m] EXCEPT !.phase = "writing", !.out = out,
                                     !.keep = present, !.full = ~retired[m]]
  <2>1. OneOfBoth(out)
    BY VolatileMergeIs, FullMergeIs DEF MergeInv, CopyInv
  <2>2. save' = [save EXCEPT ![m] = mine] /\ disk' = disk
    BY <1>3 DEF Merge, Membership
  <2>3. \A n \in Managers : mem'[n].until = mem[n].until /\ mem'[n].cleared = mem[n].cleared
    BY <1>1, <1>3 DEF Merge, Records
  <2>4. mine.out = out /\ mine.snap = save[m].snap
    BY <1>1 DEF SaveStates
  <2> HIDE DEF out, mine
  <2>5. \A n \in Managers : OneOfBoth(save'[n].snap) /\ OneOfBoth(save'[n].out)
    BY <1>1, <2>1, <2>2, <2>4 DEF CopyInv
  <2>6. \A n \in Managers : OneOfBoth(mem'[n])
    BY <1>1, <2>3 DEF CopyInv, OneOfBoth
  <2> QED  BY <1>1, <2>2, <2>5, <2>6 DEF CopyInv
<1>4. ASSUME NEW m \in Managers, Persist(m) PROVE CopyInv'
  <2>1. save' = [save EXCEPT ![m] = Idle] /\ disk' \in {disk, save[m].out} /\ mem' = mem
    BY <1>4 DEF Persist
  <2>2. \A n \in Managers : OneOfBoth(save'[n].snap) /\ OneOfBoth(save'[n].out)
    BY <1>1, <2>1, BlankIs DEF CopyInv
  <2> QED  BY <1>1, <2>1, <2>2 DEF CopyInv
<1>5. ASSUME NEW m \in Managers, Load(m) PROVE CopyInv'
  <2>1. /\ save' = [save EXCEPT ![m] = Idle] /\ mem' = [mem EXCEPT ![m] = disk]
        /\ disk' = disk
    BY <1>5 DEF Load
  <2>2. \A n \in Managers : OneOfBoth(save'[n].snap) /\ OneOfBoth(save'[n].out)
    BY <1>1, <2>1, BlankIs DEF CopyInv
  <2>3. \A n \in Managers : OneOfBoth(mem'[n])
    BY <1>1, <2>1 DEF CopyInv
  <2> QED  BY <1>1, <2>1, <2>2, <2>3 DEF CopyInv
<1>6. ASSUME NEW m \in Managers,
             \/ Adopt(m) \/ Disable(m) \/ ExpireQuota(m)
             \/ \E reset \in Resets : MarkQuota(m, reset)
      PROVE  CopyInv'
  <2>1. (\A n \in Managers : OneOfBoth(mem'[n])) /\ UNCHANGED <<disk, save>>
    BY <1>6, CopyStaysClean
  <2> QED  BY <1>1, <2>1 DEF CopyInv
<1>7. ASSUME \/ \E m \in Managers : Refresh(m)
             \/ ToolRefresh \/ Login \/ Remove \/ ClearQuota
             \/ \E enabled \in BOOLEAN : SetEnabled(enabled)
      PROVE  CopyInv'
  <2>1. OneOfBoth(disk') /\ UNCHANGED <<mem, save>>
    BY <1>7, DiskStaysClean
  <2> QED  BY <1>1, <2>1 DEF CopyInv
<1>8. ASSUME \/ \E m \in Managers, external \in BOOLEAN : Retire(m, external)
             \/ Tick \/ UNCHANGED vars
      PROVE  CopyInv'
  <2>1. UNCHANGED <<mem, save, disk>>
    BY <1>8 DEF Retire, Tick, vars
  <2> QED  BY <1>1, <2>1 DEF CopyInv
<1> QED BY <1>2, <1>3, <1>4, <1>5, <1>6, <1>7, <1>8 DEF Next, ManagerStep

-----------------------------------------------------------------------------
(* What every save respects.                                               *)

LEMMA InitMerge == Init => MergeInv
<1> SUFFICES ASSUME Init PROVE MergeInv
  OBVIOUS
<1>1. /\ now = 1 /\ issued = 0 /\ present = TRUE /\ disk = Blank(0) /\ lastClear = 0
      /\ mem = [m \in Managers |-> Blank(0)]
      /\ marked = [m \in Managers |-> NoToken] /\ adopting = [m \in Managers |-> NoToken]
      /\ retired = [m \in Managers |-> FALSE] /\ superseded = [m \in Managers |-> NoStamp]
      /\ save = [m \in Managers |-> Idle] /\ left \in [Kinds -> Nat]
  BY MergeAssumption DEF Init, None
<1>2. Blank(0) \in Records /\ OneOfBoth(Blank(0))
  BY BlankIs
<1>3. MaxTime \in Nat /\ 1 \in 1 .. MaxTime
  BY MergeAssumption
<1>4. \A m \in Managers : ~Writing(m)
  BY <1>1, BlankIs DEF Writing
<1>5. Types
  BY <1>1, <1>2, <1>3, <1>4, BlankIs DEF Types, OneWrites, Stamps
<1>6. WriteInv /\ MarkInv
  BY <1>1, <1>4 DEF WriteInv, MarkInv
<1>7. CopyInv
  BY <1>1, <1>2, BlankIs DEF CopyInv
<1> QED  BY <1>5, <1>6, <1>7, TypesAre DEF MergeInv

LEMMA MergeKept == MergeInv /\ [Next]_vars => MergeInv'
<1> SUFFICES ASSUME MergeInv, [Next]_vars PROVE MergeInv'
  OBVIOUS
<1>1. Types /\ TypeOK'
  BY TypesAre, TypeKept DEF MergeInv
<1>2. TypeOK' => Types'
  BY TypesAre, PTL
<1>3. WriteInv' /\ MarkInv' /\ CopyInv'
  BY <1>1, <1>2, WriteKept, MarkKept, CopyKept
<1> QED  BY <1>1, <1>3 DEF MergeInv

(***************************************************************************)
(* persistence.ts:359-361: whatever managers, tools and logins do, every   *)
(* copy of the account is well formed, none has a quota block and a        *)
(* tombstone at once, and one save at most is in the storage transaction.  *)
(***************************************************************************)
THEOREM RecordsStayWellFormed == Spec => []RecordsSafe
<1>1. Init => MergeInv
  BY InitMerge
<1>2. MergeInv /\ [Next]_vars => MergeInv'
  BY MergeKept
<1>3. MergeInv => RecordsSafe
  BY DEF MergeInv, CopyInv, OneOfBoth, RecordsSafe, BlockOrTombstone
<1> QED  BY <1>1, <1>2, <1>3, PTL DEF Spec
\* A save that lands writes what it merged with the record that is there.
LEMMA SaveLands ==
  ASSUME MergeInv, NEW m \in Managers, Persist(m)
  PROVE  /\ present' = present /\ now' = now
         /\ present => /\ disk'.enabled = disk.enabled \/ (disk.enabled /\ disk.token = marked[m])
                       /\ disk.until > now => disk'.until >= disk.until
                       /\ disk.cleared # None => disk'.until = None \/ disk'.at > disk.cleared
<1>1. Writing(m) /\ save[m].keep = present
  BY DEF Persist, Writing, MergeInv, WriteInv
<1>2. present' = present /\ now' = now /\ (present => disk' = save[m].out)
  BY <1>1 DEF Persist
<1> QED  BY <1>1, <1>2 DEF MergeInv, WriteInv

LEMMA MembershipStep ==
  ASSUME MergeInv, [Next]_vars
  PROVE  ~present /\ present' => issued' > issued
<1>1. issued \in Nat
  BY DEF MergeInv, TypeOK
<1>2. ASSUME NEW m \in Managers, Persist(m) PROVE present' = present
  BY <1>2, SaveLands
<1>3. CASE Login BY <1>1, <1>3 DEF Login
<1>4. ASSUME NEW m \in Managers, ManagerStep(m), ~Persist(m) PROVE present' = present
  BY <1>4 DEF ManagerStep, CallSave, Merge, Refresh, Adopt, Disable, MarkQuota, ExpireQuota,
              Retire, Load
<1>5. ASSUME \/ ToolRefresh \/ ClearQuota \/ Tick
             \/ \E enabled \in BOOLEAN : SetEnabled(enabled)
             \/ UNCHANGED vars
      PROVE  present' = present
  BY <1>5 DEF ToolRefresh, ClearQuota, Tick, SetEnabled, vars
<1>6. CASE Remove BY <1>6 DEF Remove
<1> QED  BY <1>2, <1>3, <1>4, <1>5, <1>6 DEF Next

(***************************************************************************)
(* persistence.ts:107-109 and 145-159: who is in the pool and enabled is   *)
(* decided by the disk.  No save of a manager that still holds an account  *)
(* brings back one that was removed, and none enables an account, or       *)
(* disables it but for the very token that failed.                         *)
(***************************************************************************)
THEOREM MembershipIsTheDisks == Spec => MembershipRespected
<1>1. Init => MergeInv
  BY InitMerge
<1>2. MergeInv /\ [Next]_vars => MergeInv'
  BY MergeKept
<1>3. MergeInv /\ [Next]_vars => [~present /\ present' => issued' > issued]_vars
  BY MembershipStep
<1>4. MergeInv /\ [Next]_vars =>
        [\A m \in Managers : Persist(m) /\ present =>
           \/ disk'.enabled = disk.enabled
           \/ disk.enabled /\ disk.token = marked[m]]_vars
  BY SaveLands
<1>5. Spec => [][~present /\ present' => issued' > issued]_vars
  BY <1>1, <1>2, <1>3, PTL DEF Spec
<1>6. Spec => [][\A m \in Managers : Persist(m) /\ present =>
                   \/ disk'.enabled = disk.enabled
                   \/ disk.enabled /\ disk.token = marked[m]]_vars
  BY <1>1, <1>2, <1>4, PTL DEF Spec
<1> QED BY <1>5, <1>6 DEF MembershipRespected, RemovedStaysRemoved, SavesRespectEnabled

(***************************************************************************)
(* persistence.ts:275-297 and 324-343: no save shortens a quota block that *)
(* still runs, or puts one in the place of a tombstone that is as old as   *)
(* the clear, whichever of many managers saves when.                       *)
(***************************************************************************)
THEOREM SavesRespectBlocks == Spec => BlocksRespected
<1>1. Init => MergeInv
  BY InitMerge
<1>2. MergeInv /\ [Next]_vars => MergeInv'
  BY MergeKept
<1>3. MergeInv /\ [Next]_vars =>
        [\A m \in Managers : Persist(m) /\ present /\ disk.until > now =>
           disk'.until >= disk.until]_vars
  BY SaveLands
<1>4. MergeInv /\ [Next]_vars =>
        [\A m \in Managers : Persist(m) /\ present /\ disk.cleared # None =>
           disk'.until = None \/ disk'.at > disk.cleared]_vars
  BY SaveLands
<1>5. Spec => [][\A m \in Managers : Persist(m) /\ present /\ disk.until > now =>
                   disk'.until >= disk.until]_vars
  BY <1>1, <1>2, <1>3, PTL DEF Spec
<1>6. Spec => [][\A m \in Managers : Persist(m) /\ present /\ disk.cleared # None =>
                   disk'.until = None \/ disk'.at > disk.cleared]_vars
  BY <1>1, <1>2, <1>4, PTL DEF Spec
<1> QED BY <1>5, <1>6 DEF BlocksRespected, BlockNeverShortened, TombstoneOutranksOldBlock

-----------------------------------------------------------------------------
(***************************************************************************)
(* Credentials, while nothing rotates or logs in behind a manager's back:  *)
(* the disk has the newest token, and a copy that a save may write has     *)
(* either that token or a stamp older than every copy of it.               *)
(***************************************************************************)
LEMMA CopyOf ==
  \A c : c \in Copies <=>
    \/ c = Cred(disk)
    \/ \E m \in Managers :
         \/ ~retired[m] /\ c = Cred(mem[m])
         \/ ~retired[m] /\ save[m].phase = "queued" /\ c = Cred(save[m].snap)
         \/ Writing(m) /\ c = Cred(save[m].out)
BY DEF Copies, Held

LEMMA CopiesTyped ==
  ASSUME Types, NEW c \in Copies
  PROVE  c.token \in Nat /\ c.stamp \in Nat
<1>1. PICK r \in Records : c = Cred(r)
  BY CopyOf, CopyTypes DEF Types
<1> QED  BY <1>1, FieldsAreNumbers DEF Cred

\* Where every copy of the new state is a copy of the old one.
LEMMA CopiesOf ==
  ASSUME NEW S, Cred(disk') \in S,
         \A m \in Managers :
           /\ ~retired'[m] => Cred(mem'[m]) \in S
           /\ ~retired'[m] /\ save'[m].phase = "queued" => Cred(save'[m].snap) \in S
           /\ Writing(m)' => Cred(save'[m].out) \in S
  PROVE  Copies' \subseteq S
<1>1. (\A c : c \in Copies <=>
         \/ c = Cred(disk)
         \/ \E m \in Managers :
              \/ ~retired[m] /\ c = Cred(mem[m])
              \/ ~retired[m] /\ save[m].phase = "queued" /\ c = Cred(save[m].snap)
              \/ Writing(m) /\ c = Cred(save[m].out))'
  BY CopyOf, PTL
<1> QED  BY <1>1

LEMMA CredStays ==
  ASSUME Types, Types', CredInv, Copies' \subseteq Copies, issued' = issued, now' >= now,
         disk'.token = issued,
         \A m \in Managers : Writing(m)' => save'[m].out.token = issued,
         \A m \in Managers : ~retired'[m] => adopting'[m] \in {NoToken, issued}
  PROVE  CredInv'
<1>1. \A c \in Copies' : c \in Copies /\ c.stamp \in Nat /\ c.token \in Nat
  BY CopiesTyped
<1>2. now \in Nat /\ now' \in Nat
  BY DEF Types
<1>3. \A c \in Copies' : c.token <= issued' /\ c.stamp <= now'
  BY <1>1, <1>2 DEF CredInv
<1>4. \A c, d \in Copies' : c.token < issued' /\ d.token = issued' => c.stamp < d.stamp
  BY <1>1 DEF CredInv
<1> QED  BY <1>3, <1>4 DEF CredInv

\* Steps in which no manager or disk gets another credential.
LEMMA SameCredentials ==
  ASSUME Types, Types', CredInv, issued' = issued, now' >= now,
         Cred(disk') = Cred(disk), UNCHANGED save,
         \A m \in Managers : /\ ~retired'[m] => ~retired[m]
                             /\ Cred(mem'[m]) = Cred(mem[m])
                             /\ adopting'[m] \in {adopting[m], issued}
  PROVE  CredInv'
<1>1. Copies' \subseteq Copies
  <2>1. Cred(disk') \in Copies
    BY CopyOf
  <2>2. ASSUME NEW m \in Managers
        PROVE  /\ ~retired'[m] => Cred(mem'[m]) \in Copies
               /\ ~retired'[m] /\ save'[m].phase = "queued" => Cred(save'[m].snap) \in Copies
               /\ Writing(m)' => Cred(save'[m].out) \in Copies
    BY CopyOf DEF Writing
  <2> QED  BY <2>1, <2>2, CopiesOf
<1>2. disk'.token = disk.token
  BY DEF Cred
<1> QED  BY <1>1, <1>2, CredStays DEF CredInv, Writing

LEMMA SaveCredentials ==
  ASSUME MergeInv, Types, Types', CredInv, NEW m \in Managers,
         CallSave(m) \/ Merge(m) \/ Persist(m)
  PROVE  CredInv'
<1>1. CASE CallSave(m)
  <2>1. /\ UNCHANGED <<now, issued, disk, mem, retired, adopting>>
        /\ save'[m].phase = "queued" /\ save'[m].snap = mem[m]
        /\ \A n \in Managers : n # m => save'[n] = save[n]
    BY <1>1 DEF CallSave, Types, Idle
  <2>2. Copies' \subseteq Copies
    <3>1. ASSUME NEW n \in Managers
          PROVE  /\ ~retired'[n] => Cred(mem'[n]) \in Copies
                 /\ ~retired'[n] /\ save'[n].phase = "queued" => Cred(save'[n].snap) \in Copies
                 /\ Writing(n)' => Cred(save'[n].out) \in Copies
      BY <2>1, CopyOf DEF Writing
    <3>2. Cred(disk') \in Copies
      BY <2>1, CopyOf
    <3> QED  BY <3>1, <3>2, CopiesOf
  <2>3. \A n \in Managers : Writing(n)' => save'[n].out.token = issued
    BY <2>1 DEF CredInv, Writing
  <2> QED  BY <2>1, <2>2, <2>3, CredStays DEF CredInv, Types
<1>2. CASE Persist(m)
  <2>1. /\ UNCHANGED <<now, issued, mem, retired, adopting>> /\ Writing(m)
        /\ disk' \in {disk, save[m].out}
        /\ save'[m].phase = "idle" /\ \A n \in Managers : n # m => save'[n] = save[n]
    BY <1>2, BlankIs DEF Persist, Types, Writing
  <2>2. Copies' \subseteq Copies
    <3>1. ASSUME NEW n \in Managers
          PROVE  /\ ~retired'[n] => Cred(mem'[n]) \in Copies
                 /\ ~retired'[n] /\ save'[n].phase = "queued" => Cred(save'[n].snap) \in Copies
                 /\ Writing(n)' => Cred(save'[n].out) \in Copies
      BY <2>1, CopyOf DEF Writing
    <3>2. Cred(disk') \in Copies
      BY <2>1, CopyOf
    <3> QED  BY <3>1, <3>2, CopiesOf
  <2>3. \A n \in Managers : Writing(n)' => save'[n].out.token = issued
    BY <2>1 DEF CredInv, Writing
  <2>4. disk'.token = issued
    BY <2>1 DEF CredInv
  <2> QED  BY <2>1, <2>2, <2>3, <2>4, CredStays DEF CredInv, Types
<1>3. CASE Merge(m)
  <2> DEFINE out == IF retired[m] THEN VolatileMerge(m) ELSE FullMerge(m)
             mine == [save[m] EXCEPT !.phase = "writing", !.out = out,
                                     !.keep = present, !.full = ~retired[m]]
  <2>1. /\ save' = [save EXCEPT ![m] = mine] /\ save[m].phase = "queued"
        /\ UNCHANGED <<now, issued, disk, retired, adopting>> /\ ~Locked
        /\ mem' = IF present /\ ~retired[m] /\ DiskIsNewer(save[m].snap)
                  THEN [mem EXCEPT ![m].token = disk.token, ![m].stamp = disk.stamp]
                  ELSE mem
    BY <1>3 DEF Merge, Membership
  <2>2. mine.out = out /\ mine.phase = "writing"
    BY CopyTypes DEF SaveStates
  <2>3. Cred(out) \in Copies /\ out.token = issued
    <3>1. TypeOK /\ OneOfBoth(disk) /\ OneOfBoth(save[m].snap)
      BY DEF MergeInv, CopyInv
    <3>2. Cred(disk) \in Copies /\ disk.token = issued
      BY CopyOf DEF CredInv
    <3>3. CASE retired[m]
      <4>1. Cred(out) = Cred(disk)
        BY <3>1, <3>3, VolatileMergeIs
      <4> QED  BY <3>2, <4>1 DEF Cred
    <3>4. CASE ~retired[m]
      <4>1. Cred(out) = IF DiskIsNewer(save[m].snap) THEN Cred(disk) ELSE Cred(save[m].snap)
        BY <3>1, <3>4, FullMergeIs
      <4>2. CASE DiskIsNewer(save[m].snap) BY <3>2, <4>1, <4>2 DEF Cred
      <4>3. CASE ~DiskIsNewer(save[m].snap)
        <5> DEFINE c == Cred(save[m].snap)
        <5>1. c \in Copies /\ c.token = save[m].snap.token /\ c.stamp = save[m].snap.stamp
          BY <2>1, <3>4, CopyOf DEF Cred
        <5>2. Cred(disk).token = disk.token /\ Cred(disk).stamp = disk.stamp
          BY DEF Cred
        <5>3. c.token <= issued /\ (c.token < issued => c.stamp < disk.stamp)
          BY <3>2, <5>1, <5>2 DEF CredInv
        <5>4. c.token \in Nat /\ c.stamp \in Nat /\ issued \in Nat /\ disk.stamp \in Nat
          BY <5>1, CopiesTyped, CopyTypes DEF Types
        <5>5. c.token = issued
          BY <3>2, <4>3, <5>1, <5>3, <5>4 DEF DiskIsNewer
        <5> QED  BY <4>1, <4>3, <5>1, <5>5 DEF Cred
      <4> QED  BY <4>2, <4>3
    <3> QED  BY <3>3, <3>4
  <2> HIDE DEF out, mine
  <2>4. /\ save'[m].phase = "writing" /\ save'[m].out = out
        /\ \A n \in Managers : n # m => save'[n] = save[n] /\ ~Writing(n)
    BY <2>1, <2>2 DEF Types, Locked, Writing
  <2>5. \A n \in Managers : Cred(mem'[n]) \in {Cred(mem[n]), Cred(disk)}
    <3>1. \A n \in Managers :
            \/ mem'[n] = mem[n]
            \/ mem'[n].token = disk.token /\ mem'[n].stamp = disk.stamp
      BY <2>1 DEF Types, Records
    <3> QED  BY <3>1 DEF Cred
  <2>6. Copies' \subseteq Copies
    <3>1. ASSUME NEW n \in Managers
          PROVE  /\ ~retired'[n] => Cred(mem'[n]) \in Copies
                 /\ ~retired'[n] /\ save'[n].phase = "queued" => Cred(save'[n].snap) \in Copies
                 /\ Writing(n)' => Cred(save'[n].out) \in Copies
      BY <2>1, <2>3, <2>4, <2>5, CopyOf DEF Writing
    <3>2. Cred(disk') \in Copies
      BY <2>1, CopyOf
    <3> QED  BY <3>1, <3>2, CopiesOf
  <2>7. \A n \in Managers : Writing(n)' => save'[n].out.token = issued
    BY <2>3, <2>4 DEF Writing
  <2> QED  BY <2>1, <2>6, <2>7, CredStays DEF CredInv, Types
<1> QED  BY <1>1, <1>2, <1>3
\* A credential as new as the clock and the provider's last token.
LEMMA CredGrows ==
  ASSUME Types, Types', CredInv, NEW new, new.token = issued', new.stamp = now',
         Copies' \subseteq Copies \cup {new}, now' >= now, issued' >= issued,
         \A c \in Copies : c.token < issued' => c.stamp < now',
         disk'.token = issued',
         \A m \in Managers : Writing(m)' => save'[m].out.token = issued',
         \A m \in Managers : ~retired'[m] => adopting'[m] \in {NoToken, issued'}
  PROVE  CredInv'
<1>1. \A c \in Copies : c.token \in Nat /\ c.stamp \in Nat /\ c.token <= issued /\ c.stamp <= now
  BY CopiesTyped DEF CredInv
<1>2. now \in Nat /\ now' \in Nat /\ issued \in Nat /\ issued' \in Nat
  BY DEF Types
<1>3. \A c \in Copies' : c.token <= issued' /\ c.stamp <= now'
  BY <1>1, <1>2
<1>4. ASSUME NEW c \in Copies', NEW d \in Copies', c.token < issued', d.token = issued'
      PROVE  c.stamp < d.stamp
  <2>1. c \in Copies
    BY <1>2, <1>4
  <2>2. CASE d = new BY <1>4, <2>1, <2>2
  <2>3. CASE d \in Copies
    <3>1. issued' = issued
      BY <1>1, <1>2, <1>4, <2>3
    <3> QED  BY <1>4, <2>1, <2>3, <3>1 DEF CredInv
  <2> QED  BY <1>4, <2>2, <2>3
<1> QED  BY <1>3, <1>4 DEF CredInv

LEMMA AdoptCredentials ==
  ASSUME Types, Types', CredInv, NEW m \in Managers, Adopt(m)
  PROVE  CredInv'
<1>1. /\ UNCHANGED <<now, issued, disk, retired, save>>
      /\ \A n \in Managers : n # m => mem'[n] = mem[n] /\ adopting'[n] = adopting[n]
      /\ adopting'[m] = NoToken /\ adopting[m] # NoToken
      /\ now \in Nat /\ issued \in Nat
  BY DEF Adopt, Types
<1>2. /\ \A n \in Managers : Writing(n)' => save'[n].out.token = issued'
      /\ \A n \in Managers : ~retired'[n] => adopting'[n] \in {NoToken, issued'}
      /\ disk'.token = issued'
  BY <1>1 DEF CredInv, Writing
<1>3. CASE retired[m] \/ mem' = mem
  <2>1. Copies' \subseteq Copies
    <3>1. ASSUME NEW n \in Managers
          PROVE  /\ ~retired'[n] => Cred(mem'[n]) \in Copies
                 /\ ~retired'[n] /\ save'[n].phase = "queued" => Cred(save'[n].snap) \in Copies
                 /\ Writing(n)' => Cred(save'[n].out) \in Copies
      BY <1>1, <1>3, CopyOf DEF Writing
    <3>2. Cred(disk') \in Copies
      BY <1>1, CopyOf
    <3> QED  BY <3>1, <3>2, CopiesOf
  <2> QED  BY <1>1, <1>2, <2>1, CredStays
<1>4. CASE ~retired[m] /\ mem' # mem
  <2>1. adopting[m] = issued
    BY <1>1, <1>4 DEF CredInv
  <2>2. mem[m].token # issued
        /\ mem' = [mem EXCEPT ![m].token = issued, ![m].stamp = NextStamp(now, mem[m].stamp)]
    BY <1>4, <2>1 DEF Adopt
  <2>3. \A c \in Copies : c.token < issued => c.stamp < now /\ c.stamp \in Nat
    <3>1. TAKE c \in Copies
    <3>2. HAVE c.token < issued
    <3>3. Cred(disk) \in Copies /\ Cred(disk).token = issued /\ Cred(disk).stamp \in Nat
      BY CopyOf, CopyTypes DEF CredInv, Cred
    <3>4. c.stamp < Cred(disk).stamp /\ Cred(disk).stamp <= now
      BY <3>2, <3>3 DEF CredInv
    <3>5. c.stamp \in Nat
      BY CopiesTyped
    <3> QED  BY <1>1, <3>3, <3>4, <3>5
  <2>4. mem[m].stamp < now /\ mem[m].stamp \in Nat
    <3>1. Cred(mem[m]) \in Copies
      BY <1>4, CopyOf
    <3>2. Cred(mem[m]).token = mem[m].token /\ Cred(mem[m]).stamp = mem[m].stamp
      BY DEF Cred
    <3>3. mem[m].token \in Nat /\ mem[m].token <= issued
      BY <3>1, <3>2, CopyTypes DEF CredInv
    <3>4. mem[m].token < issued
      BY <1>1, <2>2, <3>3
    <3> QED  BY <2>3, <3>1, <3>2, <3>4, CopyTypes
  <2>5. NextStamp(now, mem[m].stamp) = now
    BY <1>1, <2>4, NextStampIs
  <2> DEFINE new == [token |-> issued, stamp |-> now]
  <2>6. Cred(mem'[m]) = new
    <3>1. mem' = [mem EXCEPT ![m] = WithToken(mem[m], issued, now)]
      BY <2>2, <2>5 DEF WithToken
    <3>2. mem'[m] = WithToken(mem[m], issued, now) /\ mem[m] \in Records
      BY <3>1, CopyTypes DEF Types
    <3>3. mem'[m].token = issued /\ mem'[m].stamp = now
      BY <3>2, TokenFields
    <3> QED  BY <3>3 DEF Cred
  <2>7. Copies' \subseteq Copies \cup {new}
    <3>1. ASSUME NEW n \in Managers
          PROVE  /\ ~retired'[n] => Cred(mem'[n]) \in Copies \cup {new}
                 /\ ~retired'[n] /\ save'[n].phase = "queued" =>
                      Cred(save'[n].snap) \in Copies \cup {new}
                 /\ Writing(n)' => Cred(save'[n].out) \in Copies \cup {new}
      BY <1>1, <2>6, CopyOf DEF Writing
    <3>2. Cred(disk') \in Copies \cup {new}
      BY <1>1, CopyOf
    <3> QED  BY <3>1, <3>2, CopiesOf
  <2>8. new.token = issued' /\ new.stamp = now'
    BY <1>1
  <2> HIDE DEF new
  <2> QED  BY <1>1, <1>2, <2>3, <2>7, <2>8, CredGrows
<1> QED  BY <1>3, <1>4

LEMMA ExchangeCredentials ==
  ASSUME Types, Types', CredInv, ~Locked, Exchange, UNCHANGED <<mem, retired, save>>,
         \A m \in Managers : ~retired[m] => adopting'[m] \in {NoToken, issued'}
  PROVE  CredInv'
<1>1. now \in Nat /\ issued \in Nat /\ TypeOK
  BY TypesAre DEF Types
<1>2. disk.stamp <= now
  <2>1. Cred(disk) \in Copies /\ Cred(disk).stamp = disk.stamp
    BY CopyOf DEF Cred
  <2> QED  BY <2>1 DEF CredInv
<1>3. /\ now' = now + 1 /\ issued' = issued + 1
      /\ disk'.token = issued + 1 /\ disk'.stamp = now'
  BY <1>1, <1>2, ExchangeTypes
<1> DEFINE new == Cred(disk')
<1>4. new.token = issued' /\ new.stamp = now'
  BY <1>3 DEF Cred
<1>5. \A m \in Managers : ~Writing(m) /\ ~Writing(m)'
  BY DEF Locked, Writing
<1>6. Copies' \subseteq Copies \cup {new}
  <2>1. ASSUME NEW n \in Managers
        PROVE  /\ ~retired'[n] => Cred(mem'[n]) \in Copies \cup {new}
               /\ ~retired'[n] /\ save'[n].phase = "queued" =>
                    Cred(save'[n].snap) \in Copies \cup {new}
               /\ Writing(n)' => Cred(save'[n].out) \in Copies \cup {new}
    BY <1>5, CopyOf
  <2> QED  BY <2>1, CopiesOf
<1> HIDE DEF new
<1>7. \A c \in Copies : c.stamp < now'
  <2>1. TAKE c \in Copies
  <2>2. c.stamp \in Nat /\ c.stamp <= now
    BY CopiesTyped DEF CredInv
  <2> QED  BY <1>1, <1>3, <2>2
<1>8. now' >= now /\ issued' >= issued /\ disk'.token = issued'
  BY <1>1, <1>3
<1> QED  BY <1>4, <1>5, <1>6, <1>7, <1>8, CredGrows

LEMMA LoginCredentials ==
  ASSUME Types, Types', CredInv, Hazards = {}, Login
  PROVE  CredInv'
<1>1. /\ \A m \in Managers : retired[m] /\ retired'[m] /\ ~Writing(m)'
      /\ now \in Nat /\ issued \in Nat /\ issued' = issued + 1 /\ now' = now
  BY DEF Login, Locked, Writing, Types
<1>2. disk.stamp <= now /\ disk.stamp \in Nat
  <2>1. Cred(disk) \in Copies /\ Cred(disk).stamp = disk.stamp
    BY CopyOf DEF Cred
  <2> QED  BY <2>1, CopyTypes DEF CredInv
<1>3. disk'.token = issued' /\ disk'.stamp <= now
  <2>1. CASE present BY <1>1, <1>2, <2>1 DEF Login, Types, Records
  <2>2. CASE ~present BY <1>1, <2>2 DEF Login, Blank, None
  <2> QED  BY <2>1, <2>2
<1>4. Copies' \subseteq {Cred(disk')}
  <2>1. \A n \in Managers :
          /\ ~retired'[n] => Cred(mem'[n]) \in {Cred(disk')}
          /\ ~retired'[n] /\ save'[n].phase = "queued" => Cred(save'[n].snap) \in {Cred(disk')}
          /\ Writing(n)' => Cred(save'[n].out) \in {Cred(disk')}
    BY <1>1
  <2> QED  BY <2>1, CopiesOf
<1>5. \A c \in Copies' : c.token = issued' /\ c.stamp <= now'
  BY <1>1, <1>3, <1>4 DEF Cred
<1>6. /\ \A c \in Copies' : c.token <= issued' /\ c.stamp <= now'
      /\ \A c, d \in Copies' : c.token < issued' /\ d.token = issued' => c.stamp < d.stamp
  BY <1>1, <1>5
<1> QED  BY <1>1, <1>3, <1>6 DEF CredInv
LEMMA CredKept ==
  ASSUME Hazards = {}, MergeInv, MergeInv', CredInv, [Next]_vars
  PROVE  CredInv' /\ issued' >= issued
<1>1. Types /\ Types'
  <2>1. TypeOK' => Types'
    BY TypesAre, PTL
  <2> QED  BY <2>1, TypesAre DEF MergeInv
<1>2. now \in Nat /\ now' \in Nat /\ issued \in Nat /\ issued' \in Nat /\ disk.token = issued
  BY <1>1 DEF Types, CredInv
<1>3. ASSUME Exchange
      PROVE  issued' >= issued /\ \A n \in Managers : adopting[n] = NoToken
  BY <1>2, <1>3, Hazards = {} DEF Exchange, MayExchange
<1>4. ASSUME NEW m \in Managers, CallSave(m) \/ Merge(m) \/ Persist(m)
      PROVE  CredInv' /\ issued' >= issued
  <2>1. issued' = issued
    BY <1>4 DEF CallSave, Merge, Persist
  <2> QED  BY <1>1, <1>2, <1>4, <2>1, SaveCredentials
<1>5. ASSUME NEW m \in Managers, Refresh(m) PROVE CredInv' /\ issued' >= issued
  <2>1. ~Locked /\ UNCHANGED <<mem, retired, save>>
    BY <1>5 DEF Refresh
  <2>2. CASE /\ adopting' = [adopting EXCEPT ![m] = disk.token]
             /\ UNCHANGED <<now, issued, disk>>
    <3>1. \A n \in Managers : adopting'[n] \in {adopting[n], issued}
      BY <1>1, <1>2, <2>2 DEF Types
    <3> QED  BY <1>1, <1>2, <2>1, <2>2, <3>1, SameCredentials
  <2>3. CASE Exchange /\ adopting' = [adopting EXCEPT ![m] = issued']
    <3>1. \A n \in Managers : adopting'[n] \in {NoToken, issued'}
      BY <1>1, <1>3, <2>3 DEF Types
    <3> QED  BY <1>1, <1>3, <2>1, <2>3, <3>1, ExchangeCredentials
  <2> QED  BY <1>5, <2>2, <2>3 DEF Refresh
<1>6. CASE ToolRefresh
  <2>1. ~Locked /\ UNCHANGED <<mem, retired, save, adopting>> /\ Exchange
    BY <1>6 DEF ToolRefresh
  <2>2. \A n \in Managers : adopting'[n] \in {NoToken, issued'}
    BY <1>3, <2>1
  <2> QED  BY <1>1, <1>3, <2>1, <2>2, ExchangeCredentials
<1>7. ASSUME NEW m \in Managers, Adopt(m) PROVE CredInv' /\ issued' >= issued
  <2>1. CredInv'
    BY <1>1, <1>7, AdoptCredentials
  <2>2. issued' = issued
    BY <1>7 DEF Adopt
  <2> QED  BY <1>2, <2>1, <2>2
<1>8. CASE Login
  <2>1. issued' >= issued
    BY <1>2, <1>8 DEF Login
  <2> QED  BY <1>1, <1>8, <2>1, Hazards = {}, LoginCredentials
<1>9. ASSUME NEW m \in Managers,
             \/ Disable(m) \/ ExpireQuota(m)
             \/ \E reset \in Resets : MarkQuota(m, reset)
             \/ \E external \in BOOLEAN : Retire(m, external)
      PROVE  CredInv' /\ issued' >= issued
  <2>1. UNCHANGED <<now, issued, disk, save, adopting>>
    BY <1>9 DEF Disable, ExpireQuota, MarkQuota, Retire
  <2>2. \A n \in Managers : ~retired'[n] => ~retired[n]
    BY <1>1, <1>9 DEF Disable, ExpireQuota, MarkQuota, Retire, Types
  <2>3. \A n \in Managers : mem'[n].token = mem[n].token /\ mem'[n].stamp = mem[n].stamp
    <3>1. CASE Disable(m) BY <1>1, <3>1 DEF Disable, Types, Records
    <3>2. CASE ExpireQuota(m) BY <1>1, <3>2 DEF ExpireQuota, Types, Records
    <3>3. ASSUME NEW reset \in Resets, MarkQuota(m, reset)
          PROVE  \A n \in Managers : mem'[n].token = mem[n].token /\ mem'[n].stamp = mem[n].stamp
      BY <1>1, <3>3 DEF MarkQuota, Types, Records
    <3>4. ASSUME NEW external \in BOOLEAN, Retire(m, external)
          PROVE  \A n \in Managers : mem'[n].token = mem[n].token /\ mem'[n].stamp = mem[n].stamp
      BY <3>4 DEF Retire
    <3> QED  BY <1>9, <3>1, <3>2, <3>3, <3>4
  <2>4. \A n \in Managers : Cred(mem'[n]) = Cred(mem[n])
    BY <2>3 DEF Cred
  <2> QED  BY <1>1, <1>2, <2>1, <2>2, <2>4, SameCredentials
<1>10. ASSUME \/ ClearQuota \/ Remove \/ Tick \/ UNCHANGED vars
              \/ \E enabled \in BOOLEAN : SetEnabled(enabled)
       PROVE  CredInv' /\ issued' >= issued
  <2>1. UNCHANGED <<issued, mem, retired, save, adopting>> /\ now' >= now
    BY <1>2, <1>10 DEF ClearQuota, Remove, Tick, SetEnabled, vars
  <2>2. disk'.token = disk.token /\ disk'.stamp = disk.stamp
    BY <1>1, <1>10 DEF ClearQuota, Remove, Tick, SetEnabled, vars, Types, Records
  <2>3. Cred(disk') = Cred(disk)
    BY <2>2 DEF Cred
  <2> QED  BY <1>1, <1>2, <2>1, <2>3, SameCredentials
<1>11. ASSUME NEW m \in Managers, Load(m) PROVE CredInv' /\ issued' >= issued
  <2>1. /\ UNCHANGED <<now, issued, disk>> /\ mem'[m] = disk
        /\ adopting'[m] = NoToken /\ save'[m].phase = "idle"
        /\ \A n \in Managers : n # m => /\ mem'[n] = mem[n] /\ adopting'[n] = adopting[n]
                                        /\ save'[n] = save[n] /\ retired'[n] = retired[n]
    BY <1>1, <1>11, BlankIs DEF Load, Types
  <2>2. Copies' \subseteq Copies
    <3>1. ASSUME NEW n \in Managers
          PROVE  /\ ~retired'[n] => Cred(mem'[n]) \in Copies
                 /\ ~retired'[n] /\ save'[n].phase = "queued" => Cred(save'[n].snap) \in Copies
                 /\ Writing(n)' => Cred(save'[n].out) \in Copies
      BY <2>1, CopyOf DEF Writing
    <3>2. Cred(disk') \in Copies
      BY <2>1, CopyOf
    <3> QED  BY <3>1, <3>2, CopiesOf
  <2>3. \A n \in Managers : Writing(n)' => save'[n].out.token = issued
    BY <2>1 DEF CredInv, Writing
  <2>4. \A n \in Managers : ~retired'[n] => adopting'[n] \in {NoToken, issued}
    BY <2>1 DEF CredInv
  <2> QED  BY <1>1, <1>2, <2>1, <2>2, <2>3, <2>4, CredStays
<1> QED BY <1>4, <1>5, <1>6, <1>7, <1>8, <1>9, <1>10, <1>11 DEF Next, ManagerStep

LEMMA InitCred == Init => CredInv
<1> SUFFICES ASSUME Init PROVE CredInv
  OBVIOUS
<1>1. /\ now = 1 /\ issued = 0 /\ disk = Blank(0)
      /\ \A m \in Managers : /\ mem[m] = Blank(0) /\ save[m] = Idle
                             /\ adopting[m] = NoToken
  BY DEF Init
<1>2. \A m \in Managers : save[m].phase = "idle"
  BY <1>1, BlankIs
<1>3. \A c \in Copies : c = Cred(Blank(0))
  BY <1>1, <1>2, CopyOf DEF Writing
<1>4. Cred(Blank(0)) = [token |-> 0, stamp |-> 0] /\ disk.token = 0
  BY <1>1 DEF Cred, Blank, None
<1> QED  BY <1>1, <1>2, <1>3, <1>4 DEF CredInv, Writing

(***************************************************************************)
(* persistence.ts:98-109: while no login happens under managers that still *)
(* hold the old account, and no rotation before an earlier one is in its   *)
(* manager's memory, no save of any manager, however stale its snapshot,   *)
(* replaces the stored refresh token by one issued before it.              *)
(***************************************************************************)
THEOREM StaleSavesKeepTheToken ==
  ASSUME Hazards = {}
  PROVE  Spec => CredentialsNeverRegress
<1>1. Init => MergeInv /\ CredInv
  BY InitMerge, InitCred
<1>2. MergeInv /\ CredInv /\ [Next]_vars => (MergeInv /\ CredInv)'
  BY Hazards = {}, MergeKept, CredKept
<1>3. MergeInv /\ CredInv /\ [Next]_vars => [present /\ present' => disk'.token >= disk.token]_vars
  <2> SUFFICES ASSUME MergeInv, CredInv, [Next]_vars PROVE disk'.token >= disk.token
    OBVIOUS
  <2>1. MergeInv' /\ CredInv' /\ issued' >= issued
    BY Hazards = {}, MergeKept, CredKept
  <2> QED  BY <2>1 DEF CredInv
<1> QED  BY <1>1, <1>2, <1>3, PTL DEF Spec, CredentialsNeverRegress
=============================================================================
