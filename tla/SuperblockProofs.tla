-------------------------- MODULE SuperblockProofs --------------------------
(***************************************************************************)
(* Proofs about SuperblockStore, for every number of copies the code       *)
(* accepts, any number of persists, crashes and torn writes.               *)
(***************************************************************************)
EXTENDS SuperblockStore, FiniteSetTheorems, TLAPS

(* The inductive invariant, in parts. *)

Successor(b) == {Append(b, v) : v \in 0 .. MaxView}

\* Copies that decode and are older than the acknowledged superblock.
Stale == {i \in Index : disk[i] # Invalid /\ Len(disk[i]) < Len(acked)}

\* Every copy is invalid, older than the acknowledged superblock, equal to it, or a
\* successor of it.
CopiesNearAcked ==
    \A i \in Index :
        disk[i] = Invalid \/ Len(disk[i]) < Len(acked) \/ disk[i] \in {acked} \cup Successor(acked)

\* A persist leaves too few old copies to form an open quorum.
FewStale == Cardinality(Stale) <= Copies - superblockWriteCopies

\* Copies of equal sequence number are equal.
OnePerSequence == \A i, j \in Index : Len(disk[i]) = Len(disk[j]) => disk[i] = disk[j]

FormatInv ==
    phase = "format" =>
        /\ acked = Invalid /\ next = <<0>> /\ step < superblockWriteCopies
        /\ \A i \in Index : disk[i] \in {Invalid, <<0>>}

RepairInv ==
    phase = "repair" =>
        /\ current \in {acked} \cup Successor(acked) /\ current # Invalid
        /\ \A i \in Index : Len(disk[i]) = Len(current) => disk[i] = current
        /\ pending => NeedRepair # {}

StoreOpenInv ==
    phase = "open" => current = acked /\ \A i \in Index : Len(disk[i]) <= Len(acked)

PersistInv ==
    phase = "persist" =>
        /\ current = acked /\ next \in Successor(acked) /\ step < superblockWriteCopies
        /\ \A i \in Index : Len(disk[i]) <= Len(acked) \/ disk[i] = next
        /\ \A j \in 0 .. Copies : j < step => disk[(Len(next) + j) % Copies] = next

PendingInv == pending => phase \in {"format", "repair", "persist"}

IInv ==
    /\ TypeOK /\ CopiesNearAcked /\ FewStale /\ OnePerSequence
    /\ FormatInv /\ RepairInv /\ StoreOpenInv /\ PersistInv /\ PendingInv

----------------------------------------------------------------------------
(* Lemmas about the quorum table and the rotation of the written copies. *)

\* What superblockOpenQuorum and superblockWriteCopies make of the accepted numbers
\* of copies: an open quorum intersects every set of written copies.
LEMMA QuorumTable ==
    /\ Copies \in Nat /\ superblockOpenQuorum \in Nat /\ superblockWriteCopies \in Nat
    /\ 1 < superblockOpenQuorum /\ superblockOpenQuorum <= superblockWriteCopies
    /\ superblockWriteCopies < Copies
    /\ Copies - superblockWriteCopies < superblockOpenQuorum
BY CopiesAssumption DEF superblockOpenQuorum, superblockWriteCopies

\* Index is finite.
LEMMA IndexFinite == IsFiniteSet(Index) /\ \A S \in SUBSET Index : IsFiniteSet(S)
<1>1. IsFiniteSet(Index)
  BY QuorumTable, FS_Interval DEF Index
<1>2. QED
  BY <1>1, FS_Subset

\* Starting anywhere, Copies consecutive steps of the rotation visit every copy.
LEMMA RotationCovers ==
    ASSUME NEW base \in Nat, NEW i \in Index
    PROVE  \E j \in 0 .. Copies - 1 : i = (base + j) % Copies
<1>1. CASE Copies = 4
  <2>1. \/ i = (base + 0) % 4 \/ i = (base + 1) % 4 \/ i = (base + 2) % 4 \/ i = (base + 3) % 4
    BY <1>1 DEF Index
  <2>2. QED
    BY <1>1, <2>1
<1>2. CASE Copies = 6
  <2>1. \/ i = (base + 0) % 6 \/ i = (base + 1) % 6 \/ i = (base + 2) % 6
        \/ i = (base + 3) % 6 \/ i = (base + 4) % 6 \/ i = (base + 5) % 6
    BY <1>2 DEF Index
  <2>2. QED
    BY <1>2, <2>1
<1>3. CASE Copies = 8
  <2>1. \/ i = (base + 0) % 8 \/ i = (base + 1) % 8 \/ i = (base + 2) % 8 \/ i = (base + 3) % 8
        \/ i = (base + 4) % 8 \/ i = (base + 5) % 8 \/ i = (base + 6) % 8 \/ i = (base + 7) % 8
    BY <1>3 DEF Index
  <2>2. QED
    BY <1>3, <2>1
<1>4. QED
  BY <1>1, <1>2, <1>3, CopiesAssumption

\* A set that contains none of the copies a persist wrote has at most
\* Copies - superblockWriteCopies members.
LEMMA UnwrittenFew ==
    ASSUME NEW base \in Nat, NEW S \in SUBSET Index,
           \A j \in 0 .. superblockWriteCopies - 1 : (base + j) % Copies \notin S
    PROVE  Cardinality(S) <= Copies - superblockWriteCopies
<1> DEFINE n == Copies - superblockWriteCopies
           f == [k \in 1 .. n |-> (base + (superblockWriteCopies - 1 + k)) % Copies]
           T == {f[k] : k \in 1 .. n}
<1>1. n \in Nat
  BY QuorumTable
<1>2. f \in Surjection(1 .. n, T)
  BY DEF Surjection
<1>3. Cardinality(T) <= n
  BY Zenon, <1>1, <1>2, FS_SurjCardinalityBound DEF ExistsSurjection
<1>4. S \subseteq T
  <2> SUFFICES ASSUME NEW i \in S PROVE i \in T
    OBVIOUS
  <2>1. PICK j \in 0 .. Copies - 1 : i = (base + j) % Copies
    BY RotationCovers
  <2>2. ~(j \in 0 .. superblockWriteCopies - 1)
    BY <2>1
  <2>3. j - superblockWriteCopies + 1 \in 1 .. n
    BY <2>2, QuorumTable
  <2>4. f[j - superblockWriteCopies + 1] = (base + j) % Copies
    BY <2>3, QuorumTable
  <2>5. QED
    BY <2>1, <2>3, <2>4
<1>5. IsFiniteSet(T)
  <2>1. IsFiniteSet(1 .. n)
    BY <1>1, FS_Interval
  <2>2. QED
    BY <1>2, <2>1, FS_Surjection
<1>6. Cardinality(S) <= Cardinality(T) /\ IsFiniteSet(S)
  BY <1>4, <1>5, FS_Subset
<1>7. Cardinality(S) \in Nat /\ Cardinality(T) \in Nat
  BY <1>5, <1>6, FS_CardinalityType
<1>8. QED
  BY <1>1, <1>3, <1>6, <1>7

\* repairCopies writes a copy that exists: the first of a nonempty set of copies.
LEMMA FirstExists ==
    ASSUME NEW S \in SUBSET Index, S # {}
    PROVE  \E i \in S : \A j \in S : i <= j
<1> DEFINE least(n) == n \in S /\ \A j \in S : n <= j
<1>1. \A n \in Index : n \in 0 .. 7
  BY CopiesAssumption DEF Index
<1>2. CASE 0 \in S
  BY <1>1, <1>2
<1>3. CASE 0 \notin S /\ 1 \in S
  BY <1>1, <1>3
<1>4. CASE 0 \notin S /\ 1 \notin S /\ 2 \in S
  BY <1>1, <1>4
<1>5. CASE 0 \notin S /\ 1 \notin S /\ 2 \notin S /\ 3 \in S
  BY <1>1, <1>5
<1>6. CASE 0 \notin S /\ 1 \notin S /\ 2 \notin S /\ 3 \notin S
  BY <1>1, <1>6
<1>7. QED
  BY <1>2, <1>3, <1>4, <1>5, <1>6

----------------------------------------------------------------------------
(* The steps. *)

\* The copy an outstanding write names exists.
LEMMA TargetInIndex ==
    ASSUME IInv, pending
    PROVE  Target \in Index
<1>1. CASE phase = "format"
  BY <1>1, QuorumTable DEF IInv, FormatInv, TypeOK, Target, Index
<1>2. CASE phase = "repair"
  <2>1. NeedRepair \in SUBSET Index /\ NeedRepair # {}
    BY <1>2 DEF IInv, RepairInv, NeedRepair
  <2>2. FirstToRepair \in NeedRepair
    BY <2>1, FirstExists DEF FirstToRepair
  <2>3. QED
    BY <1>2, <2>1, <2>2 DEF Target
<1>3. CASE phase = "persist"
  <2>1. Target = (Len(next) + step) % Copies
    BY <1>3 DEF Target
  <2>2. Len(next) + step \in Nat /\ Copies \in Nat /\ Copies > 0
    BY <1>3, QuorumTable DEF IInv, TypeOK, BlockType
  <2>3. QED
    BY <2>1, <2>2 DEF Index
<1>4. QED
  BY <1>1, <1>2, <1>3 DEF IInv, PendingInv

\* Overwriting a copy with the acknowledged superblock or a successor of it, or
\* losing it, makes no copy stale.
LEMMA StaleShrinks ==
    ASSUME IInv, NEW t \in Index, NEW b \in BlockType,
           b \in {Invalid, acked} \cup Successor(acked),
           disk' = [disk EXCEPT ![t] = b], acked' = acked
    PROVE  CopiesNearAcked' /\ FewStale'
<1>1. CopiesNearAcked'
  BY DEF IInv, TypeOK, CopiesNearAcked, Successor
<1>2. acked \in Seq(Nat) /\ disk \in [Index -> Seq(Nat)]
  BY DEF IInv, TypeOK, BlockType
<1>3. b = Invalid \/ ~(Len(b) < Len(acked))
  BY <1>2 DEF Successor
<1>4. Stale' \subseteq Stale
  BY <1>2, <1>3 DEF Stale
<1>5. IsFiniteSet(Stale) /\ IsFiniteSet(Stale')
  <2>1. Stale \in SUBSET Index /\ Stale' \in SUBSET Index
    BY DEF Stale
  <2>2. QED
    BY <2>1, IndexFinite
<1>6. Cardinality(Stale') <= Cardinality(Stale)
  BY <1>4, <1>5, FS_Subset
<1>7. Cardinality(Stale') \in Nat /\ Cardinality(Stale) \in Nat
  BY <1>5, FS_CardinalityType
<1>8. FewStale'
  BY <1>6, <1>7, QuorumTable DEF IInv, FewStale
<1>9. QED
  BY <1>1, <1>8

\* The selection is the acknowledged superblock or a successor of it.
LEMMA SelectionNearAcked ==
    ASSUME IInv, Electable # {}
    PROVE  SelectSuperblock \in Values /\ SelectSuperblock \in {acked} \cup Successor(acked)
<1>1. acked \in Seq(Nat) /\ disk \in [Index -> Seq(Nat)]
  BY DEF IInv, TypeOK, BlockType
<1>2. ASSUME NEW b \in Electable
      PROVE  b \in {acked} \cup Successor(acked)
  <2> DEFINE C == {i \in Index : disk[i] = b}
  <2>0. Count(b) \in Nat
    BY IndexFinite, FS_CardinalityType DEF Count
  <2>1. b \in Values /\ Count(b) >= superblockOpenQuorum
    BY QuorumTable, <1>2, <2>0 DEF Electable, RequiredQuorum
  <2>2. PICK i \in Index : disk[i] = b /\ b # Invalid
    BY <2>1 DEF Values
  <2>3. CASE Len(b) < Len(acked)
    <3>1. C \subseteq Stale
      BY <2>2, <2>3 DEF Stale
    <3>2. IsFiniteSet(Stale) /\ IsFiniteSet(C)
      <4>1. Stale \in SUBSET Index /\ C \in SUBSET Index
        BY DEF Stale
      <4>2. QED
        BY <4>1, IndexFinite
    <3>3. Cardinality(C) <= Cardinality(Stale)
      BY <3>1, <3>2, FS_Subset
    <3>4. Cardinality(C) \in Nat /\ Cardinality(Stale) \in Nat
      BY <3>2, FS_CardinalityType
    <3>5. Cardinality(C) >= superblockOpenQuorum
      BY <2>1 DEF Count
    <3>6. QED
      BY <3>3, <3>4, <3>5, QuorumTable DEF IInv, FewStale
  <2>4. QED
    BY <2>2, <2>3 DEF IInv, CopiesNearAcked
<1>3. \E b \in Electable : \A c \in Electable : Len(c) <= Len(b)
  <2>1. CASE \E b \in Electable : Len(b) = Len(acked) + 1
    <3>1. PICK b \in Electable : Len(b) = Len(acked) + 1
      BY <2>1
    <3>2. \A c \in Electable : Len(c) <= Len(b)
      BY <1>1, <1>2, <3>1 DEF Successor
    <3>3. QED
      BY <3>1, <3>2
  <2>2. CASE ~\E b \in Electable : Len(b) = Len(acked) + 1
    <3>1. PICK b \in Electable : TRUE
      OBVIOUS
    <3>2. \A c \in Electable : c = acked
      BY <1>1, <1>2, <2>2 DEF Successor
    <3>3. QED
      BY <1>1, <3>1, <3>2
  <2>3. QED
    BY <2>1, <2>2
<1>4. SelectSuperblock \in Electable
  BY <1>3 DEF SelectSuperblock
<1>5. QED
  BY <1>2, <1>4 DEF Electable

\* Initially the invariant holds.
LEMMA InitIInv == Init => IInv
<1> SUFFICES ASSUME Init PROVE IInv
  OBVIOUS
<1>1. TypeOK
  <2>1. << >> \in Seq(Nat) /\ <<0>> \in Seq(Nat)
    OBVIOUS
  <2>2. disk \in [Index -> Seq(Nat)]
    BY <2>1 DEF Init, Invalid
  <2>3. current \in Seq(Nat) /\ next \in Seq(Nat) /\ acked \in Seq(Nat)
    BY <2>1 DEF Init, Invalid
  <2>4. step \in 0 .. superblockWriteCopies /\ damage \subseteq {"torn", "cutRepair"}
    BY QuorumTable DEF Init
  <2>5. phase \in Phases /\ result \in Results /\ pending \in BOOLEAN
    BY Zenon DEF Init, Phases, Results
  <2>6. QED
    BY <2>2, <2>3, <2>4, <2>5 DEF TypeOK, BlockType
<1>2. FewStale
  <2>1. Stale = {}
    BY DEF Init, Stale
  <2>2. QED
    BY <2>1, FS_EmptySet, QuorumTable DEF FewStale
<1>3. CopiesNearAcked /\ OnePerSequence
  BY DEF Init, CopiesNearAcked, OnePerSequence
<1>4. FormatInv /\ RepairInv /\ StoreOpenInv /\ PersistInv /\ PendingInv
  BY QuorumTable DEF Init, FormatInv, RepairInv, StoreOpenInv, PersistInv, PendingInv
<1>5. QED
  BY <1>1, <1>2, <1>3, <1>4 DEF IInv

\* Every step preserves the invariant.
LEMMA NextIInv == IInv /\ [Next]_vars => IInv'
<1> SUFFICES ASSUME IInv, [Next]_vars PROVE IInv'
  OBVIOUS
<1> USE QuorumTable, BoundsAssumption
<1>t. /\ disk \in [Index -> Seq(Nat)] /\ step \in Nat /\ pending \in BOOLEAN
      /\ current \in Seq(Nat) /\ next \in Seq(Nat) /\ acked \in Seq(Nat)
  BY DEF IInv, TypeOK, BlockType
<1>1. CASE WriteCopy
  <2>1. TypeOK'
    BY <1>1 DEF WriteCopy, IInv, TypeOK
  <2>2. CopiesNearAcked' /\ FewStale' /\ OnePerSequence'
    BY <1>1 DEF WriteCopy, IInv, CopiesNearAcked, FewStale, Stale, OnePerSequence
  <2>3. FormatInv' /\ StoreOpenInv' /\ PersistInv'
    BY <1>1 DEF WriteCopy, IInv, FormatInv, StoreOpenInv, PersistInv
  <2>4. RepairInv' /\ PendingInv'
    BY <1>1 DEF WriteCopy, IInv, RepairInv, PendingInv, NeedRepair
  <2>5. QED
    BY <2>1, <2>2, <2>3, <2>4 DEF IInv
<1>2. CASE FormatSync
  <2>1. Target \in Index /\ Target = step
    BY <1>2, TargetInIndex DEF FormatSync, Target
  <2>2. /\ acked = Invalid /\ next = <<0>> /\ step < superblockWriteCopies
        /\ \A i \in Index : disk[i] \in {Invalid, <<0>>}
    BY <1>2 DEF FormatSync, IInv, FormatInv
  <2>3. \A i \in Index : disk'[i] \in {Invalid, <<0>>}
    BY <1>t, <1>2, <2>1, <2>2 DEF FormatSync
  <2>4. TypeOK'
    <3>1. disk' \in [Index -> Seq(Nat)] /\ step' \in 0 .. superblockWriteCopies
      BY <1>t, <1>2, <2>1, <2>2 DEF FormatSync
    <3>2. acked' \in Seq(Nat) /\ phase' \in Phases
      BY <1>t, <1>2 DEF FormatSync, Phases
    <3>3. QED
      BY Zenon, <1>2, <3>1, <3>2 DEF FormatSync, IInv, TypeOK, BlockType
  <2>5. OnePerSequence'
    <3>1. Len(Invalid) = 0 /\ Len(<<0>>) = 1
      BY DEF Invalid
    <3>2. QED
      BY <2>3, <3>1 DEF OnePerSequence
  <2>6. acked' \in {Invalid, <<0>>}
    BY <1>2, <2>2 DEF FormatSync
  <2>7. CopiesNearAcked'
    <3>1. <<0>> = Append(Invalid, 0) /\ 0 \in 0 .. MaxView
      BY DEF Invalid
    <3>2. <<0>> \in Successor(Invalid)
      BY <3>1 DEF Successor
    <3>3. QED
      BY <2>3, <2>6, <3>2 DEF CopiesNearAcked
  <2>8. FewStale'
    <3>1. Stale' = {}
      BY <2>3, <2>6 DEF Stale, Invalid
    <3>2. QED
      BY <3>1, FS_EmptySet DEF FewStale
  <2>9. FormatInv' /\ RepairInv' /\ StoreOpenInv' /\ PersistInv' /\ PendingInv'
    BY <1>2, <1>t, <2>2, <2>3
    DEF FormatSync, FormatInv, RepairInv, StoreOpenInv, PersistInv, PendingInv
  <2>10. QED
    BY <2>4, <2>5, <2>7, <2>8, <2>9 DEF IInv
<1>3. CASE OpenSuperblockStore
  <2>1. TypeOK'
    <3>1. current' \in Seq(Nat)
      <4>1. CASE OpenResult = "ok"
        <5>1. SelectSuperblock \in Values
          BY <4>1, SelectionNearAcked DEF OpenResult, NothingDecodes
        <5>2. QED
          BY <1>3, <1>t, <4>1, <5>1 DEF OpenSuperblockStore, Values
      <4>2. QED
        BY <1>3, <1>t, <4>1 DEF OpenSuperblockStore
    <3>2. OpenResult \in Results
      BY DEF OpenResult, NothingDecodes, Results
    <3>3. QED
      BY <1>3, <3>1, <3>2 DEF OpenSuperblockStore, IInv, TypeOK, BlockType, Phases
  <2>2. CopiesNearAcked' /\ FewStale' /\ OnePerSequence'
    BY <1>3 DEF OpenSuperblockStore, IInv, CopiesNearAcked, FewStale, Stale, OnePerSequence
  <2>3. FormatInv' /\ StoreOpenInv' /\ PersistInv' /\ PendingInv'
    BY <1>3 DEF OpenSuperblockStore, IInv, FormatInv, StoreOpenInv, PersistInv, PendingInv
  <2>4. RepairInv'
    <3>1. CASE OpenResult = "ok"
      <4>1. current' \in Values /\ current' \in {acked} \cup Successor(acked)
        BY <1>3, <3>1, SelectionNearAcked DEF OpenSuperblockStore, OpenResult, NothingDecodes
      <4>2. PICK k \in Index : disk[k] = current' /\ current' # Invalid
        BY <4>1 DEF Values
      <4>3. \A i \in Index : Len(disk[i]) = Len(current') => disk[i] = current'
        BY <4>2 DEF IInv, OnePerSequence
      <4>4. ~pending'
        BY <1>3 DEF OpenSuperblockStore, IInv, PendingInv
      <4>5. QED
        BY <1>3, <4>1, <4>2, <4>3, <4>4 DEF OpenSuperblockStore, RepairInv, Successor
    <3>2. QED
      BY <1>3, <3>1 DEF OpenSuperblockStore, RepairInv
  <2>5. QED
    BY <2>1, <2>2, <2>3, <2>4 DEF IInv
<1>4. CASE RepairSync
  <2>1. Target \in Index /\ phase = "repair"
    BY <1>4, TargetInIndex DEF RepairSync
  <2>2. /\ current \in {acked} \cup Successor(acked) /\ current # Invalid
        /\ \A i \in Index : Len(disk[i]) = Len(current) => disk[i] = current
    BY <2>1 DEF IInv, RepairInv
  <2>3. /\ disk' = [disk EXCEPT ![Target] = current]
        /\ UNCHANGED <<phase, step, current, next, acked, damage, result>> /\ ~pending'
    BY <1>4 DEF RepairSync
  <2>4. CopiesNearAcked' /\ FewStale'
    BY Zenon, <1>t, <2>1, <2>2, <2>3, StaleShrinks DEF BlockType
  <2>5. TypeOK'
    BY Zenon, <1>t, <1>4, <2>1, <2>3 DEF RepairSync, IInv, TypeOK, BlockType
  <2>6. OnePerSequence'
    BY <1>t, <2>1, <2>2, <2>3 DEF IInv, OnePerSequence
  <2>7. RepairInv'
    BY <1>t, <2>1, <2>2, <2>3 DEF RepairInv, Successor
  <2>8. FormatInv' /\ StoreOpenInv' /\ PersistInv' /\ PendingInv'
    BY <2>1, <2>3 DEF FormatInv, StoreOpenInv, PersistInv, PendingInv
  <2>9. QED
    BY <2>4, <2>5, <2>6, <2>7, <2>8 DEF IInv
<1>5. CASE OpenDone
  <2>1. /\ \A i \in Index : disk'[i] = acked'
        /\ current' = acked' /\ phase' = "open" /\ ~pending'
    BY <1>5 DEF OpenDone, NeedRepair
  <2>2. TypeOK'
    BY <1>5 DEF OpenDone, IInv, TypeOK, BlockType, Phases
  <2>3. CopiesNearAcked' /\ OnePerSequence'
    BY <2>1 DEF CopiesNearAcked, OnePerSequence
  <2>4. FewStale'
    <3>1. Stale' = {}
      BY <1>t, <1>5, <2>1 DEF OpenDone, Stale
    <3>2. QED
      BY <3>1, FS_EmptySet DEF FewStale
  <2>5. StoreOpenInv'
    BY <1>t, <1>5, <2>1 DEF OpenDone, StoreOpenInv
  <2>6. FormatInv' /\ RepairInv' /\ PersistInv' /\ PendingInv'
    BY <2>1 DEF FormatInv, RepairInv, PersistInv, PendingInv
  <2>7. QED
    BY <2>2, <2>3, <2>4, <2>5, <2>6 DEF IInv
<1>6. ASSUME NEW v \in 0 .. MaxView, beginPersist(v)
      PROVE  IInv'
  <2>1. /\ current = acked /\ \A i \in Index : Len(disk[i]) <= Len(acked)
        /\ phase' = "persist" /\ step' = 0 /\ next' = Append(current, v)
        /\ UNCHANGED <<disk, pending, current, acked, damage, result>> /\ ~pending
    BY <1>6 DEF beginPersist, IInv, StoreOpenInv, PendingInv
  <2>2. TypeOK'
    BY <1>t, <2>1 DEF IInv, TypeOK, BlockType, Phases
  <2>3. CopiesNearAcked' /\ FewStale' /\ OnePerSequence'
    BY <2>1 DEF IInv, CopiesNearAcked, FewStale, Stale, OnePerSequence, Successor
  <2>4. PersistInv'
    BY <2>1 DEF PersistInv, Successor
  <2>5. FormatInv' /\ RepairInv' /\ StoreOpenInv' /\ PendingInv'
    BY <2>1 DEF FormatInv, RepairInv, StoreOpenInv, PendingInv
  <2>6. QED
    BY <2>2, <2>3, <2>4, <2>5 DEF IInv
<1>7. CASE PersistSync
  <2>1. Target \in Index /\ Target = (Len(next) + step) % Copies /\ phase = "persist"
    BY <1>7, TargetInIndex DEF PersistSync, Target
  <2>2. /\ current = acked /\ next \in Successor(acked) /\ step < superblockWriteCopies
        /\ \A i \in Index : Len(disk[i]) <= Len(acked) \/ disk[i] = next
        /\ \A j \in 0 .. Copies : j < step => disk[(Len(next) + j) % Copies] = next
    BY <2>1 DEF IInv, PersistInv
  <2>3. /\ disk' = [disk EXCEPT ![Target] = next] /\ step' = step + 1
        /\ UNCHANGED <<next, damage, result>> /\ pending' = FALSE
    BY <1>7 DEF PersistSync
  <2>4. Len(next) = Len(acked) + 1 /\ Len(acked) \in Nat /\ next # Invalid
    BY <1>t, <2>2 DEF Successor, Invalid
  <2>5. /\ \A i \in Index : Len(disk'[i]) <= Len(acked) \/ disk'[i] = next
        /\ \A j \in 0 .. Copies : j < step + 1 => disk'[(Len(next) + j) % Copies] = next
    <3>1. \A i \in Index : Len(disk'[i]) <= Len(acked) \/ disk'[i] = next
      BY <1>t, <2>1, <2>2, <2>3
    <3>2. ASSUME NEW j \in 0 .. Copies, j < step + 1
          PROVE  disk'[(Len(next) + j) % Copies] = next
      <4>1. CASE j = step
        BY <1>t, <2>1, <2>3, <4>1
      <4>2. CASE j < step
        <5>1. disk[(Len(next) + j) % Copies] = next
          BY <2>2, <4>2
        <5>2. (Len(next) + j) % Copies \in Index
          BY <2>4 DEF Index
        <5>3. QED
          BY <1>t, <2>1, <2>3, <5>1, <5>2
      <4>3. QED
        BY <1>t, <3>2, <4>1, <4>2
    <3>3. QED
      BY <3>1, <3>2
  <2>6. OnePerSequence'
    BY <1>t, <2>1, <2>2, <2>3, <2>4 DEF IInv, OnePerSequence
  <2>7. CASE step + 1 < superblockWriteCopies
    <3>1. UNCHANGED <<phase, current, acked>>
      BY <1>7, <2>7 DEF PersistSync
    <3>2. CopiesNearAcked' /\ FewStale'
      BY Zenon, <1>t, <2>1, <2>2, <2>3, <3>1, StaleShrinks DEF BlockType
    <3>3. TypeOK'
      <4>1. disk' \in [Index -> Seq(Nat)] /\ step' \in 0 .. superblockWriteCopies
        BY <1>t, <2>1, <2>2, <2>3
      <4>2. QED
        BY Zenon, <2>3, <3>1, <4>1 DEF IInv, TypeOK, BlockType
    <3>4. PersistInv'
      BY <2>2, <2>3, <2>5, <2>7, <3>1 DEF PersistInv, Successor
    <3>5. FormatInv' /\ RepairInv' /\ StoreOpenInv' /\ PendingInv'
      BY <2>1, <2>3, <3>1 DEF FormatInv, RepairInv, StoreOpenInv, PendingInv
    <3>6. QED
      BY <2>6, <3>2, <3>3, <3>4, <3>5 DEF IInv
  <2>8. CASE ~(step + 1 < superblockWriteCopies)
    <3>1. phase' = "open" /\ current' = next /\ acked' = next
      BY <1>7, <2>8 DEF PersistSync
    <3>2. TypeOK'
      <4>1. disk' \in [Index -> Seq(Nat)] /\ step' \in 0 .. superblockWriteCopies
        BY <1>t, <2>1, <2>2, <2>3
      <4>2. QED
        BY Zenon, <1>t, <2>3, <3>1, <4>1 DEF IInv, TypeOK, BlockType, Phases
    <3>3. \A i \in Index : Len(disk'[i]) \in Nat /\ (Len(disk'[i]) < Len(acked') \/ disk'[i] = acked')
      BY <1>t, <2>1, <2>3, <2>4, <2>5, <3>1
    <3>4. CopiesNearAcked'
      BY <3>3 DEF CopiesNearAcked
    <3>5. FewStale'
      <4>1. Stale' \in SUBSET Index /\ Len(next) \in Nat
        BY <1>t DEF Stale
      <4>2. ASSUME NEW j \in 0 .. superblockWriteCopies - 1
            PROVE  (Len(next) + j) % Copies \notin Stale'
        <5>1. disk'[(Len(next) + j) % Copies] = next
          <6>1. j \in 0 .. Copies /\ j < step + 1
            BY <1>t, <2>8
          <6>2. QED
            BY <2>5, <6>1
        <5>2. QED
          BY <2>4, <3>1, <5>1 DEF Stale
      <4>3. QED
        BY Zenon, <4>1, <4>2, UnwrittenFew DEF FewStale
    <3>6. StoreOpenInv'
      BY <2>4, <3>1, <3>3 DEF StoreOpenInv
    <3>7. FormatInv' /\ RepairInv' /\ PersistInv' /\ PendingInv'
      BY <2>3, <3>1 DEF FormatInv, RepairInv, PersistInv, PendingInv
    <3>8. QED
      BY <2>6, <3>2, <3>4, <3>5, <3>6, <3>7 DEF IInv
  <2>9. QED
    BY <2>7, <2>8
<1>8. CASE Crash
  <2>1. phase' = "closed" /\ pending' = FALSE /\ UNCHANGED <<step, current, next, acked, result>>
    BY <1>8 DEF Crash
  <2>2. damage' \subseteq {"torn", "cutRepair"}
    BY <1>8 DEF Crash, IInv, TypeOK
  <2>3. \/ disk' = disk
        \/ pending /\ disk' = [disk EXCEPT ![Target] = Invalid]
        \/ pending /\ disk' = [disk EXCEPT ![Target] = Block]
    BY <1>8 DEF Crash
  <2>4. FormatInv' /\ RepairInv' /\ StoreOpenInv' /\ PersistInv' /\ PendingInv'
    BY <2>1 DEF FormatInv, RepairInv, StoreOpenInv, PersistInv, PendingInv
  <2>5. ASSUME disk' \in [Index -> Seq(Nat)]
        PROVE  TypeOK'
    BY Zenon, <1>t, <2>1, <2>2, <2>5 DEF IInv, TypeOK, BlockType, Phases
  <2>6. CASE disk' = disk
    <3>1. CopiesNearAcked' /\ FewStale' /\ OnePerSequence'
      BY <2>1, <2>6 DEF IInv, CopiesNearAcked, FewStale, Stale, OnePerSequence, Successor
    <3>2. QED
      BY <1>t, <2>4, <2>5, <2>6, <3>1 DEF IInv
  <2>7. ASSUME pending, NEW b \in Seq(Nat), disk' = [disk EXCEPT ![Target] = b],
               b \in {Invalid, acked} \cup Successor(acked),
               \A i \in Index : Len(disk[i]) = Len(b) => disk[i] = b
        PROVE  IInv'
    <3>1. Target \in Index
      BY <2>7, TargetInIndex
    <3>2. CopiesNearAcked' /\ FewStale'
      BY Zenon, <2>1, <2>7, <3>1, StaleShrinks DEF BlockType
    <3>3. OnePerSequence'
      BY <1>t, <2>7, <3>1 DEF IInv, OnePerSequence
    <3>4. disk' \in [Index -> Seq(Nat)]
      BY <1>t, <2>7, <3>1
    <3>5. QED
      BY <2>4, <2>5, <3>2, <3>3, <3>4 DEF IInv
  <2>8. CASE pending /\ disk' = [disk EXCEPT ![Target] = Invalid]
    <3>1. Invalid \in Seq(Nat) /\ \A b \in Seq(Nat) : Len(b) = Len(Invalid) => b = Invalid
      BY DEF Invalid
    <3>2. QED
      BY Zenon, <1>t, <2>7, <2>8, <3>1
  <2>9. CASE pending /\ disk' = [disk EXCEPT ![Target] = Block]
    <3>1. Block \in Seq(Nat) /\ Block \in {acked} \cup Successor(acked)
      <4>1. CASE phase = "format"
        <5>1. acked = Invalid /\ next = <<0>>
          BY <4>1 DEF IInv, FormatInv
        <5>2. <<0>> = Append(Invalid, 0) /\ 0 \in 0 .. MaxView
          BY DEF Invalid
        <5>3. QED
          BY <1>t, <4>1, <5>1, <5>2 DEF Block, Successor
      <4>2. CASE phase = "repair"
        BY <1>t, <4>2 DEF IInv, RepairInv, Block
      <4>3. CASE phase = "persist"
        BY <1>t, <4>3 DEF IInv, PersistInv, Block
      <4>4. QED
        BY <2>9, <4>1, <4>2, <4>3 DEF IInv, PendingInv
    <3>2. \A i \in Index : Len(disk[i]) = Len(Block) => disk[i] = Block
      <4>1. CASE phase = "format"
        <5>1. next = <<0>> /\ \A i \in Index : disk[i] \in {Invalid, <<0>>}
          BY <4>1 DEF IInv, FormatInv
        <5>2. Len(Invalid) = 0 /\ Len(<<0>>) = 1
          BY DEF Invalid
        <5>3. QED
          BY <4>1, <5>1, <5>2 DEF Block
      <4>2. CASE phase = "repair"
        BY <4>2 DEF IInv, RepairInv, Block
      <4>3. CASE phase = "persist"
        <5>1. next \in Successor(acked)
          BY <4>3 DEF IInv, PersistInv
        <5>2. Len(next) = Len(acked) + 1
          BY <1>t, <5>1 DEF Successor
        <5>3. QED
          BY <1>t, <4>3, <5>2 DEF IInv, PersistInv, Block
      <4>4. QED
        BY <2>9, <4>1, <4>2, <4>3 DEF IInv, PendingInv
    <3>3. QED
      BY Zenon, <2>7, <2>9, <3>1, <3>2
  <2>10. QED
    BY <2>3, <2>6, <2>8, <2>9
<1>9. CASE UNCHANGED vars
  <2>1. TypeOK' /\ CopiesNearAcked' /\ FewStale' /\ OnePerSequence'
    BY <1>9 DEF vars, IInv, TypeOK, CopiesNearAcked, FewStale, Stale, OnePerSequence, Successor
  <2>2. FormatInv' /\ RepairInv' /\ StoreOpenInv' /\ PersistInv' /\ PendingInv'
    BY <1>9 DEF vars, IInv, FormatInv, RepairInv, StoreOpenInv, PersistInv, PendingInv,
                Successor, NeedRepair
  <2>3. QED
    BY <2>1, <2>2 DEF IInv
<1>10. QED
  BY <1>1, <1>2, <1>3, <1>4, <1>5, <1>6, <1>7, <1>8, <1>9 DEF Next

----------------------------------------------------------------------------
(* Theorems. *)

\* The inductive invariant holds in every reachable state.
THEOREM Invariance == Spec => []IInv
BY InitIInv, NextIInv, PTL DEF Spec

\* The store's variables keep their types, whatever Format, Open, Persist and crashes do.
THEOREM TypeCorrect == Spec => []TypeOK
<1>1. IInv => TypeOK
  BY DEF IInv
<1>2. QED
  BY <1>1, Invariance, PTL

\* OpenSuperblockStore never selects a superblock older than one that Format, Open or
\* Persist reported durable, for 4, 6 and 8 copies.
THEOREM PersistedNeverLost == Spec => []PersistDurable
<1>1. IInv => PersistDurable
  BY DEF IInv, RepairInv, StoreOpenInv, PersistInv, PersistDurable, Successor
<1>2. QED
  BY <1>1, Invariance, PTL

\* The copies never hold two superblocks of one sequence number.
THEOREM NeverForks == Spec => []NoFork
<1>1. IInv => NoFork
  BY DEF IInv, OnePerSequence, NoFork, Fork, Values
<1>2. QED
  BY <1>1, Invariance, PTL
============================================================================
