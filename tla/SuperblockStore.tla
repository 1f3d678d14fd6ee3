-------------------------- MODULE SuperblockStore --------------------------
(***************************************************************************)
(* The superblock: the replica's root of durable state, kept in 4, 6 or 8  *)
(* physical copies (replication/superblock.go, superblock_store.go, and    *)
(* the superblock part of format.go).                                      *)
(*                                                                         *)
(* A superblock is chained to its predecessor by sequence number and       *)
(* parent checksum, so it is represented by the sequence of durable states *)
(* from the formatted one up to its own: Len is Superblock.Sequence, the   *)
(* last element is Superblock.State (here the view, the field every        *)
(* consensus step persists), and the front is what ParentChecksum names.   *)
(* Two superblocks have the same checksum exactly when they are equal.     *)
(* The empty sequence is a copy DecodeSuperblock rejects: all zero, or     *)
(* torn by a crash during its write.                                       *)
(***************************************************************************)
EXTENDS Naturals, Sequences, FiniteSets

CONSTANTS
    Copies,       \* ClusterConfig.SuperblockCopies
    MaxSequence,  \* bound on the number of superblocks written
    MaxView,      \* bound on the view a superblock records
    TornWrites    \* whether a crash may leave a half-written copy

ASSUME CopiesAssumption == Copies \in {4, 6, 8}
ASSUME BoundsAssumption == MaxSequence \in Nat /\ MaxView \in Nat
ASSUME TornAssumption == TornWrites \in BOOLEAN

Index == 0 .. Copies - 1
Invalid == << >>

VARIABLES
    disk,     \* disk[i]: the durable contents of physical copy i
    pending,  \* an unsynced write is outstanding on the copy Target names
    phase,    \* what the process is doing
    step,     \* copies of the superblock being written that are synced
    current,  \* SuperblockStore.current
    next,     \* the superblock being written
    acked,    \* the last superblock a caller was told is durable
    damage,   \* how crashes hurt the copies since they were last all repaired
    result    \* the outcome of the last OpenSuperblockStore

vars == <<disk, pending, phase, step, current, next, acked, damage, result>>

Phases == {"format", "closed", "repair", "open", "persist"}
Results == {"none", "ok", "unformatted", "corrupt", "fork", "invalid", "incomplete", "quorum"}

---------------------------------------------------------------------------
(* The quorum table. A definition marked MUTANT is a deliberately wrong    *)
(* variant of the one that follows it; Spec uses none of them.             *)

\* MUTANT of superblockOpenQuorum: a selection needs the write quorum.
OpenQuorumOfWrites == IF Copies = 4 THEN 3 ELSE IF Copies = 6 THEN 4 ELSE 5

superblockOpenQuorum == IF Copies = 4 THEN 2 ELSE IF Copies = 6 THEN 3 ELSE 4

superblockWriteCopies == IF Copies = 4 THEN 3 ELSE IF Copies = 6 THEN 4 ELSE 5

---------------------------------------------------------------------------
(* SelectSuperblock over the copies that decode. *)

Last(b) == b[Len(b)]

Values == {disk[i] : i \in Index} \ {Invalid}
Count(b) == Cardinality({i \in Index : disk[i] = b})

Fork == \E a, b \in Values : Len(a) = Len(b) /\ a # b

durableStateRegressed(old, new) == Last(new) < Last(old)

LinksTo(old, new) ==
    /\ Len(new) = Len(old) + 1
    /\ SubSeq(new, 1, Len(old)) = old
    /\ ~durableStateRegressed(old, new)

Chained ==
    \A a, b \in Values :
        (Len(a) < Len(b) /\ ~\E c \in Values : Len(a) < Len(c) /\ Len(c) < Len(b))
            => LinksTo(a, b)

RequiredQuorum(b) == IF Len(b) = 1 THEN superblockWriteCopies ELSE superblockOpenQuorum

Electable == {b \in Values : Count(b) >= RequiredQuorum(b)}

SelectSuperblock == CHOOSE b \in Electable : \A c \in Electable : Len(c) <= Len(b)

\* No copy decodes: storage that is still all zero is told from a torn copy.
NothingDecodes == IF "torn" \in damage THEN "corrupt" ELSE "unformatted"

OpenResult ==
    IF Values = {} THEN NothingDecodes
    ELSE IF Fork THEN "fork"
    ELSE IF ~Chained THEN "invalid"
    ELSE IF Electable # {} THEN "ok"
    ELSE IF \E b \in Values : Len(b) = 1 THEN "incomplete"
    ELSE "quorum"

---------------------------------------------------------------------------
(* The copy being written: Format goes up from copy 0, a repair takes the   *)
(* first copy that differs, a persist starts at Sequence % copies.          *)

NeedRepair == {i \in Index : disk[i] # current}

FirstToRepair == CHOOSE i \in NeedRepair : \A j \in NeedRepair : i <= j

Target ==
    IF phase = "format" THEN step
    ELSE IF phase = "repair" THEN FirstToRepair
    ELSE (Len(next) + step) % Copies

Block == IF phase = "repair" THEN current ELSE next

Init ==
    /\ disk = [i \in Index |-> Invalid]
    /\ pending = FALSE
    /\ phase = "format"
    /\ step = 0
    /\ current = Invalid
    /\ next = <<0>>
    /\ acked = Invalid
    /\ damage = {}
    /\ result = "none"

\* WriteAt of one copy, by Format, repairCopies or advancePersist.
WriteCopy ==
    /\ ~pending
    /\ \/ phase \in {"format", "persist"}
       \/ phase = "repair" /\ NeedRepair # {}
    /\ pending' = TRUE
    /\ UNCHANGED <<disk, phase, step, current, next, acked, damage, result>>

\* The Sync of a copy that Format writes; the last one completes the format.
FormatSync ==
    /\ phase = "format" /\ pending
    /\ disk' = [disk EXCEPT ![Target] = next]
    /\ pending' = FALSE
    /\ step' = step + 1
    /\ IF step + 1 < superblockWriteCopies
       THEN UNCHANGED <<phase, acked>>
       ELSE phase' = "closed" /\ acked' = next
    /\ UNCHANGED <<current, next, damage, result>>

\* OpenSuperblockStore up to the selection.
OpenSuperblockStore ==
    /\ phase = "closed"
    /\ result' = OpenResult
    /\ IF OpenResult = "ok"
       THEN phase' = "repair" /\ current' = SelectSuperblock
       ELSE UNCHANGED <<phase, current>>
    /\ UNCHANGED <<disk, pending, step, next, acked, damage>>

\* The Sync of a repaired copy.
RepairSync ==
    /\ phase = "repair" /\ pending
    /\ disk' = [disk EXCEPT ![Target] = current]
    /\ pending' = FALSE
    /\ UNCHANGED <<phase, step, current, next, acked, damage, result>>

\* repairCopies has brought every copy in line: the store is open.
OpenDone ==
    /\ phase = "repair" /\ ~pending /\ NeedRepair = {}
    /\ phase' = "open"
    /\ acked' = current
    /\ damage' = {}
    /\ UNCHANGED <<disk, pending, step, current, next, result>>

\* beginPersist of the successor of the current superblock with view v.
beginPersist(v) ==
    /\ phase = "open"
    /\ Len(current) < MaxSequence
    /\ ~durableStateRegressed(current, Append(current, v))
    /\ next' = Append(current, v)
    /\ phase' = "persist"
    /\ step' = 0
    /\ UNCHANGED <<disk, pending, current, acked, damage, result>>

\* MUTANT of PersistSync: complete on the first synced copy.
PersistFirstCopy ==
    /\ phase = "persist" /\ pending
    /\ disk' = [disk EXCEPT ![Target] = next]
    /\ pending' = FALSE
    /\ step' = step + 1
    /\ phase' = "open" /\ current' = next /\ acked' = next
    /\ UNCHANGED <<next, damage, result>>

\* MUTANT of PersistSync: complete one copy too late.
PersistOneMore ==
    /\ phase = "persist" /\ pending
    /\ disk' = [disk EXCEPT ![Target] = next]
    /\ pending' = FALSE
    /\ step' = step + 1
    /\ IF step < superblockWriteCopies
       THEN UNCHANGED <<phase, current, acked>>
       ELSE phase' = "open" /\ current' = next /\ acked' = next
    /\ UNCHANGED <<next, damage, result>>

\* advancePersist after a Sync: the next copy, or completion.
PersistSync ==
    /\ phase = "persist" /\ pending
    /\ disk' = [disk EXCEPT ![Target] = next]
    /\ pending' = FALSE
    /\ step' = step + 1
    /\ IF step + 1 < superblockWriteCopies
       THEN UNCHANGED <<phase, current, acked>>
       ELSE phase' = "open" /\ current' = next /\ acked' = next
    /\ UNCHANGED <<next, damage, result>>

\* MUTANT of Crash: a storage error leaves the store open for a retry.
ErrorKeepsStoreOpen ==
    /\ phase = "persist"
    /\ pending' = FALSE
    /\ phase' = "open"
    /\ UNCHANGED <<disk, step, current, next, acked, damage, result>>

\* The process stops (a crash, or a storage error that fails the replica). An
\* unsynced write is lost, complete, or torn.
Crash ==
    /\ phase # "closed"
    /\ \E tear \in BOOLEAN :
          /\ tear => pending /\ TornWrites
          /\ \/ ~tear /\ UNCHANGED disk
             \/ pending /\ disk' = [disk EXCEPT ![Target] = IF tear THEN Invalid ELSE Block]
          /\ damage' = damage \cup (IF tear THEN {"torn"} ELSE {})
                              \cup (IF phase = "repair" THEN {"cutRepair"} ELSE {})
    /\ pending' = FALSE
    /\ phase' = "closed"
    /\ UNCHANGED <<step, current, next, acked, result>>

Next ==
    \/ WriteCopy
    \/ FormatSync
    \/ OpenSuperblockStore
    \/ RepairSync
    \/ OpenDone
    \/ \E v \in 0 .. MaxView : beginPersist(v)
    \/ PersistSync
    \/ Crash

Spec == Init /\ [][Next]_vars

---------------------------------------------------------------------------
(* Properties. *)

BlockType == Seq(Nat)

\* The state variables keep their types.
TypeOK ==
    /\ disk \in [Index -> BlockType]
    /\ pending \in BOOLEAN
    /\ phase \in Phases
    /\ step \in 0 .. superblockWriteCopies
    /\ current \in BlockType /\ next \in BlockType /\ acked \in BlockType
    /\ damage \subseteq {"torn", "cutRepair"}
    /\ result \in Results

\* A superblock that Format, Open or Persist reported durable is never rolled back:
\* whatever OpenSuperblockStore selects afterwards, after any crash and with any
\* torn copy, is that superblock or its one successor that was being written.
PersistDurable ==
    phase \in {"repair", "open", "persist"} =>
        current = acked \/ \E v \in 0 .. MaxView : current = Append(acked, v)

\* Retrying a persist with other contents after a crash never leaves two superblocks
\* of one sequence number among the copies, the state SelectSuperblock answers with
\* ErrSuperblockFork.
NoFork == ~Fork

\* After Format completed, a crash at any point of a persist leaves storage that
\* OpenSuperblockStore accepts, as long as writes are atomic and the crash does not
\* interrupt the repair of an earlier one (TestSuperblockUpdateCrashSelectsOnlyDurableQuorum).
ReopenSucceeds ==
    (phase = "closed" /\ acked # Invalid /\ damage = {}) => OpenResult = "ok"

\* With atomic writes, whenever a superblock has an open quorum of copies, Open
\* selects the newest such one (TestSuperblockSelectionPrefersNewestOpenQuorum),
\* the crash that interrupts repairCopies included.
NewestQuorumSelected ==
    (phase = "closed" /\ "torn" \notin damage /\ Electable # {}) => OpenResult = "ok"

============================================================================
