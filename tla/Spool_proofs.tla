----------------------------- MODULE Spool_proofs -----------------------------
(***************************************************************************)
(* Proofs about the durable spool, for every set of payloads and input     *)
(* frames and every length of the file.                                    *)
(***************************************************************************)
EXTENDS Spool, TLAPS, SequenceTheorems, WellFoundedInduction

USE DEF vars, memory, drain

\* The invariant the theorems rest on.  A drain works between the high-water it
\* started from and what the authority has reached, and it leaves nothing of
\* itself behind; what append returned SPOOLED for is a frame for good.
DrainInBounds ==
    /\ pc = "draining" => acked <= committed /\ committed <= stored
    /\ pc # "draining" => rest = {}

SpooledAreFrames == \A p \in spooled : disk[p].kind = "frame"

IInv == TypeOK /\ AcksAreBacked /\ DrainInBounds /\ SpooledAreFrames

\* A nonempty set of natural numbers has a least element.
LEMMA LeastNat ==
    ASSUME NEW S \in SUBSET Nat, S # {}
    PROVE  \E t \in S : \A y \in S : t <= y
<1> DEFINE R == OpToRel(<, Nat)
<1>1. PICK t \in S : \A y \in S : <<y, t>> \notin R
    <2>1. IsWellFoundedOn(R, Nat)
        BY NatLessThanWellFounded
    <2> HIDE DEF R
    <2> QED
        BY <2>1, WFMin
<1>2. \A y \in S : t <= y
    <2> SUFFICES ASSUME NEW y \in S, y < t PROVE FALSE
        OBVIOUS
    <2>1. <<y, t>> \in R
        BY DEF OpToRel
    <2> QED
        BY <1>1, <2>1
<1> QED
    BY <1>2

\* The loops of the code that look for the largest index with a property: Max of
\* a nonempty set of indices is in the set and bounds it.
LEMMA MaxIndex ==
    ASSUME NEW n \in Nat, NEW S \in SUBSET (0..n), S # {}
    PROVE  Max(S) \in S /\ \A x \in S : x <= Max(S)
<1> DEFINE T == {n - c : c \in S}
<1>1. T \in SUBSET Nat /\ T # {}
    <2>1. \A c \in S : c \in 0..n
        OBVIOUS
    <2>2. \A c \in S : n - c \in Nat
        BY <2>1
    <2> QED
        BY <2>2
<1>2. PICK t \in T : \A y \in T : t <= y
    <2> HIDE DEF T
    <2> QED
        BY <1>1, LeastNat
<1>3. PICK m \in S : t = n - m
    OBVIOUS
<1>4. \A x \in S : m >= x
    <2> TAKE x \in S
    <2>1. n - x \in T
        OBVIOUS
    <2>2. n - m <= n - x
        BY <1>2, <1>3, <2>1
    <2> QED
        BY <2>2
<1>5. \A y \in S : Max(S) >= y /\ Max(S) \in S
    BY <1>3, <1>4 DEF Max
<1> QED
    BY <1>5

\* What a write leaves of the file: the entry, a torn one, or nothing new.
LEMMA AppendEntry ==
    ASSUME NEW d \in Seq(Entry), NEW e \in Entry
    PROVE  /\ Append(d, e) \in Seq(Entry)
           /\ Len(Append(d, e)) = Len(d) + 1
           /\ \A i \in 1..Len(d) : Append(d, e)[i] = d[i]
           /\ Append(d, e)[Len(d) + 1] = e
    BY AppendProperties

LEMMA TornEntry == Torn \in Entry /\ Torn.kind = "torn"
    BY DEF Torn, Entry

LEMMA InputEntry == \A f \in Input : f \in Frame /\ f \in Entry /\ f.kind = "frame"
    BY SpoolAssumption DEF Entry, Frame

LEMMA AckEntry ==
    ASSUME NEW n \in Nat
    PROVE  Ack(n) \in Entry /\ Ack(n).kind = "ack" /\ Ack(n).seq = n
    BY DEF Ack, Acks, Entry

\* A reopened spool starts from 0 or from an ack of the file.
LEMMA RecoveredIsBacked ==
    ASSUME TypeOK, AcksAreBacked
    PROVE  Recovered \in 0..stored
<1>1. CASE AcksRead = {}
    BY <1>1 DEF Recovered, TypeOK
<1>2. CASE AcksRead # {}
    <2>1. AcksRead \in SUBSET (0..Len(disk)) /\ Len(disk) \in Nat
        BY LenProperties DEF AcksRead, Readable, TypeOK
    <2>2. Max(AcksRead) \in AcksRead
        BY <1>2, <2>1, MaxIndex
    <2>3. /\ Max(AcksRead) \in 1..Len(disk)
          /\ disk[Max(AcksRead)].kind = "ack"
        BY <2>2 DEF AcksRead, Readable
    <2>4. disk[Max(AcksRead)] \in Acks
        BY <2>3, ElementOfSeq DEF TypeOK, Entry, Frame, Torn
    <2> QED
        BY <1>2, <2>3, <2>4 DEF Recovered, AcksAreBacked, Acks, TypeOK
<1> QED
    BY <1>1, <1>2

\* One more entry at the end of the file disturbs nothing that was there.
LEMMA FileGrows ==
    ASSUME TypeOK, AcksAreBacked, SpooledAreFrames, Len(disk) < MaxDisk,
           NEW e \in Entry, e.kind = "ack" => e.seq <= stored,
           NEW d \in {disk, Append(disk, e), Append(disk, Torn)}
    PROVE  /\ d \in Seq(Entry) /\ Len(d) <= MaxDisk
           /\ Len(disk) \in Nat /\ Len(d) \in Nat /\ Len(disk) <= Len(d)
           /\ \A i \in 1..Len(disk) : d[i] = disk[i]
           /\ \A i \in 1..Len(d) : d[i].kind = "ack" => d[i].seq <= stored
<1>1. disk \in Seq(Entry) /\ Len(disk) \in Nat /\ MaxDisk \in Nat
    BY LenProperties, SpoolAssumption DEF TypeOK
<1>2. ASSUME NEW x \in Entry, x.kind = "ack" => x.seq <= stored, d = Append(disk, x)
      PROVE  /\ d \in Seq(Entry) /\ Len(d) = Len(disk) + 1
             /\ \A i \in 1..Len(disk) : d[i] = disk[i]
             /\ \A i \in 1..Len(d) : d[i].kind = "ack" => d[i].seq <= stored
    <2>1. /\ d \in Seq(Entry) /\ Len(d) = Len(disk) + 1
          /\ \A i \in 1..Len(disk) : d[i] = disk[i]
          /\ d[Len(disk) + 1] = x
        BY <1>1, <1>2, AppendEntry
    <2>2. \A i \in 1..Len(d) : i \in 1..Len(disk) \/ i = Len(disk) + 1
        BY <1>1, <2>1
    <2> QED
        BY <1>2, <2>1, <2>2 DEF AcksAreBacked
<1>3. CASE d = disk
    BY <1>1, <1>3 DEF AcksAreBacked
<1>4. CASE d = Append(disk, e)
    BY <1>1, <1>2, <1>4
<1>5. CASE d = Append(disk, Torn)
    <2>1. d \in Seq(Entry) /\ Len(d) = Len(disk) + 1
          /\ (\A i \in 1..Len(disk) : d[i] = disk[i])
          /\ (\A i \in 1..Len(d) : d[i].kind = "ack" => d[i].seq <= stored)
        BY <1>2, <1>5, TornEntry
    <2> QED
        BY <1>1, <2>1
<1> QED
    BY <1>3, <1>4, <1>5

LEMMA FrameKind ==
    \A e \in Entry : /\ e.kind = "frame" <=> e \in Frame
                     /\ e \in Frame => e.seq \in Nat /\ e.seq > 0
    BY DEF Entry, Frame, Acks, Torn

\* The order of drain has a least element: the smallest sequence number, then
\* the smallest event id, then the earliest arrival.
LEMMA FirstExists ==
    ASSUME TypeOK, rest # {}
    PROVE  First \in rest
<1>1. Len(disk) \in Nat /\ rest \in SUBSET (1..Len(disk))
    BY LenProperties DEF TypeOK
<1>2. \A p \in rest : disk[p].seq \in Nat /\ disk[p].id \in Nat /\ p \in Nat
    BY <1>1 DEF TypeOK, Frame
<1> DEFINE Seqs == {disk[p].seq : p \in rest}
<1>3. PICK s \in Seqs : \A x \in Seqs : s <= x
    <2>1. Seqs \in SUBSET Nat /\ Seqs # {}
        BY <1>2
    <2> HIDE DEF Seqs
    <2> QED
        BY <2>1, LeastNat
<1> DEFINE Ids == {disk[p].id : p \in {p \in rest : disk[p].seq = s}}
<1>4. PICK i \in Ids : \A x \in Ids : i <= x
    <2>1. Ids \in SUBSET Nat /\ Ids # {}
        BY <1>2
    <2> HIDE DEF Ids
    <2> QED
        BY <2>1, LeastNat
<1> DEFINE Places == {p \in rest : disk[p].seq = s /\ disk[p].id = i}
<1>5. PICK p \in Places : \A x \in Places : p <= x
    <2>1. Places \in SUBSET Nat /\ Places # {}
        BY <1>2
    <2> HIDE DEF Places
    <2> QED
        BY <2>1, LeastNat
<1>6. \A q \in rest : Before(p, q)
    <2> TAKE q \in rest
    <2>1. s <= disk[q].seq /\ disk[p].seq = s /\ disk[p].id = i
        BY <1>3
    <2>2. disk[q].seq = s => i <= disk[q].id
        BY <1>4
    <2>3. disk[q].seq = s /\ disk[q].id = i => p <= q
        BY <1>5
    <2> HIDE DEF Seqs, Ids, Places
    <2>4. p \in rest
        BY DEF Places
    <2> QED
        BY <1>2, <2>1, <2>2, <2>3, <2>4 DEF Before
<1> QED
    BY <1>6 DEF First

LEMMA FirstIsFrame ==
    ASSUME TypeOK, rest # {}
    PROVE  /\ First \in rest
           /\ disk[First].seq \in Nat
           /\ RowOf(disk[First]) \in Row
    BY FirstExists DEF TypeOK, Frame, RowOf, Row
-----------------------------------------------------------------------------
(* The invariant *)

LEMMA InitIInv == Init => IInv
<1> SUFFICES ASSUME Init PROVE IInv
    OBVIOUS
<1>1. disk \in Seq(Entry) /\ Len(disk) = 0 /\ MaxDisk \in Nat
    BY EmptySeq, SpoolAssumption DEF Init
<1>2. Len(disk) <= MaxDisk
    BY <1>1
<1> QED
    BY <1>1, <1>2 DEF Init, IInv, TypeOK, AcksAreBacked, DrainInBounds, SpooledAreFrames

\* Steps that leave the file and what was spooled alone keep the invariant when
\* they keep their part of the types and of the order.
LEMMA FileUntouched ==
    ASSUME IInv, UNCHANGED <<disk, spooled>>,
           header' \in {"none", "torn", "whole"},
           pc' \in {"down", "idle", "draining"},
           queue' \in SUBSET (1..Len(disk)), \A p \in queue' : disk[p] \in Frame,
           rest' \in SUBSET queue',
           acked' \in Nat, committed' \in Nat, stored' \in Nat,
           ledger' \in SUBSET Row,
           stored <= stored', acked' <= stored', DrainInBounds'
    PROVE  IInv'
<1>1. TypeOK'
    BY DEF IInv, TypeOK
<1>2. \A i \in 1..Len(disk) : disk[i].kind = "ack" => disk[i].seq <= stored'
    <2> TAKE i \in 1..Len(disk)
    <2> HAVE disk[i].kind = "ack"
    <2>1. disk[i] \in Entry
        BY ElementOfSeq DEF IInv, TypeOK
    <2>2. disk[i].seq \in Nat
        BY <2>1 DEF Entry, Frame, Acks, Torn
    <2> QED
        BY <2>2 DEF IInv, TypeOK, AcksAreBacked
<1> QED
    BY <1>1, <1>2 DEF IInv, AcksAreBacked, SpooledAreFrames

\* Steps that write one entry, whole or torn, to a spool that is up.
LEMMA FileWritten ==
    ASSUME IInv, Len(disk) < MaxDisk, UNCHANGED <<header, ledger, stored>>,
           NEW e \in Entry, e.kind = "ack" => e.seq <= stored,
           disk' \in {disk, Append(disk, e), Append(disk, Torn)},
           pc' \in {"down", "idle"}, rest' = {},
           acked' \in Nat, acked' <= stored, committed' \in Nat,
           queue' \in SUBSET (1..Len(disk')), \A p \in queue' : disk'[p] \in Frame,
           spooled' \in SUBSET (1..Len(disk')), \A p \in spooled' : disk'[p].kind = "frame"
    PROVE  IInv'
<1>1. /\ disk' \in Seq(Entry) /\ Len(disk') <= MaxDisk
      /\ \A i \in 1..Len(disk') : disk'[i].kind = "ack" => disk'[i].seq <= stored
    BY FileGrows DEF IInv
<1>2. TypeOK'
    BY <1>1 DEF IInv, TypeOK
<1> QED
    BY <1>1, <1>2 DEF IInv, AcksAreBacked, SpooledAreFrames, DrainInBounds

LEMMA WrittenEntry ==
    ASSUME NEW e, NEW extent \in Extents
    PROVE  Written(e, extent) \in {disk, Append(disk, e), Append(disk, Torn)}
    BY DEF Written, Extents

\* A callers' frame is written, queued or not, with the spool up or down after.
LEMMA FrameWritten ==
    ASSUME IInv, pc = "idle", Len(disk) < MaxDisk,
           UNCHANGED <<header, acked, drain, ledger, stored>>,
           NEW f \in Input,
           disk' \in {disk, Append(disk, f), Append(disk, Torn)},
           pc' \in {"down", "idle"},
           \/ queue' \in {{}, queue} /\ spooled' = spooled
           \/ /\ disk' = Append(disk, f)
              /\ queue' = queue \cup {Len(disk) + 1}
              /\ spooled' = spooled \cup {Len(disk) + 1}
    PROVE  IInv'
<1>1. f \in Entry /\ f \in Frame /\ f.kind = "frame"
    BY InputEntry
<1>2. disk \in Seq(Entry) /\ Len(disk) \in Nat
    BY LenProperties DEF IInv, TypeOK
<1>3. /\ Len(disk') \in Nat /\ Len(disk) <= Len(disk')
      /\ \A i \in 1..Len(disk) : disk'[i] = disk[i]
    BY <1>1, FileGrows DEF IInv
<1>4. /\ queue \in SUBSET (1..Len(disk')) /\ \A p \in queue : disk'[p] \in Frame
      /\ spooled \in SUBSET (1..Len(disk')) /\ \A p \in spooled : disk'[p].kind = "frame"
    BY <1>2, <1>3 DEF IInv, TypeOK, SpooledAreFrames
<1>5. CASE queue' \in {{}, queue} /\ spooled' = spooled
    <2>1. /\ queue' \in SUBSET (1..Len(disk')) /\ \A p \in queue' : disk'[p] \in Frame
          /\ spooled' \in SUBSET (1..Len(disk')) /\ \A p \in spooled' : disk'[p].kind = "frame"
        BY <1>4, <1>5
    <2>2. rest' = {} /\ acked' \in Nat /\ acked' <= stored /\ committed' \in Nat
        BY DEF IInv, TypeOK, DrainInBounds, AcksAreBacked
    <2> QED
        BY <1>1, <2>1, <2>2, FileWritten
<1>6. CASE /\ disk' = Append(disk, f)
           /\ queue' = queue \cup {Len(disk) + 1}
           /\ spooled' = spooled \cup {Len(disk) + 1}
    <2>1. Len(disk') = Len(disk) + 1 /\ disk'[Len(disk) + 1] = f
        BY <1>1, <1>2, <1>6, AppendEntry
    <2>2. Len(disk) + 1 \in 1..Len(disk')
        BY <1>2, <2>1
    <2>3. queue' \in SUBSET (1..Len(disk')) /\ spooled' \in SUBSET (1..Len(disk'))
        BY <1>4, <1>6, <2>2
    <2>4. \A p \in queue' : disk'[p] \in Frame
        <3> TAKE p \in queue'
        <3>1. p \in queue \/ p = Len(disk) + 1
            BY <1>6
        <3> QED
            BY <1>1, <1>4, <2>1, <3>1
    <2>5. \A p \in spooled' : disk'[p].kind = "frame"
        <3> TAKE p \in spooled'
        <3>1. p \in spooled \/ p = Len(disk) + 1
            BY <1>6
        <3> QED
            BY <1>1, <1>4, <2>1, <3>1
    <2>6. rest' = {} /\ acked' \in Nat /\ acked' <= stored /\ committed' \in Nat
        BY DEF IInv, TypeOK, DrainInBounds, AcksAreBacked
    <2> QED
        BY <1>1, <2>3, <2>4, <2>5, <2>6, FileWritten
<1> QED
    BY <1>5, <1>6

\* A drain that has inserted every frame writes its ack, or fails to.
LEMMA AckWritten ==
    ASSUME IInv, pc = "draining", Len(disk) < MaxDisk,
           UNCHANGED <<header, ledger, stored, spooled>>,
           disk' \in {disk, Append(disk, Ack(committed)), Append(disk, Torn)},
           pc' \in {"down", "idle"}, queue' = {}, rest' = {}, committed' = 0,
           acked' \in {acked, committed}
    PROVE  IInv'
<1>1. committed \in Nat /\ committed <= stored /\ acked \in Nat /\ acked <= stored
    BY DEF IInv, TypeOK, DrainInBounds, AcksAreBacked
<1>2. Ack(committed) \in Entry /\ Ack(committed).kind = "ack" /\ Ack(committed).seq = committed
    BY <1>1, AckEntry
<1>3. /\ Len(disk) \in Nat /\ Len(disk') \in Nat /\ Len(disk) <= Len(disk')
      /\ \A i \in 1..Len(disk) : disk'[i] = disk[i]
    BY <1>1, <1>2, FileGrows DEF IInv
<1>4. spooled' \in SUBSET (1..Len(disk')) /\ \A p \in spooled' : disk'[p].kind = "frame"
    BY <1>3 DEF IInv, TypeOK, SpooledAreFrames
<1>5. acked' \in Nat /\ acked' <= stored /\ committed' \in Nat
    BY <1>1
<1>6. queue' \in SUBSET (1..Len(disk')) /\ \A p \in queue' : disk'[p] \in Frame
    OBVIOUS
<1>7. Ack(committed).kind = "ack" => Ack(committed).seq <= stored
    BY <1>1, <1>2
<1> QED
    BY <1>2, <1>4, <1>5, <1>6, <1>7, FileWritten

\* What the authority may have reached when the drain stops at a frame.
LEMMA NextFrame ==
    ASSUME IInv, pc = "draining", rest # {}, disk[First].seq = committed + 1
    PROVE  /\ disk[First].seq <= stored + 1
           /\ acked <= disk[First].seq
           /\ disk[First].seq \in Nat
    BY FirstIsFrame DEF IInv, TypeOK, DrainInBounds, AcksAreBacked

LEMMA StepIInv == IInv /\ [Next]_vars => IInv'
<1> SUFFICES ASSUME IInv, [Next]_vars PROVE IInv'
    OBVIOUS
<1>0. /\ TypeOK /\ AcksAreBacked /\ DrainInBounds /\ SpooledAreFrames
      /\ Len(disk) \in Nat
    BY LenProperties DEF IInv, TypeOK
<1>1. CASE Open
    <2>1. Recovered \in 0..stored
        BY <1>0, RecoveredIsBacked
    <2>2. Replayed \in SUBSET (1..Len(disk)) /\ \A p \in Replayed : disk[p] \in Frame
        <3> SUFFICES ASSUME NEW p \in Replayed
                     PROVE  p \in 1..Len(disk) /\ disk[p] \in Frame
            OBVIOUS
        <3>1. p \in 1..Len(disk) /\ disk[p].kind = "frame"
            BY DEF Replayed, Readable
        <3>2. disk[p] \in Entry
            BY <1>0, <3>1, ElementOfSeq DEF TypeOK
        <3> QED
            BY <3>1, <3>2, FrameKind
    <2>3. rest = {} /\ DrainInBounds'
        BY <1>0, <1>1 DEF Open, DrainInBounds
    <2> QED
        BY <1>0, <1>1, <2>1, <2>2, <2>3, FileUntouched DEF Open, TypeOK
<1>2. CASE CreateFails
    BY <1>0, <1>2, FileUntouched DEF CreateFails, TypeOK, AcksAreBacked, DrainInBounds
<1>3. ASSUME NEW f \in Input, AppendFrame(f) PROVE IInv'
    BY <1>3, FrameWritten DEF AppendFrame
<1>4. ASSUME NEW f \in Input, NEW extent \in Extents, NEW dies \in BOOLEAN,
             AppendFails(f, extent, dies)
      PROVE  IInv'
    <2>1. disk' \in {disk, Append(disk, f), Append(disk, Torn)}
        BY <1>4, WrittenEntry DEF AppendFails
    <2> QED
        BY <1>4, <2>1, FrameWritten DEF AppendFails
<1>5. CASE DrainBegin
    BY <1>0, <1>5, FileUntouched DEF DrainBegin, TypeOK, AcksAreBacked, DrainInBounds
<1>6. CASE DrainInsert
    <2>1. /\ First \in rest /\ RowOf(disk[First]) \in Row
          /\ disk[First].seq <= stored + 1 /\ acked <= disk[First].seq
          /\ disk[First].seq \in Nat
        BY <1>0, <1>6, FirstIsFrame, NextFrame DEF DrainInsert
    <2>2. /\ stored' \in Nat /\ stored <= stored' /\ committed' <= stored'
          /\ committed' \in Nat /\ acked <= committed' /\ ledger' \in SUBSET Row
        BY <1>0, <1>6, <2>1 DEF DrainInsert, TypeOK
    <2>3. rest' \in SUBSET queue' /\ DrainInBounds' /\ acked' <= stored'
        BY <1>0, <1>6, <2>2 DEF DrainInsert, TypeOK, DrainInBounds, AcksAreBacked
    <2> QED
        BY <1>0, <1>6, <2>2, <2>3, FileUntouched DEF DrainInsert, TypeOK
<1>7. ASSUME NEW stands \in BOOLEAN, DrainHalt(stands) PROVE IInv'
    <2>1. /\ First \in rest /\ RowOf(disk[First]) \in Row /\ disk[First].seq \in Nat
        BY <1>0, <1>7, FirstIsFrame DEF DrainHalt
    <2>2. stored' \in Nat /\ stored <= stored' /\ ledger' \in SUBSET Row
        BY <1>0, <1>7, <2>1 DEF DrainHalt, TypeOK
    <2>3. queue' \in SUBSET queue
        BY <1>7 DEF DrainHalt, Requeued
    <2>4. acked' \in Nat /\ acked' <= stored' /\ committed' \in Nat /\ DrainInBounds'
        BY <1>0, <1>7, <2>2 DEF DrainHalt, TypeOK, DrainInBounds, AcksAreBacked
    <2> QED
        BY <1>0, <1>7, <2>2, <2>3, <2>4, FileUntouched DEF DrainHalt, TypeOK
<1>8. CASE DrainAck
    BY <1>8, AckWritten DEF DrainAck
<1>9. ASSUME NEW extent \in Extents, NEW dies \in BOOLEAN, DrainAckFails(extent, dies)
      PROVE  IInv'
    <2>1. disk' \in {disk, Append(disk, Ack(committed)), Append(disk, Torn)}
        BY <1>9, WrittenEntry DEF DrainAckFails
    <2> QED
        BY <1>9, <2>1, AckWritten DEF DrainAckFails
<1>10. CASE Crash
    BY <1>0, <1>10, FileUntouched DEF Crash, TypeOK, AcksAreBacked, DrainInBounds
<1>11. ASSUME NEW f \in Input, OtherWriter(f) PROVE IInv'
    <2>1. RowOf(f) \in Row
        BY InputEntry DEF RowOf, Row, Frame
    <2> QED
        BY <1>0, <1>11, <2>1, FileUntouched
        DEF OtherWriter, TypeOK, AcksAreBacked, DrainInBounds
<1>12. CASE UNCHANGED vars
    BY <1>0, <1>12, FileUntouched DEF TypeOK, AcksAreBacked, DrainInBounds
<1> QED
    BY <1>1, <1>2, <1>3, <1>4, <1>5, <1>6, <1>7, <1>8, <1>9, <1>10, <1>11, <1>12 DEF Next

\* The invariant holds in every reachable state of the spool.
LEMMA InvariantHolds == Spec => []IInv
    BY InitIInv, StepIInv, PTL DEF Spec
-----------------------------------------------------------------------------
\* Whatever fails, queued frames are frames of the file that a drain may insert
\* and sequence numbers stay natural numbers.
THEOREM TypeCorrect == Spec => []TypeOK
<1>1. IInv => TypeOK
    BY DEF IInv
<1> QED
    BY <1>1, InvariantHolds, PTL

\* No acknowledgement, in memory or in the file, outruns the authority.
THEOREM AcksBacked == Spec => []AcksAreBacked
<1>1. IInv => AcksAreBacked
    BY DEF IInv
<1> QED
    BY <1>1, InvariantHolds, PTL

\* A crash at any point of a spool whose file is whole replays every SPOOLED
\* frame that the authority has not reached.
THEOREM NoLoss == Spec => []NothingIsLost
<1>1. IInv => NothingIsLost
    <2> SUFFICES ASSUME IInv, header = "whole", \A i \in 1..Len(disk) : Parses(disk[i]),
                        NEW p \in spooled, disk[p].seq > stored
                 PROVE  p \in Replayed
        BY DEF NothingIsLost
    <2>1. p \in 1..Len(disk) /\ disk[p].kind = "frame" /\ Len(disk) \in Nat
        BY LenProperties DEF IInv, TypeOK, SpooledAreFrames
    <2>2. p \in Readable
        BY <2>1 DEF Readable
    <2>3. disk[p].seq \in Nat
        BY <2>1, ElementOfSeq, FrameKind DEF IInv, TypeOK
    <2>4. Recovered \in 0..stored /\ stored \in Nat
        BY RecoveredIsBacked DEF IInv, TypeOK
    <2> QED
        BY <2>1, <2>2, <2>3, <2>4 DEF Replayed
<1> QED
    BY <1>1, InvariantHolds, PTL
-----------------------------------------------------------------------------
(* The spool implements its promise *)

LEMMA FrontierInit == Init => Frontier!Init
    BY DEF Init, Frontier!Init

\* An open is a Reopen, a crash a Close, a frame that the authority takes for the
\* first time a Store and an ack an Advance; everything else stutters.
LEMMA FrontierStep ==
    IInv /\ [Next]_vars => [Frontier!Next]_<<stored, acked, pc # "down">>
<1> SUFFICES ASSUME IInv, [Next]_vars
             PROVE  Frontier!Next \/ UNCHANGED <<stored, acked, pc # "down">>
    BY DEF Frontier!vars
<1>0. stored \in Nat /\ acked \in Nat /\ acked <= stored
    BY DEF IInv, TypeOK, AcksAreBacked
<1> USE DEF Frontier!Next
<1>1. CASE Open
    <2>1. Recovered \in 0..stored
        BY RecoveredIsBacked DEF IInv
    <2> QED
        BY <1>1, <2>1 DEF Open, Frontier!Reopen
<1>2. CASE CreateFails
    BY <1>2 DEF CreateFails
<1>3. ASSUME NEW f \in Input, AppendFrame(f) PROVE UNCHANGED <<stored, acked, pc # "down">>
    BY <1>3 DEF AppendFrame
<1>4. ASSUME NEW f \in Input, NEW extent \in Extents, NEW dies \in BOOLEAN,
             AppendFails(f, extent, dies)
      PROVE  Frontier!Close \/ UNCHANGED <<stored, acked, pc # "down">>
    BY <1>4 DEF AppendFails, Frontier!Close
<1>5. CASE DrainBegin
    BY <1>5 DEF DrainBegin
<1>6. CASE DrainInsert
    <2>1. disk[First].seq <= stored + 1 /\ disk[First].seq \in Nat
        BY <1>6, NextFrame DEF DrainInsert
    <2>2. stored' = stored + 1 \/ stored' = stored
        BY <1>0, <1>6, <2>1 DEF DrainInsert
    <2> QED
        BY <1>6, <2>2 DEF DrainInsert, Frontier!Store
<1>7. ASSUME NEW stands \in BOOLEAN, DrainHalt(stands)
      PROVE  Frontier!Store \/ UNCHANGED <<stored, acked, pc # "down">>
    <2>1. stands => disk[First].seq <= stored + 1 /\ disk[First].seq \in Nat
        BY <1>7, NextFrame DEF DrainHalt
    <2>2. stored' = stored + 1 \/ stored' = stored
        BY <1>0, <1>7, <2>1 DEF DrainHalt
    <2> QED
        BY <1>7, <2>2 DEF DrainHalt, Frontier!Store
<1>8. CASE DrainAck
    <2>1. committed \in acked..stored
        BY <1>0, <1>8 DEF DrainAck, IInv, TypeOK, DrainInBounds
    <2> QED
        BY <1>8, <2>1 DEF DrainAck, Frontier!Advance
<1>9. ASSUME NEW extent \in Extents, NEW dies \in BOOLEAN, DrainAckFails(extent, dies)
      PROVE  Frontier!Close \/ UNCHANGED <<stored, acked, pc # "down">>
    BY <1>9 DEF DrainAckFails, Frontier!Close
<1>10. CASE Crash
    BY <1>10 DEF Crash, Frontier!Close
<1>11. ASSUME NEW f \in Input, OtherWriter(f) PROVE UNCHANGED <<stored, acked, pc # "down">>
    BY <1>11 DEF OtherWriter
<1>12. CASE UNCHANGED vars
    BY <1>12
<1> QED
    BY <1>1, <1>2, <1>3, <1>4, <1>5, <1>6, <1>7, <1>8, <1>9, <1>10, <1>11, <1>12 DEF Next

\* The spool implements DurableFrontier: its readers see the events reach the
\* authority in order and without a gap, behind a high-water it can back.
THEOREM ImplementsFrontier == Spec => FrontierSpec
<1>1. IInv /\ [Next]_vars => [Frontier!Next]_(Frontier!vars)
    BY FrontierStep DEF Frontier!vars
<1> QED
    BY <1>1, FrontierInit, InvariantHolds, PTL DEF Spec, FrontierSpec, Frontier!Spec
=============================================================================
