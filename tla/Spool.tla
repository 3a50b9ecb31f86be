-------------------------------- MODULE Spool --------------------------------
(***************************************************************************)
(* One session of the durable spool (src/vector-cortex/resilience/         *)
(* spool-core.ts): an append-only file of frames, synced before append     *)
(* returns SPOOLED, drained into the authority in sequence order and closed *)
(* by an ack frame that carries the committed sequence number.  The        *)
(* process may die between any two of its writes or in the middle of one,  *)
(* a write may throw, and so may the authority.                            *)
(*                                                                         *)
(* The file is the header and the sequence `disk` of what was appended     *)
(* after it.  A write cut short leaves a torn entry, and nothing after a   *)
(* torn entry can be parsed: its length prefix swallows what follows, and  *)
(* the digest fails.  Frames in memory are positions in the file.          *)
(*                                                                         *)
(* External: the authority (the `insert` callback), which other writers    *)
(* share.  A digest stands for its payload.                                *)
(***************************************************************************)
EXTENDS Integers, Sequences, FiniteSetsExt

CONSTANTS
    Payloads,  \* the bytes of events
    HasNul,    \* the payloads that contain a NUL byte
    Input,     \* the frames callers append
    MaxDisk    \* bound: entries of the file

Frame == [kind : {"frame"}, seq : Nat \ {0}, id : Nat, payload : Payloads]

ASSUME SpoolAssumption ==
    /\ HasNul \subseteq Payloads
    /\ Input \subseteq Frame
    /\ MaxDisk \in Nat

VARIABLES
    header,    \* the header line of the file: "none", "torn" or "whole"
    disk,      \* the entries after it
    pc,        \* "down", "idle" or "draining"
    queue,     \* this.frames: positions of frames not yet acknowledged
    acked,     \* this.ackedSeq; while the process is down, its last value
    rest,      \* drain: positions still to insert
    committed, \* drain: the sequence number reached
    ledger,    \* the rows of the authority, one per event id
    stored,    \* history: the highest sequence number the authority accepted
    spooled    \* history: positions of frames that append returned SPOOLED for

memory == <<queue, acked>>
drain == <<rest, committed>>
vars == <<header, disk, pc, memory, drain, ledger, stored, spooled>>

Ack(seq) == [kind |-> "ack", seq |-> seq]
Torn == [kind |-> "torn"]
Acks == [kind : {"ack"}, seq : Nat]
Entry == Frame \cup Acks \cup {Torn}
Row == [id : Nat, payload : Payloads]
-----------------------------------------------------------------------------
(* The file *)

\* tryParseFrame: the payload is read up to its first NUL byte, and then
\* fails its digest.
Parses(e) == \/ e.kind = "ack"
             \/ e.kind = "frame" /\ e.payload \notin HasNul

\* readExisting stops at the first entry that does not parse, and reads
\* nothing behind a torn header.
Readable ==
    {i \in 1..Len(disk) : header = "whole" /\ \A j \in 1..i : Parses(disk[j])}

AcksRead == {i \in Readable : disk[i].kind = "ack"}

\* The high-water of a reopened spool: the last ack frame's.
Recovered == IF AcksRead = {} THEN 0 ELSE disk[Max(AcksRead)].seq

\* Mutant: the first frame behind the ack is taken to be covered by it.
ReplayedOffByOne ==
    {i \in Readable : disk[i].kind = "frame" /\ disk[i].seq > Recovered + 1}

\* The frames a reopened spool queues again.
Replayed == {i \in Readable : disk[i].kind = "frame" /\ disk[i].seq > Recovered}

\* How much of a write reaches the file.
Extents == {"nothing", "part", "all"}
Written(entry, extent) ==
    IF extent = "nothing" THEN disk
    ELSE Append(disk, IF extent = "all" THEN entry ELSE Torn)

\* The order of drain, (seq, eventId), ties in the order of arrival.
Before(p, q) ==
    \/ disk[p].seq < disk[q].seq
    \/ disk[p].seq = disk[q].seq /\ disk[p].id < disk[q].id
    \/ disk[p].seq = disk[q].seq /\ disk[p].id = disk[q].id /\ p <= q

First == CHOOSE p \in rest : \A q \in rest : Before(p, q)

\* The authority's answer for a frame.
Conflicts(f) == \E r \in ledger : r.id = f.id /\ r.payload # f.payload
RowOf(f) == [id |-> f.id, payload |-> f.payload]
-----------------------------------------------------------------------------
Init ==
    /\ header = "none" /\ disk = <<>>
    /\ pc = "down"
    /\ queue = {} /\ acked = 0
    /\ rest = {} /\ committed = 0
    /\ ledger = {} /\ stored = 0 /\ spooled = {}

\* The constructor: a new file gets its header, an old one is parsed.
Open ==
    /\ pc = "down"
    /\ pc' = "idle"
    /\ header' = IF header = "none" THEN "whole" ELSE header
    /\ acked' = Recovered
    /\ queue' = Replayed
    /\ UNCHANGED <<disk, drain, ledger, stored, spooled>>

\* writeHeader is cut short: the file exists and will not be given a header
\* again.
CreateFails ==
    /\ pc = "down"
    /\ header = "none"
    /\ header' = "torn"
    /\ UNCHANGED <<disk, pc, memory, drain, ledger, stored, spooled>>

\* append: the frame is written and synced, then queued, then SPOOLED.
AppendFrame(f) ==
    /\ pc = "idle"
    /\ Len(disk) < MaxDisk
    /\ disk' = Append(disk, f)
    /\ queue' = queue \cup {Len(disk) + 1}
    /\ spooled' = spooled \cup {Len(disk) + 1}
    /\ UNCHANGED <<header, pc, acked, drain, ledger, stored>>

\* Mutant: the frame is queued before it is written.
AppendFailsQueued(f, extent, dies) ==
    /\ pc = "idle"
    /\ Len(disk) < MaxDisk
    /\ disk' = Written(f, extent)
    /\ pc' = IF dies THEN "down" ELSE "idle"
    /\ queue' = IF dies THEN {} ELSE queue \cup {Len(disk) + 1}
    /\ UNCHANGED <<header, acked, drain, ledger, stored, spooled>>

\* append throws, or the process dies in it: nothing is queued, whatever has
\* reached the file.
AppendFails(f, extent, dies) ==
    /\ pc = "idle"
    /\ Len(disk) < MaxDisk
    /\ disk' = Written(f, extent)
    /\ pc' = IF dies THEN "down" ELSE "idle"
    /\ queue' = IF dies THEN {} ELSE queue
    /\ UNCHANGED <<header, acked, drain, ledger, stored, spooled>>

\* Mutant: the drain starts from the beginning of the session.
DrainBeginAtZero ==
    /\ pc = "idle"
    /\ queue # {}
    /\ pc' = "draining"
    /\ rest' = queue
    /\ committed' = 0
    /\ UNCHANGED <<header, disk, memory, ledger, stored, spooled>>

DrainBegin ==
    /\ pc = "idle"
    /\ queue # {}
    /\ pc' = "draining"
    /\ rest' = queue
    /\ committed' = acked
    /\ UNCHANGED <<header, disk, memory, ledger, stored, spooled>>

\* Mutant: a conflicting digest is acknowledged like a duplicate.
DrainInsertOverConflict ==
    /\ pc = "draining" /\ rest # {}
    /\ LET f == disk[First]
       IN  /\ f.seq = committed + 1
           /\ ledger' = IF Conflicts(f) THEN ledger ELSE ledger \cup {RowOf(f)}
           /\ stored' = IF f.seq > stored /\ ~Conflicts(f) THEN f.seq ELSE stored
           /\ committed' = f.seq
    /\ rest' = rest \ {First}
    /\ UNCHANGED <<header, disk, pc, memory, spooled>>

\* The next frame in order is inserted, or acknowledged as a duplicate.
DrainInsert ==
    /\ pc = "draining" /\ rest # {}
    /\ LET f == disk[First]
       IN  /\ f.seq = committed + 1
           /\ ~Conflicts(f)
           /\ ledger' = ledger \cup {RowOf(f)}
           /\ stored' = IF f.seq > stored THEN f.seq ELSE stored
           /\ committed' = f.seq
    /\ rest' = rest \ {First}
    /\ UNCHANGED <<header, disk, pc, memory, spooled>>

\* The frames a halted drain keeps.
Requeued == {p \in queue : disk[p].seq > committed}

\* SPOOL_MANUAL_HALT on a gap or a conflict; the authority may also throw for
\* any frame, before or after its row is in (`stands`).
DrainHalt(stands) ==
    /\ pc = "draining" /\ rest # {}
    /\ LET f == disk[First]
           inserts == f.seq = committed + 1 /\ ~Conflicts(f)
       IN  /\ stands => inserts
           /\ ledger' = IF stands THEN ledger \cup {RowOf(f)} ELSE ledger
           /\ stored' = IF stands /\ f.seq > stored THEN f.seq ELSE stored
    /\ queue' = Requeued
    /\ pc' = "idle"
    /\ rest' = {} /\ committed' = 0
    /\ UNCHANGED <<header, disk, acked, spooled>>

\* Every frame is in: the queue is cleared, then the ack is appended.
DrainAck ==
    /\ pc = "draining" /\ rest = {}
    /\ Len(disk) < MaxDisk
    /\ queue' = {}
    /\ disk' = Append(disk, Ack(committed))
    /\ acked' = committed
    /\ pc' = "idle"
    /\ rest' = {} /\ committed' = 0
    /\ UNCHANGED <<header, ledger, stored, spooled>>

\* appendAck throws, or the process dies in it.
DrainAckFails(extent, dies) ==
    /\ pc = "draining" /\ rest = {}
    /\ Len(disk) < MaxDisk
    /\ queue' = {}
    /\ disk' = Written(Ack(committed), extent)
    /\ pc' = IF dies THEN "down" ELSE "idle"
    /\ rest' = {} /\ committed' = 0
    /\ UNCHANGED <<header, acked, ledger, stored, spooled>>

\* The process dies between two steps.
Crash ==
    /\ pc # "down"
    /\ pc' = "down"
    /\ queue' = {} /\ rest' = {} /\ committed' = 0
    /\ UNCHANGED <<header, disk, acked, ledger, stored, spooled>>

\* Another writer of the authority stores an event.
OtherWriter(f) ==
    /\ ~ \E r \in ledger : r.id = f.id
    /\ ledger' = ledger \cup {RowOf(f)}
    /\ UNCHANGED <<header, disk, pc, memory, drain, stored, spooled>>

Next ==
    \/ Open
    \/ CreateFails
    \/ \E f \in Input : AppendFrame(f)
    \/ \E f \in Input, extent \in Extents, dies \in BOOLEAN : AppendFails(f, extent, dies)
    \/ DrainBegin
    \/ DrainInsert
    \/ \E stands \in BOOLEAN : DrainHalt(stands)
    \/ DrainAck
    \/ \E extent \in Extents, dies \in BOOLEAN : DrainAckFails(extent, dies)
    \/ Crash
    \/ \E f \in Input : OtherWriter(f)

Spec == Init /\ [][Next]_vars
-----------------------------------------------------------------------------
TypeOK ==
    /\ header \in {"none", "torn", "whole"}
    /\ disk \in Seq(Entry) /\ Len(disk) <= MaxDisk
    /\ pc \in {"down", "idle", "draining"}
    /\ queue \in SUBSET (1..Len(disk)) /\ rest \in SUBSET queue
    /\ \A p \in queue : disk[p] \in Frame
    /\ acked \in Nat /\ committed \in Nat /\ stored \in Nat
    /\ ledger \in SUBSET Row
    /\ spooled \in SUBSET (1..Len(disk))

\* No acknowledgement outruns the authority: the high-water in memory and every
\* ack in the file, the unreadable ones included, carry a sequence number the
\* authority has reached, whatever failed and whoever else writes to it.
AcksAreBacked ==
    /\ acked <= stored
    /\ \A i \in 1..Len(disk) : disk[i].kind = "ack" => disk[i].seq <= stored

\* No event is lost while the file is whole: a crash at any point replays every
\* SPOOLED frame the authority has not reached.
NothingIsLost ==
    header = "whole" /\ (\A i \in 1..Len(disk) : Parses(disk[i]))
        => \A p \in spooled : disk[p].seq > stored => p \in Replayed

\* The spool keeps the promise its readers rely on: the authority gets the
\* events in order and without a gap across crashes, halts and duplicate
\* drains, and the high-water moves forward while the spool is open.
Frontier == INSTANCE DurableFrontier WITH frontier <- acked, up <- pc # "down"
FrontierSpec == Frontier!Spec

\* spool-core.ts:24-25: "Crash before an ack safely replays: on reopen, frames
\* after the last ack are re-drained".
SpooledFramesReplay ==
    header = "whole" => \A p \in spooled : disk[p].seq > Recovered => p \in Replayed
=============================================================================
