------------------------------- MODULE Ledger -------------------------------
(***************************************************************************)
(* The occurrence ledger of one session (src/vector-cortex/ledger) and the  *)
(* context event that feeds it (vector-cortex-ledger.ts).  Every context    *)
(* event appends the whole list of messages again, each at its position in  *)
(* the list; the ledger knows a message by its event id and digest, takes a *)
(* new one only at the sequence number after its high-water, and copies     *)
(* every row it acknowledges into the compat journal.  A migration in       *)
(* another process exports the journal for an old binary, one durable phase *)
(* after the other.                                                         *)
(*                                                                         *)
(* An append is one SQLite transaction.  It may throw, which undoes it, and *)
(* the journal's insert may fail inside it, which the code swallows.  Both  *)
(* processes may die between two of their steps.                            *)
(*                                                                         *)
(* A message stands for its event id, its digest and its bytes.  The digest *)
(* is the one appendOccurrence computes: no caller passes its own.          *)
(*                                                                         *)
(* The context event passes no toolCallId so far: there CallOf is empty for *)
(* every message.  Messages with calls are those of the ledger's interface, *)
(* which the event's mapping is announced to fill in.                       *)
(***************************************************************************)
EXTENDS Integers, Sequences

CONSTANTS
    Messages,
    CallOf,    \* the messages a tool result may name as its call; {} for others
    Summary,   \* the message a compaction leaves in front
    MaxLen     \* bound: messages of the transcript

ASSUME LedgerAssumption ==
    /\ CallOf \in [Messages -> SUBSET Messages]
    /\ Summary \in Messages
    /\ MaxLen \in Nat

VARIABLES
    transcript, \* the messages pi passes to the context hook
    grown,      \* history: messages were only ever added to it
    next,       \* position of the message to append, 0 between two events
    clean,      \* history: no write has failed since the event began, and
                \* the transcript is still the one it read
    rows,       \* occurrence_v2
    highWater,  \* ledger_high_water
    journal,    \* compat_journal_v1
    phase,      \* compat_journal_state
    step,       \* the migration's last step, "none" when none runs
    staged      \* its export, in memory

session == <<transcript, grown>>
ingestion == <<next, clean>>
log == <<rows, highWater>>
migration == <<phase, step, staged>>
vars == <<session, ingestion, log, journal, migration>>

Row == [seq : Nat \ {0}, msg : Messages]
Phases == {"prepared", "copied", "validated", "switched"}
Steps == {"none", "prepared", "copied", "checked", "validated"}
-----------------------------------------------------------------------------
(* The ledger *)

\* The row that is known under the event id and digest of m.
Existing(m) == {r \in rows : r.msg = m}

\* hasCallRef: any row under the id will do, not only a call.
Dangling(m) == CallOf[m] # {} /\ \A r \in rows : r.msg \notin CallOf[m]

\* Mutant: the reference to the call is not looked up.
AcceptsDangling(m, seq) == Existing(m) = {} /\ seq = highWater + 1

\* Mutant: a gap in the sequence numbers is accepted.
AcceptsGap(m, seq) == Existing(m) = {} /\ seq > highWater /\ ~Dangling(m)

Accepts(m, seq) == Existing(m) = {} /\ seq = highWater + 1 /\ ~Dangling(m)

\* Mutant: a known message is acknowledged under the caller's number.
ReturnedAsGiven(m, seq) ==
    {r \in {[seq |-> seq, msg |-> m]} : Existing(m) # {} \/ Accepts(m, seq)}

\* The row an append returns, if it is not rejected: a known row as it is
\* stored, with its own sequence number.
Returned(m, seq) ==
    Existing(m) \cup {r \in {[seq |-> seq, msg |-> m]} : Accepts(m, seq)}

\* Mutant: only a row that was just inserted is journalled.
RecordedOnce(new) ==
    journal \cup {r \in new \ rows : \A j \in journal : j.seq # r.seq}

\* record: ON CONFLICT(session, seq) DO NOTHING.
Recorded(new) ==
    journal \cup {r \in new : \A j \in journal : j.seq # r.seq}

\* LedgerWriter.append, when the transaction commits.
AppendOccurrence(m, seq) ==
    /\ rows' = rows \cup {r \in Returned(m, seq) : Accepts(m, seq)}
    /\ highWater' = IF Accepts(m, seq) THEN seq ELSE highWater
-----------------------------------------------------------------------------
(* The context event *)

Init ==
    /\ transcript = <<>> /\ grown = TRUE
    /\ next = 0 /\ clean = FALSE
    /\ rows = {} /\ highWater = 0
    /\ journal = {}
    /\ phase = "prepared" /\ step = "none" /\ staged = {}

\* A message is added to the transcript.
Say(m) ==
    /\ next = 0 /\ Len(transcript) < MaxLen
    /\ transcript' = Append(transcript, m)
    /\ clean' = FALSE
    /\ UNCHANGED <<grown, next, log, journal, migration>>

\* A rewind drops the messages behind the k-th; a compaction puts its
\* summary in place of the first k.
Shorten(k) ==
    /\ next = 0
    /\ transcript' \in {SubSeq(transcript, 1, k - 1),
                        <<Summary>> \o SubSeq(transcript, k + 1, Len(transcript))}
    /\ grown' = FALSE
    /\ clean' = FALSE
    /\ UNCHANGED <<next, log, journal, migration>>

ContextEvent ==
    /\ next = 0 /\ transcript # <<>>
    /\ next' = 1
    /\ clean' = TRUE
    /\ UNCHANGED <<session, log, journal, migration>>

\* Mutant: the loop runs one past the end.
FollowingPastEnd == IF next <= Len(transcript) THEN next + 1 ELSE 0

\* appendMessagesToLedger goes on with the next message, whatever became of
\* this one.
Following == IF next < Len(transcript) THEN next + 1 ELSE 0

AppendNext ==
    /\ next # 0
    /\ AppendOccurrence(transcript[next], next)
    /\ \/ journal' = Recorded(Returned(transcript[next], next)) /\ UNCHANGED clean
       \/ journal' = journal /\ clean' = FALSE
    /\ next' = Following
    /\ UNCHANGED <<session, migration>>

AppendThrows ==
    /\ next # 0
    /\ next' = Following
    /\ clean' = FALSE
    /\ UNCHANGED <<session, log, journal, migration>>

Crash ==
    /\ next # 0
    /\ next' = 0
    /\ clean' = FALSE
    /\ UNCHANGED <<session, log, journal, migration>>
-----------------------------------------------------------------------------
(* migrateOccurrenceV2 *)

Prepare ==
    /\ step = "none"
    /\ phase' = "prepared" /\ step' = "prepared"
    /\ UNCHANGED <<session, ingestion, log, journal, staged>>

\* m2Copy: the export is kept in memory, the phase in the database.
Copy ==
    /\ step = "prepared"
    /\ staged' = journal
    /\ phase' = "copied" /\ step' = "copied"
    /\ UNCHANGED <<session, ingestion, log, journal>>

\* Mutant: an empty journal is exported, too.
ExportFailsUnlessEqual == staged # journal \/ phase # "copied"

\* m2Validate, what it finds wrong with the export.
ExportFails == staged # journal \/ journal = {} \/ phase # "copied"

Check ==
    /\ step = "copied"
    /\ step' = IF ExportFails THEN "none" ELSE "checked"
    /\ staged' = IF ExportFails THEN {} ELSE staged
    /\ UNCHANGED <<session, ingestion, log, journal, phase>>

\* CompatJournalV1.validate, whose own checks the copy has just passed.
Validate ==
    /\ step = "checked"
    /\ phase' = "validated" /\ step' = "validated"
    /\ UNCHANGED <<session, ingestion, log, journal, staged>>

Switch ==
    /\ step = "validated"
    /\ phase' = IF journal # {} THEN "switched" ELSE phase
    /\ step' = "none" /\ staged' = {}
    /\ UNCHANGED <<session, ingestion, log, journal>>

MigrationDies ==
    /\ step # "none"
    /\ step' = "none" /\ staged' = {}
    /\ UNCHANGED <<session, ingestion, log, journal, phase>>
-----------------------------------------------------------------------------
Next ==
    \/ \E m \in Messages : Say(m)
    \/ \E k \in DOMAIN transcript : Shorten(k)
    \/ ContextEvent
    \/ AppendNext
    \/ AppendThrows
    \/ Crash
    \/ Prepare \/ Copy \/ Check \/ Validate \/ Switch \/ MigrationDies

Spec == Init /\ [][Next]_vars
-----------------------------------------------------------------------------
(* Properties *)

TypeOK ==
    /\ transcript \in Seq(Messages) /\ grown \in BOOLEAN
    /\ next \in Nat /\ next <= Len(transcript) /\ clean \in BOOLEAN
    /\ rows \in SUBSET Row /\ highWater \in Nat
    /\ journal \in SUBSET Row
    /\ phase \in Phases /\ step \in Steps
    /\ staged \in SUBSET Row

\* The rows are numbered from 1 to the high-water without a gap, one row to a
\* number, and no message has two of them: what a reader takes for the session
\* up to the high-water is all there (sqlite.ts:174-252).
Contiguous ==
    /\ {r.seq : r \in rows} = 1..highWater
    /\ \A r, s \in rows : r.seq = s.seq \/ r.msg = s.msg => r = s

\* A tool result in the ledger stands behind a row its call id names, in
\* whatever order, and with whatever failures, messages were offered
\* (sqlite.ts:221-226).
ResultsFollowCalls ==
    \A r \in rows : CallOf[r.msg] # {} =>
        \E c \in rows : c.seq < r.seq /\ c.msg \in CallOf[r.msg]

\* What the journal holds, and what a migration has staged from it, is a row
\* of the ledger under the number it has there (sqlite.ts:203-208).
JournalIsBacked == journal \subseteq rows /\ staged \subseteq journal

Repeats == \E i, j \in DOMAIN transcript : i # j /\ transcript[i] = transcript[j]
CallsComeFirst ==
    \A i \in DOMAIN transcript : CallOf[transcript[i]] # {} =>
        \E j \in 1..(i - 1) : transcript[j] \in CallOf[transcript[i]]

\* After an event in which every write succeeded, whatever failed in earlier
\* ones, the journal holds every message of the transcript that has a row; and
\* if messages were only ever added, none of them twice, the ledger is the
\* transcript (vector-cortex-ledger.ts:88-116).
CaughtUp ==
    next = 0 /\ clean =>
        /\ \A r \in rows :
             (\E i \in DOMAIN transcript : r.msg = transcript[i]) => r \in journal
        /\ grown /\ ~Repeats /\ CallsComeFirst =>
             rows = {[seq |-> i, msg |-> transcript[i]] : i \in DOMAIN transcript}

\* The ledger keeps the promise its readers in other processes rely on: rewinds,
\* compactions, failed writes and crashes leave every row at its number and
\* every journal entry as it is, and append to both or do nothing
\* (sqlite.ts:203-251, compat-journal.ts:134-157).
Message(n) == (CHOOSE r \in rows : r.seq = n).msg
Readers == INSTANCE OccurrenceLog WITH
    recorded <- [n \in 1..highWater |-> Message(n)],
    copied <- journal,
    exported <- staged
ReaderSpec == Readers!Spec

\* The export takes over from a journal that is not empty, validated since its
\* last copy, and never loses a row between the check and the switch
\* (occurrence-v2.ts:77-150, compat-journal.ts:185-220).
SwitchIsEarned ==
    [][phase' = "switched" /\ phase # "switched" =>
         phase = "validated" /\ staged # {} /\ staged \subseteq journal]_vars

\* "Each canonical message that flows through the compaction pipeline becomes
\* an occurrence in the v2 ledger" (vector-cortex-ledger.ts:4-6): after an
\* event in which no write failed, over a transcript to which messages were
\* only added, every message has a row.
EveryMessageRecorded ==
    next = 0 /\ clean /\ grown /\ CallsComeFirst =>
        \A i \in DOMAIN transcript : Existing(transcript[i]) # {}
=============================================================================
