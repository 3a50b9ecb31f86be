---------------------------- MODULE Ledger_proofs ----------------------------
(***************************************************************************)
(* Proofs about Ledger: for any messages, any calls and transcripts of any  *)
(* length the numbering has no gap, results stand behind their calls, the   *)
(* journal and the export hold only rows of the ledger, an event without a  *)
(* failed write leaves nothing behind, and readers in other processes see   *)
(* the log of OccurrenceLog.                                                *)
(***************************************************************************)
EXTENDS Ledger, TLAPS

\* The migration's step and the durable phase agree, and what it has checked
\* is not empty.
StepMatchesPhase ==
    /\ step \in {"copied", "checked"} => phase = "copied"
    /\ step = "validated" => phase = "validated"
    /\ step \in {"checked", "validated"} => staged # {}

LogInv ==
    /\ TypeOK /\ Contiguous /\ ResultsFollowCalls
    /\ JournalIsBacked /\ StepMatchesPhase

USE LedgerAssumption

\* Initially the ledger, the journal and the export are empty.
LEMMA InitLog == Init => LogInv
  <1> SUFFICES ASSUME Init PROVE LogInv
    OBVIOUS
  <1>1. {r.seq : r \in rows} = 1..highWater
    <2>1. {r.seq : r \in {}} = {}
      OBVIOUS
    <2>2. 1..0 = {}
      OBVIOUS
    <2> QED BY <2>1, <2>2 DEF Init
  <1>2. TypeOK
    <2>1. transcript \in Seq(Messages) /\ next \in Nat /\ next <= Len(transcript)
      BY DEF Init
    <2>2. grown \in BOOLEAN /\ clean \in BOOLEAN
      BY DEF Init
    <2>3. /\ rows \in SUBSET Row /\ highWater \in Nat /\ journal \in SUBSET Row
          /\ phase \in Phases /\ step \in Steps /\ staged \in SUBSET Row
      BY DEF Init, Phases, Steps
    <2> QED BY <2>1, <2>2, <2>3 DEF TypeOK
  <1> QED
    BY <1>1, <1>2 DEF Init, LogInv, Contiguous, ResultsFollowCalls, JournalIsBacked,
       StepMatchesPhase

\* The numbers of a set of rows with one row more.
LEMMA NumbersAdd ==
  ASSUME NEW S, NEW e
  PROVE  {r.seq : r \in S \cup {e}} = {r.seq : r \in S} \cup {e.seq}
  OBVIOUS

\* A step that leaves the database and the migration alone.
LEMMA SessionStep ==
  ASSUME LogInv, UNCHANGED <<log, journal, migration>>,
         transcript' \in Seq(Messages), next' \in Nat, next' <= Len(transcript'),
         grown' \in BOOLEAN, clean' \in BOOLEAN
  PROVE  LogInv'
  <1>1. /\ rows' = rows /\ highWater' = highWater /\ journal' = journal
        /\ phase' = phase /\ step' = step /\ staged' = staged
    BY DEF log, migration
  <1>2. Contiguous' /\ ResultsFollowCalls' /\ JournalIsBacked' /\ StepMatchesPhase'
    BY <1>1 DEF LogInv, Contiguous, ResultsFollowCalls, JournalIsBacked, StepMatchesPhase
  <1>3. TypeOK'
    BY <1>1 DEF LogInv, TypeOK
  <1> QED BY <1>2, <1>3 DEF LogInv

\* What an append does to the rows: nothing, or one row more at the next
\* number, for a message that is new and whose call is there.
LEMMA AppendCases ==
  ASSUME TypeOK, NEW m \in Messages, NEW seq \in Nat \ {0}, AppendOccurrence(m, seq)
  PROVE  \/ UNCHANGED log /\ Returned(m, seq) = Existing(m)
         \/ /\ Accepts(m, seq)
            /\ rows' = rows \cup {[seq |-> seq, msg |-> m]}
            /\ highWater' = seq
            /\ Returned(m, seq) = {[seq |-> seq, msg |-> m]}
  <1>1. CASE Accepts(m, seq)
    BY <1>1 DEF AppendOccurrence, Returned, Accepts
  <1>2. CASE ~Accepts(m, seq)
    BY <1>2 DEF AppendOccurrence, Returned, log
  <1> QED BY <1>1, <1>2

\* Every row an append returns is a row of the ledger behind it, and in the
\* journal once it is recorded.
LEMMA ReturnedIsRecorded ==
  ASSUME LogInv, NEW m \in Messages, NEW seq \in Nat \ {0}, AppendOccurrence(m, seq)
  PROVE  /\ Recorded(Returned(m, seq)) \subseteq rows'
         /\ journal \subseteq Recorded(Returned(m, seq))
         /\ Returned(m, seq) \subseteq Recorded(Returned(m, seq))
  <1> USE DEF LogInv
  <1>1. CASE UNCHANGED log /\ Returned(m, seq) = Existing(m)
    BY <1>1 DEF log, Existing, Recorded, JournalIsBacked, Contiguous
  <1>2. CASE /\ Accepts(m, seq)
             /\ rows' = rows \cup {[seq |-> seq, msg |-> m]}
             /\ Returned(m, seq) = {[seq |-> seq, msg |-> m]}
    <2>1. \A j \in journal : j.seq # seq
      <3>1. \A j \in journal : j.seq \in 1..highWater
        BY DEF JournalIsBacked, Contiguous
      <3> QED BY <3>1, <1>2 DEF Accepts, TypeOK
    <2> QED BY <1>2, <2>1 DEF Recorded, JournalIsBacked
  <1> QED BY <1>1, <1>2, AppendCases

\* An append keeps the numbering and the order of calls and results.
LEMMA AppendKeepsLog ==
  ASSUME LogInv, NEW m \in Messages, NEW seq \in Nat \ {0}, AppendOccurrence(m, seq)
  PROVE  /\ rows' \in SUBSET Row /\ highWater' \in Nat
         /\ Contiguous' /\ ResultsFollowCalls'
  <1> USE DEF LogInv, TypeOK
  <1>1. CASE UNCHANGED log
    BY <1>1 DEF log, Contiguous, ResultsFollowCalls
  <1>2. CASE /\ Accepts(m, seq)
             /\ rows' = rows \cup {[seq |-> seq, msg |-> m]}
             /\ highWater' = seq
    <2> DEFINE new == [seq |-> seq, msg |-> m]
    <2>1. seq = highWater + 1 /\ \A r \in rows : r.seq \in 1..highWater /\ r.msg # m
      BY <1>2 DEF Accepts, Existing, Contiguous
    <2>2. rows' \in SUBSET Row /\ highWater' \in Nat
      BY <1>2 DEF Row
    <2>3. {r.seq : r \in rows'} = 1..highWater'
      <3>1. {r.seq : r \in rows'} = {r.seq : r \in rows} \cup {seq}
        BY <1>2, NumbersAdd
      <3>2. {r.seq : r \in rows} = 1..highWater
        BY DEF Contiguous
      <3> QED BY <3>1, <3>2, <2>1, <1>2
    <2>4. \A r, s \in rows' : r.seq = s.seq \/ r.msg = s.msg => r = s
      <3> SUFFICES ASSUME NEW r \in rows', NEW s \in rows', r.seq = s.seq \/ r.msg = s.msg
                   PROVE  r = s
        OBVIOUS
      <3>1. CASE r \in rows /\ s \in rows
        BY <3>1 DEF Contiguous
      <3>2. CASE r = new /\ s = new
        BY <3>2
      <3>3. CASE r = new /\ s \in rows
        BY <3>3, <2>1
      <3>4. CASE r \in rows /\ s = new
        BY <3>4, <2>1
      <3> QED BY <3>1, <3>2, <3>3, <3>4, <1>2
    <2>5. ResultsFollowCalls'
      <3>1. ASSUME NEW r \in rows, CallOf[r.msg] # {}
            PROVE  \E c \in rows' : c.seq < r.seq /\ c.msg \in CallOf[r.msg]
        BY <3>1, <1>2 DEF ResultsFollowCalls
      <3>2. ASSUME CallOf[m] # {}
            PROVE  \E c \in rows' : c.seq < seq /\ c.msg \in CallOf[m]
        <4>1. PICK c \in rows : c.msg \in CallOf[m]
          BY <3>2, <1>2 DEF Accepts, Dangling
        <4> QED BY <4>1, <2>1, <1>2
      <3> QED BY <3>1, <3>2, <1>2 DEF ResultsFollowCalls
    <2> QED BY <2>2, <2>3, <2>4, <2>5 DEF Contiguous
  <1> QED BY <1>1, <1>2, AppendCases

\* Every step keeps the log, the journal and the migration in order.
LEMMA NextLog == LogInv /\ [Next]_vars => LogInv'
  <1> SUFFICES ASSUME LogInv, [Next]_vars
               PROVE  LogInv'
    OBVIOUS
  <1> USE DEF LogInv, TypeOK, StepMatchesPhase, JournalIsBacked
  <1>1. ASSUME NEW m \in Messages, Say(m)
        PROVE  LogInv'
    <2>1. /\ transcript' = Append(transcript, m)
          /\ grown' = grown /\ clean' = FALSE /\ next' = next
          /\ UNCHANGED <<log, journal, migration>>
      BY <1>1 DEF Say
    <2>2. transcript' \in Seq(Messages) /\ Len(transcript') = Len(transcript) + 1
      BY <2>1
    <2>3. next' \in Nat /\ next' <= Len(transcript')
      BY <2>1, <2>2
    <2>4. grown' \in BOOLEAN /\ clean' \in BOOLEAN
      BY <2>1
    <2> QED BY <2>1, <2>2, <2>3, <2>4, SessionStep
  <1>2. ASSUME NEW k \in DOMAIN transcript, Shorten(k)
        PROVE  LogInv'
    <2>1. SubSeq(transcript, 1, k - 1) \in Seq(Messages)
      OBVIOUS
    <2>2. <<Summary>> \o SubSeq(transcript, k + 1, Len(transcript)) \in Seq(Messages)
      <3>1. SubSeq(transcript, k + 1, Len(transcript)) \in Seq(Messages)
        OBVIOUS
      <3>2. <<Summary>> \in Seq(Messages)
        OBVIOUS
      <3> QED BY <3>1, <3>2
    <2>3. transcript' \in Seq(Messages)
      BY <1>2, <2>1, <2>2 DEF Shorten
    <2>4. next' = 0 /\ 0 <= Len(transcript')
      BY <1>2, <2>3 DEF Shorten
    <2> QED BY <1>2, <2>3, <2>4, SessionStep DEF Shorten
  <1>3. CASE ContextEvent
    <2>1. 1 <= Len(transcript)
      BY <1>3 DEF ContextEvent
    <2> QED BY <1>3, <2>1, SessionStep DEF ContextEvent, session
  <1>4. CASE AppendNext
    <2> DEFINE m == transcript[next]
    <2>1. m \in Messages /\ next \in Nat \ {0}
      BY <1>4 DEF AppendNext
    <2>2. AppendOccurrence(m, next)
      BY <1>4 DEF AppendNext
    <2>3. rows' \in SUBSET Row /\ highWater' \in Nat /\ Contiguous' /\ ResultsFollowCalls'
      BY <2>1, <2>2, AppendKeepsLog
    <2>4. rows \subseteq rows'
      BY <2>2 DEF AppendOccurrence
    <2>5. journal \subseteq journal' /\ journal' \subseteq rows'
      <3>1. CASE journal' = journal
        BY <3>1, <2>4
      <3>2. CASE journal' = Recorded(Returned(m, next))
        BY <3>2, <2>1, <2>2, ReturnedIsRecorded
      <3> QED BY <3>1, <3>2, <1>4 DEF AppendNext
    <2>6. next' \in Nat /\ next' <= Len(transcript)
      BY <1>4 DEF AppendNext, Following
    <2>7. clean' \in BOOLEAN
      BY <1>4 DEF AppendNext
    <2>8. UNCHANGED <<transcript, grown, phase, step, staged>>
      BY <1>4 DEF AppendNext, session, migration
    <2>9. TypeOK'
      BY <2>3, <2>5, <2>6, <2>7, <2>8
    <2>10. JournalIsBacked' /\ StepMatchesPhase'
      BY <2>5, <2>8
    <2> QED BY <2>3, <2>9, <2>10
  <1>5. CASE AppendThrows \/ Crash
    <2>1. next' \in Nat /\ next' <= Len(transcript)
      BY <1>5 DEF AppendThrows, Crash, Following
    <2>2. UNCHANGED <<transcript, grown, log, journal, migration>> /\ clean' = FALSE
      BY <1>5 DEF AppendThrows, Crash, session
    <2> QED BY <2>1, <2>2, SessionStep
  <1>6. CASE Prepare \/ Copy \/ Check \/ Validate \/ Switch \/ MigrationDies
    <2>1. UNCHANGED <<transcript, grown, next, clean, rows, highWater, journal>>
      BY <1>6 DEF Prepare, Copy, Check, Validate, Switch, MigrationDies, session,
         ingestion, log
    <2>2. phase' \in Phases /\ step' \in Steps /\ staged' \subseteq journal
      BY <1>6 DEF Prepare, Copy, Check, Validate, Switch, MigrationDies, Phases, Steps
    <2>3. StepMatchesPhase'
      BY <1>6 DEF Prepare, Copy, Check, ExportFails, Validate, Switch, MigrationDies
    <2> QED BY <2>1, <2>2, <2>3 DEF Contiguous, ResultsFollowCalls
  <1>7. CASE UNCHANGED vars
    BY <1>7, SessionStep DEF vars, session, ingestion
  <1> QED BY <1>1, <1>2, <1>3, <1>4, <1>5, <1>6, <1>7 DEF Next
-----------------------------------------------------------------------------
(* What an event leaves behind.  While the transcript only grows and does   *)
(* not repeat itself, every row is at the number of its message, so the     *)
(* next message is either known or next in line.                            *)

\* The messages a clean event has seen to.
Done == IF next = 0 THEN Len(transcript) ELSE next - 1

Plain == grown /\ ~Repeats /\ CallsComeFirst

RowsInPlace ==
    grown /\ ~Repeats =>
        \A r \in rows : r.seq \in DOMAIN transcript /\ transcript[r.seq] = r.msg

SeenTo ==
    clean =>
        /\ \A i \in 1..Done : \A r \in rows : r.msg = transcript[i] => r \in journal
        /\ Plain => highWater >= Done

PassInv == LogInv /\ RowsInPlace /\ SeenTo

\* A message behind the others repeats none and comes before none.
LEMMA SayShape ==
  ASSUME transcript \in Seq(Messages), NEW m \in Messages,
         transcript' = Append(transcript, m), ~Repeats'
  PROVE  ~Repeats
  <1>1. \A i \in DOMAIN transcript : i \in DOMAIN transcript' /\ transcript'[i] = transcript[i]
    OBVIOUS
  <1> QED BY <1>1 DEF Repeats

\* An append while the transcript is plain leaves its row in place.
LEMMA AppendInPlace ==
  ASSUME PassInv, AppendNext
  PROVE  RowsInPlace'
  <1> USE DEF PassInv, LogInv, TypeOK
  <1>1. transcript' = transcript /\ grown' = grown
    BY DEF AppendNext, session
  <1>2. next \in 1..Len(transcript) /\ transcript[next] \in Messages
        /\ AppendOccurrence(transcript[next], next)
    BY DEF AppendNext
  <1>3. rows' \subseteq rows \cup {[seq |-> next, msg |-> transcript[next]]}
    BY <1>2, AppendCases DEF log
  <1> QED BY <1>1, <1>2, <1>3 DEF RowsInPlace, Repeats

\* A successful append takes the high-water along, unless it is already there.
LEMMA AppendAdvances ==
  ASSUME PassInv, AppendNext, Plain, clean
  PROVE  highWater' >= next
  <1> USE DEF PassInv, LogInv, TypeOK
  <1> DEFINE m == transcript[next]
  <1>1. next \in 1..Len(transcript) /\ m \in Messages /\ AppendOccurrence(m, next)
    BY DEF AppendNext
  <1>2. highWater >= next - 1
    BY <1>1 DEF SeenTo, Done
  <1>3. highWater' >= highWater
    BY <1>1 DEF AppendOccurrence, Accepts
  <1>4. CASE highWater >= next
    BY <1>1, <1>3, <1>4 DEF AppendOccurrence, Accepts
  <1>5. CASE highWater = next - 1
    <2>1. Existing(m) = {}
      <3> SUFFICES ASSUME NEW r \in rows, r.msg = m PROVE FALSE
        BY DEF Existing
      <3>1. r.seq \in DOMAIN transcript /\ transcript[r.seq] = m
        BY DEF RowsInPlace, Plain
      <3>2. r.seq = next
        BY <3>1, <1>1 DEF Plain, Repeats
      <3>3. r.seq \in 1..highWater
        BY DEF Contiguous
      <3> QED BY <3>2, <3>3, <1>5
    <2>2. ~Dangling(m)
      <3> SUFFICES ASSUME CallOf[m] # {} PROVE \E r \in rows : r.msg \in CallOf[m]
        BY DEF Dangling
      <3>1. PICK j \in 1..(next - 1) : transcript[j] \in CallOf[m]
        BY <1>1 DEF Plain, CallsComeFirst
      <3>2. PICK r \in rows : r.seq = j
        BY <3>1, <1>5 DEF Contiguous
      <3>3. r.msg = transcript[j]
        BY <3>2 DEF RowsInPlace, Plain
      <3> QED BY <3>1, <3>2, <3>3
    <2> QED BY <1>1, <1>5, <2>1, <2>2 DEF AppendOccurrence, Accepts
  <1> QED BY <1>1, <1>2, <1>4, <1>5

\* A successful append sees to its message, and keeps what was seen to.
LEMMA AppendSeesTo ==
  ASSUME PassInv, AppendNext
  PROVE  SeenTo'
  <1> USE DEF PassInv, LogInv, TypeOK
  <1> DEFINE m == transcript[next]
  <1> SUFFICES ASSUME clean' PROVE SeenTo'
    BY DEF SeenTo
  <1>1. next \in 1..Len(transcript) /\ m \in Messages /\ AppendOccurrence(m, next)
    BY DEF AppendNext
  <1>2. clean /\ journal' = Recorded(Returned(m, next))
    BY DEF AppendNext
  <1>3. UNCHANGED <<transcript, grown>> /\ Done' = next
    BY <1>1 DEF AppendNext, session, Following, Done
  <1>4. journal \subseteq journal' /\ Returned(m, next) \subseteq journal'
    BY <1>1, <1>2, ReturnedIsRecorded
  <1>5. ASSUME NEW i \in 1..next, NEW r \in rows', r.msg = transcript[i]
        PROVE  r \in journal'
    <2>1. rows' = rows \/ rows' = rows \cup Returned(m, next)
      BY <1>1, AppendCases DEF log
    <2>2. CASE r \in Returned(m, next)
      BY <2>2, <1>4
    <2>3. CASE r \in rows /\ i = next
      <3>1. r \in Existing(m)
        BY <2>3, <1>5 DEF Existing
      <3> QED BY <3>1, <1>4 DEF Returned
    <2>4. CASE r \in rows /\ i # next
      <3>1. i \in 1..Done
        BY <2>4, <1>1 DEF Done
      <3> QED BY <3>1, <2>4, <1>2, <1>4, <1>5 DEF SeenTo
    <2> QED BY <2>1, <2>2, <2>3, <2>4
  <1>6. ASSUME Plain'
        PROVE  highWater' >= next
    <2>1. Plain
      BY <1>6, <1>3 DEF Plain, Repeats, CallsComeFirst
    <2> QED BY <2>1, <1>2, AppendAdvances
  <1> QED BY <1>3, <1>5, <1>6 DEF SeenTo

\* Every step keeps the rows in place and what was seen to.
LEMMA NextPass == PassInv /\ [Next]_vars => PassInv'
  <1> SUFFICES ASSUME PassInv, [Next]_vars
               PROVE  PassInv'
    OBVIOUS
  <1> USE DEF PassInv
  <1>0. LogInv'
    BY NextLog
  <1>1. ASSUME NEW m \in Messages, Say(m)
        PROVE  PassInv'
    <2>1. transcript \in Seq(Messages) /\ transcript' = Append(transcript, m)
      BY <1>1 DEF Say, LogInv, TypeOK
    <2>2. clean' = FALSE /\ grown' = grown /\ rows' = rows
      BY <1>1 DEF Say, log
    <2>3. RowsInPlace'
      <3> SUFFICES ASSUME grown, ~Repeats', NEW r \in rows
                   PROVE  r.seq \in DOMAIN transcript' /\ transcript'[r.seq] = r.msg
        BY <2>2 DEF RowsInPlace
      <3>1. r.seq \in DOMAIN transcript /\ transcript[r.seq] = r.msg
        BY <2>1, SayShape DEF RowsInPlace
      <3> QED BY <3>1, <2>1
    <2> QED BY <1>0, <2>2, <2>3 DEF SeenTo
  <1>2. ASSUME NEW k \in DOMAIN transcript, Shorten(k)
        PROVE  PassInv'
    BY <1>0, <1>2 DEF Shorten, RowsInPlace, SeenTo
  <1>3. CASE ContextEvent
    <2>1. UNCHANGED <<transcript, grown, rows, highWater, journal>> /\ next' = 1
      BY <1>3 DEF ContextEvent, session, log
    <2>2. RowsInPlace'
      BY <2>1 DEF RowsInPlace, Repeats
    <2>3. Done' = 0
      BY <2>1 DEF Done
    <2>4. highWater' >= 0
      BY <2>1 DEF LogInv, TypeOK
    <2>5. SeenTo'
      BY <2>3, <2>4 DEF SeenTo
    <2> QED BY <1>0, <2>2, <2>5
  <1>4. CASE AppendNext
    BY <1>0, <1>4, AppendInPlace, AppendSeesTo
  <1>5. CASE AppendThrows \/ Crash
    <2>1. UNCHANGED <<transcript, grown, rows>> /\ clean' = FALSE
      BY <1>5 DEF AppendThrows, Crash, session, log
    <2> QED BY <1>0, <2>1 DEF RowsInPlace, Repeats, SeenTo
  <1>6. CASE \/ Prepare \/ Copy \/ Check \/ Validate \/ Switch \/ MigrationDies
             \/ UNCHANGED vars
    <2>1. UNCHANGED <<transcript, grown, next, clean, rows, highWater, journal>>
      BY <1>6 DEF Prepare, Copy, Check, Validate, Switch, MigrationDies, session,
         ingestion, log, vars
    <2>2. Done' = Done /\ Plain' = Plain
      BY <2>1 DEF Done, Plain, Repeats, CallsComeFirst
    <2>3. RowsInPlace'
      BY <2>1 DEF RowsInPlace, Repeats
    <2>4. SeenTo'
      BY <2>1, <2>2 DEF SeenTo
    <2> QED BY <1>0, <2>3, <2>4
  <1> QED BY <1>1, <1>2, <1>3, <1>4, <1>5, <1>6 DEF Next

\* An event that has seen to the whole transcript has caught up.
LEMMA PassCatchesUp == PassInv => CaughtUp
  <1> SUFFICES ASSUME PassInv, next = 0, clean
               PROVE  CaughtUp
    BY DEF CaughtUp
  <1> USE DEF PassInv, LogInv, TypeOK
  <1>1. Done = Len(transcript)
    BY DEF Done
  <1>2. \A r \in rows : (\E i \in DOMAIN transcript : r.msg = transcript[i]) => r \in journal
    BY <1>1 DEF SeenTo
  <1>3. ASSUME Plain
        PROVE  rows = {[seq |-> i, msg |-> transcript[i]] : i \in DOMAIN transcript}
    <2> DEFINE full == {[seq |-> i, msg |-> transcript[i]] : i \in DOMAIN transcript}
    <2>1. ASSUME NEW r \in rows
          PROVE  r \in full
      <3>1. r.seq \in DOMAIN transcript /\ transcript[r.seq] = r.msg
        BY <1>3 DEF RowsInPlace, Plain
      <3>2. r = [seq |-> r.seq, msg |-> r.msg]
        BY DEF Row
      <3> QED BY <3>1, <3>2
    <2>2. ASSUME NEW i \in DOMAIN transcript
          PROVE  [seq |-> i, msg |-> transcript[i]] \in rows
      <3>1. i \in 1..highWater
        BY <1>1, <1>3 DEF SeenTo
      <3>2. PICK r \in rows : r.seq = i
        BY <3>1 DEF Contiguous
      <3>3. r.msg = transcript[i]
        BY <3>2, <1>3 DEF RowsInPlace, Plain
      <3>4. r = [seq |-> r.seq, msg |-> r.msg]
        BY DEF Row
      <3> QED BY <3>2, <3>3, <3>4
    <2> QED BY <2>1, <2>2
  <1> QED BY <1>2, <1>3 DEF CaughtUp, Plain
-----------------------------------------------------------------------------
LEMMA Invariance == Spec => []PassInv
  <1>1. Init => PassInv
    <2> SUFFICES ASSUME Init PROVE PassInv
      OBVIOUS
    <2>1. rows = {} /\ clean = FALSE
      BY DEF Init
    <2> QED BY <2>1, InitLog DEF PassInv, RowsInPlace, SeenTo
  <1> QED BY <1>1, NextPass, PTL DEF Spec

\* The state always has the types of TypeOK.
THEOREM TypeCorrect == Spec => []TypeOK
  <1>1. PassInv => TypeOK
    BY DEF PassInv, LogInv
  <1> QED BY <1>1, Invariance, PTL

\* The numbers up to the high-water are all taken, each by one message
\* (appendOccurrence).
THEOREM NoGap == Spec => []Contiguous
  <1>1. PassInv => Contiguous
    BY DEF PassInv, LogInv
  <1> QED BY <1>1, Invariance, PTL

\* A tool result stands behind its call (hasCallRef).
THEOREM CallsPrecede == Spec => []ResultsFollowCalls
  <1>1. PassInv => ResultsFollowCalls
    BY DEF PassInv, LogInv
  <1> QED BY <1>1, Invariance, PTL

\* The journal and the export hold rows of the ledger only (record, m2Copy).
THEOREM JournalBacked == Spec => []JournalIsBacked
  <1>1. PassInv => JournalIsBacked
    BY DEF PassInv, LogInv
  <1> QED BY <1>1, Invariance, PTL

\* An event without a failed write makes up for every earlier failure
\* (appendMessagesToLedger).
THEOREM EventCatchesUp == Spec => []CaughtUp
  <1> QED BY PassCatchesUp, Invariance, PTL

\* Only a validated export that is not empty takes over (m2Switch).
THEOREM SwitchEarned == Spec => SwitchIsEarned
  <1>1. LogInv /\ [Next]_vars =>
          [phase' = "switched" /\ phase # "switched" =>
             phase = "validated" /\ staged # {} /\ staged \subseteq journal]_vars
    <2> SUFFICES ASSUME LogInv, Next, phase' = "switched", phase # "switched"
                 PROVE  phase = "validated" /\ staged # {} /\ staged \subseteq journal
      OBVIOUS
    <2>1. Switch
      BY DEF Next, Say, Shorten, ContextEvent, AppendNext, AppendThrows, Crash, Prepare,
         Copy, Check, Validate, MigrationDies, migration
    <2> QED BY <2>1 DEF Switch, LogInv, StepMatchesPhase, JournalIsBacked
  <1>2. PassInv => LogInv
    BY DEF PassInv
  <1> QED BY <1>1, <1>2, Invariance, PTL DEF Spec, SwitchIsEarned
-----------------------------------------------------------------------------
(* What the readers are promised.  The numbering has no gap, so the rows    *)
(* read in the order of their numbers are a sequence, and a row is at its   *)
(* number in it; an append that is accepted puts one message behind it.     *)

Recording == [n \in 1..highWater |-> Message(n)]

HoldsTheRows ==
    /\ Recording \in Seq(Messages) /\ Len(Recording) = highWater
    /\ \A r \in rows : r.seq \in 1..highWater /\ Recording[r.seq] = r.msg
    /\ \A n \in 1..highWater : \E r \in rows : r.seq = n /\ r.msg = Recording[n]

\* The rows in the order of their numbers are a sequence of messages that holds
\* each of them at its number, and holds nothing else.
LEMMA RowsRecorded == TypeOK /\ Contiguous => HoldsTheRows
  <1> SUFFICES ASSUME TypeOK, Contiguous PROVE HoldsTheRows
    OBVIOUS
  <1> USE DEF TypeOK, Row
  <1>1. ASSUME NEW n \in 1..highWater
        PROVE  \E r \in rows : r.seq = n /\ r.msg = Message(n)
    <2>1. \E r \in rows : r.seq = n
      BY DEF Contiguous
    <2> QED BY <2>1 DEF Message
  <1>2. Recording \in [1..highWater -> Messages]
    BY <1>1 DEF Recording
  <1>3. Recording \in Seq(Messages) /\ Len(Recording) = highWater
    BY <1>2
  <1>4. ASSUME NEW r \in rows
        PROVE  r.seq \in 1..highWater /\ Recording[r.seq] = r.msg
    <2>1. r.seq \in 1..highWater
      BY DEF Contiguous
    <2>2. PICK s \in rows : s.seq = r.seq /\ s.msg = Message(r.seq)
      BY <1>1, <2>1
    <2>3. s = r
      BY <2>2 DEF Contiguous
    <2> QED BY <2>1, <2>2, <2>3 DEF Recording
  <1>5. \A n \in 1..highWater : \E r \in rows : r.seq = n /\ r.msg = Recording[n]
    BY <1>1 DEF Recording
  <1> QED BY <1>3, <1>4, <1>5 DEF HoldsTheRows

\* An append that is accepted records its message behind the others.
LEMMA AcceptedIsAppended ==
  ASSUME LogInv, LogInv', NEW m \in Messages, NEW seq \in Nat \ {0}, Accepts(m, seq),
         rows' = rows \cup {[seq |-> seq, msg |-> m]}, highWater' = seq
  PROVE  Recording' = Append(Recording, m)
  <1>1. HoldsTheRows
    BY RowsRecorded DEF LogInv
  <1>2. HoldsTheRows'
    <2>1. TypeOK' /\ Contiguous'
      BY DEF LogInv
    <2> QED BY <2>1, RowsRecorded, PTL
  <1> USE DEF HoldsTheRows
  <1>3. seq = highWater + 1 /\ highWater \in Nat
    BY DEF Accepts, LogInv, TypeOK
  <1>4. Recording'[seq] = m
    <2>1. [seq |-> seq, msg |-> m] \in rows'
      OBVIOUS
    <2> QED BY <1>2, <2>1
  <1>5. ASSUME NEW n \in 1..highWater
        PROVE  Recording'[n] = Recording[n]
    <2>1. PICK r \in rows : r.seq = n /\ r.msg = Recording[n]
      BY <1>1
    <2> QED BY <1>2, <2>1
  <1>6. /\ Append(Recording, m) \in Seq(Messages)
        /\ Len(Append(Recording, m)) = highWater + 1
        /\ Append(Recording, m)[highWater + 1] = m
        /\ \A n \in 1..highWater : Append(Recording, m)[n] = Recording[n]
    BY <1>1, <1>3
  <1>7. \A n \in 1..Len(Recording') : Recording'[n] = Append(Recording, m)[n]
    BY <1>2, <1>3, <1>4, <1>5, <1>6
  <1> QED BY <1>2, <1>3, <1>6, <1>7

\* What an acknowledgement adds to the journal is the row of a message.
LEMMA JournalAdds ==
  ASSUME LogInv, NEW m \in Messages
  PROVE  \/ Recorded(Existing(m)) = journal
         \/ \E r \in Existing(m) : Recorded(Existing(m)) = journal \cup {r}
  <1>1. CASE Existing(m) = {}
    BY <1>1 DEF Recorded
  <1>2. CASE Existing(m) # {}
    <2>1. PICK r \in rows : r.msg = m
      BY <1>2 DEF Existing
    <2>2. Existing(m) = {r}
      BY <2>1 DEF Existing, LogInv, Contiguous
    <2> QED BY <2>2 DEF Recorded
  <1> QED BY <1>1, <1>2

\* An append records a new message, copies an old one or does nothing.
LEMMA AppendForReaders ==
  ASSUME LogInv, LogInv', AppendNext
  PROVE  Readers!Next \/ UNCHANGED <<Recording, journal, staged>>
  <1> DEFINE m == transcript[next]
  <1>1. m \in Messages /\ next \in Nat \ {0} /\ AppendOccurrence(m, next)
    BY DEF AppendNext, LogInv, TypeOK
  <1>2. staged' = staged /\ (journal' = journal \/ journal' = Recorded(Returned(m, next)))
    BY DEF AppendNext, migration
  <1>3. HoldsTheRows
    BY RowsRecorded DEF LogInv
  <1>4. CASE UNCHANGED log /\ Returned(m, next) = Existing(m)
    <2>1. Recording' = Recording
      BY <1>4 DEF log, Recording, Message
    <2>2. CASE journal' = journal
      BY <1>2, <2>1, <2>2
    <2>3. ASSUME NEW r \in Existing(m), journal' = journal \cup {r}
          PROVE  Readers!Next
      <3>1. r.seq \in DOMAIN Recording /\ r = [seq |-> r.seq, msg |-> Recording[r.seq]]
        <4>1. r \in rows /\ r = [seq |-> r.seq, msg |-> r.msg]
          BY DEF Existing, LogInv, TypeOK, Row
        <4> QED BY <4>1, <1>3 DEF HoldsTheRows
      <3>2. Readers!Copy(r.seq)
        BY <3>1, <2>1, <2>3, <1>2 DEF Readers!Copy, Recording
      <3> QED BY <3>1, <3>2 DEF Readers!Next, Recording
    <2> QED BY <1>1, <1>2, <1>4, <2>1, <2>2, <2>3, JournalAdds
  <1>5. CASE /\ Accepts(m, next)
             /\ rows' = rows \cup {[seq |-> next, msg |-> m]}
             /\ highWater' = next
             /\ Returned(m, next) = {[seq |-> next, msg |-> m]}
    <2>1. Recording' = Append(Recording, m)
      BY <1>1, <1>5, AcceptedIsAppended
    <2>2. ~\E n \in DOMAIN Recording : Recording[n] \in {m}
      BY <1>3, <1>5 DEF HoldsTheRows, Accepts, Existing
    <2>3. CallOf[m] # {} => \E n \in DOMAIN Recording : Recording[n] \in CallOf[m]
      BY <1>3, <1>5 DEF HoldsTheRows, Accepts, Dangling
    <2>4. next = Len(Recording) + 1
      BY <1>3, <1>5 DEF HoldsTheRows, Accepts
    <2>5. journal' \in {journal, journal \cup {[seq |-> next, msg |-> m]}}
      BY <1>2, <1>5 DEF Recorded
    <2>6. Readers!Record(m)
      BY <1>2, <2>1, <2>2, <2>3, <2>4, <2>5 DEF Readers!Record, Readers!Holds, Recording
    <2> QED BY <1>1, <2>6 DEF Readers!Next
  <1> QED BY <1>1, <1>4, <1>5, AppendCases DEF LogInv

\* The ledger, the event that feeds it and the migration make no step the
\* readers are not promised: a rewind, a rejection, a rollback or a crash is
\* nothing to them.
LEMMA ReaderStep ==
  LogInv /\ LogInv' /\ [Next]_vars => [Readers!Next]_<<Recording, journal, staged>>
  <1> SUFFICES ASSUME LogInv, LogInv', [Next]_vars
               PROVE  Readers!Next \/ UNCHANGED <<Recording, journal, staged>>
    OBVIOUS
  <1>1. CASE AppendNext
    BY <1>1, AppendForReaders
  <1>2. CASE \/ \E m \in Messages : Say(m)
             \/ \E k \in DOMAIN transcript : Shorten(k)
             \/ ContextEvent \/ AppendThrows \/ Crash
             \/ UNCHANGED vars
    <2>1. UNCHANGED <<rows, highWater, journal, staged>>
      BY <1>2 DEF Say, Shorten, ContextEvent, AppendThrows, Crash, vars, log, migration
    <2>2. Recording' = Recording
      BY <2>1 DEF Recording, Message
    <2> QED BY <2>1, <2>2
  <1>3. CASE Prepare \/ Copy \/ Check \/ Validate \/ Switch \/ MigrationDies
    <2>1. UNCHANGED <<rows, highWater, journal>> /\ staged' \in {staged, {}, journal}
      BY <1>3 DEF Prepare, Copy, Check, Validate, Switch, MigrationDies, log
    <2>2. Recording' = Recording
      BY <2>1 DEF Recording, Message
    <2> QED BY <2>1, <2>2 DEF Readers!Next, Readers!Export, Recording
  <1> QED BY <1>1, <1>2, <1>3 DEF Next
-----------------------------------------------------------------------------
\* The ledger implements OccurrenceLog: rows keep their numbers, the journal and
\* the exports only ever copy them (appendOccurrence, record, m2Copy).
THEOREM ImplementsLog == Spec => ReaderSpec
  <1>1. Init => Readers!Init
    <2>1. 1..0 = {}
      OBVIOUS
    <2> QED BY <2>1 DEF Init, Readers!Init
  <1>2. PassInv => LogInv
    BY DEF PassInv
  <1>3. LogInv /\ LogInv' /\ [Next]_vars => [Readers!Next]_(Readers!vars)
    BY ReaderStep DEF Readers!vars, Recording
  <1> QED BY <1>1, <1>2, <1>3, Invariance, PTL DEF Spec, ReaderSpec, Readers!Spec
=============================================================================
