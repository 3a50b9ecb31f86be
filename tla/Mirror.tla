------------------------------- MODULE Mirror -------------------------------
(***************************************************************************)
(* The database mirror of a session's transcript.  A context event appends  *)
(* the messages behind the session's high-water mark to raw_transcript      *)
(* (mirror-append.ts, context-hwm.ts), or all of them when the transcript   *)
(* no longer fits the mark.  After a compaction the rows of the compacted   *)
(* messages are deduplicated across sessions (mirror/dedup.ts).  Retention  *)
(* and reconciliation (store/sqlite/maintenance.ts) run at any time, from   *)
(* any process.  Of the other sessions only what they share is modelled:    *)
(* rows that refer to the same hashes, set by the same two statements.      *)
(*                                                                         *)
(* A step is one SQL statement or one transaction.  Each may fail: the      *)
(* mark's own statements are swallowed one by one, a failed append or       *)
(* dedup statement ends its pass, and so does the death of the process.     *)
(*                                                                         *)
(* A message stands for its content and the hash of it.  A content_ref,     *)
(* once set, is the row's own hash.  dedup_mirror.ref_count is left out:    *)
(* no statement that changes rows reads it.                                 *)
(***************************************************************************)
EXTENDS Integers, Sequences, FiniteSets

CONSTANTS
    Contents,  \* what messages say, as far as there is anything to mirror
    Shared,    \* what other sessions say, too
    Empty,     \* a message without content
    MaxLen,    \* bound: messages of the transcript
    MaxSeq     \* bound: numbers given to rows, which pruning leaves unused

ASSUME MirrorAssumption ==
    /\ Shared \subseteq Contents /\ Empty \notin Contents
    /\ MaxLen \in Nat /\ MaxSeq \in Nat

VARIABLES
    transcript, \* the messages pi passes to the context hook
    mark,       \* context_hwm
    next,       \* position of the message to append, 0 between two events
    full,       \* the event began at the first message
    rows,       \* raw_transcript, the session's rows
    others,     \* raw_transcript, the hashes rows of other sessions refer to
    stored,     \* the hashes in dedup_mirror
    todo,       \* rows a dedup pass has listed and not yet finished
    half,       \* its first statement for the current row has run
    othersHalf, \* hashes for which another session's first statement has run
    cut,        \* messages the pass covers, 0 if some of them may have no row
    \* history, read by no action
    plain,      \* the transcript has only grown and no row was pruned
    stale,      \* behind the mark messages were dropped or rows pruned
    clean,      \* the last event succeeded, and saw the transcript as it is
    deduped,    \* messages covered by finished passes
    raced       \* maintenance removed a hash between the two statements

event == <<mark, next, full>>
pass == <<todo, half, cut>>
elsewhere == <<others, othersHalf>>
history == <<plain, stale, clean, deduped, raced>>
vars == <<transcript, event, rows, stored, pass, elsewhere, history>>

NoMark == [seq |-> 0, hash |-> Empty]
Mark == [seq : 0..MaxLen, hash : Contents \cup {Empty}]
Listed == [seq : Nat \ {0}, hash : Contents]
Row == [seq : Nat \ {0}, hash : Contents, ref : BOOLEAN]

-----------------------------------------------------------------------------
Init ==
    /\ transcript = <<>>
    /\ mark = NoMark /\ next = 0 /\ full = FALSE
    /\ rows = {} /\ others = {} /\ stored = {}
    /\ todo = {} /\ half = FALSE /\ cut = 0 /\ othersHalf = {}
    /\ plain = TRUE /\ stale = FALSE /\ clean = FALSE /\ deduped = 0
    /\ raced = FALSE

Say(m) ==
    /\ next = 0 /\ todo = {} /\ Len(transcript) < MaxLen
    /\ transcript' = Append(transcript, m)
    /\ clean' = FALSE
    /\ UNCHANGED <<event, rows, stored, pass, elsewhere,
                   plain, stale, deduped, raced>>

\* The user goes back on the tree to before the k-th message.
Rewind(k) ==
    /\ next = 0 /\ todo = {}
    /\ transcript' = SubSeq(transcript, 1, k - 1)
    /\ plain' = FALSE /\ stale' = (stale \/ k <= mark.seq)
    /\ clean' = FALSE /\ deduped' = 0
    /\ UNCHANGED <<event, rows, stored, pass, elsewhere, raced>>
-----------------------------------------------------------------------------
(* appendMirrorMessages *)

\* Only what lies behind the mark is new.
Fits(m) ==
    m # NoMark /\ Len(transcript) > m.seq /\ transcript[m.seq] = m.hash

\* A mark that cannot be read is none; one that cannot be dropped stays.
ContextEvent ==
    /\ next = 0 /\ todo = {} /\ transcript # <<>>
    /\ \E read, drop \in BOOLEAN :
         LET m == IF read THEN mark ELSE NoMark IN
         /\ next' = IF Fits(m) THEN m.seq + 1 ELSE 1
         /\ full' = ~Fits(m)
         /\ mark' = IF Fits(m) \/ m = NoMark \/ ~drop THEN mark ELSE NoMark
         /\ clean' = (read /\ drop)
    /\ UNCHANGED <<transcript, rows, stored, pass, elsewhere,
                   plain, stale, deduped, raced>>

NextSeq ==
    1 + (CHOOSE n \in {0} \cup {r.seq : r \in rows} : \A r \in rows : r.seq <= n)

\* appendRawTranscript: INSERT OR IGNORE under (content_hash, session_id).
Appended(m) ==
    IF m = Empty \/ \E r \in rows : r.hash = m THEN rows
    ELSE rows \cup {[seq |-> NextSeq, hash |-> m, ref |-> FALSE]}

AppendNext ==
    /\ next \in 1..Len(transcript)
    /\ rows' = Appended(transcript[next])
    /\ \A r \in rows' : r.seq <= MaxSeq
    /\ next' = next + 1
    /\ UNCHANGED <<transcript, mark, full, stored, pass, elsewhere, history>>

\* Mutant: a failed append is skipped and the event goes on.
EventSkips ==
    /\ next \in 1..Len(transcript)
    /\ next' = next + 1
    /\ UNCHANGED <<transcript, mark, full, rows, stored, pass, elsewhere, history>>

\* An append throws, or the process dies.
EventFails ==
    /\ next # 0
    /\ next' = 0 /\ full' = FALSE
    /\ clean' = FALSE
    /\ UNCHANGED <<transcript, mark, rows, stored, pass, elsewhere,
                   plain, stale, deduped, raced>>

\* Mutant: the mark is the position after the last message.
LastMessagePast ==
    [seq |-> Len(transcript) + 1, hash |-> transcript[Len(transcript)]]

LastMessage == [seq |-> Len(transcript), hash |-> transcript[Len(transcript)]]

WriteMark ==
    /\ next = Len(transcript) + 1 /\ transcript # <<>>
    /\ next' = 0 /\ full' = FALSE
    /\ \/ /\ mark' = LastMessage
          /\ stale' = (stale /\ ~(full /\ clean))
          /\ UNCHANGED clean
       \/ clean' = FALSE /\ UNCHANGED <<mark, stale>>
    /\ UNCHANGED <<transcript, rows, stored, pass, elsewhere,
                   plain, deduped, raced>>
-----------------------------------------------------------------------------
(* dedupTranscript, over the rows up to the compacted message's index *)

\* Mutant: the upper end is excluded.
ListRangeBelow(n) ==
    {[seq |-> r.seq, hash |-> r.hash] : r \in {q \in rows : q.seq < n}}

ListRange(n) ==
    {[seq |-> r.seq, hash |-> r.hash] : r \in {q \in rows : q.seq <= n}}

Current == CHOOSE r \in todo : \A q \in todo : r.seq <= q.seq

StartDedup ==
    /\ next = 0 /\ todo = {}
    /\ \E n \in DOMAIN transcript :
         todo' = ListRange(n) /\ cut' = IF clean THEN n ELSE 0
    /\ todo' # {}
    /\ UNCHANGED <<transcript, event, rows, stored, half, elsewhere, history>>

\* upsertDedupMirror.
Upsert ==
    /\ todo # {} /\ ~half
    /\ stored' = stored \cup {Current.hash}
    /\ half' = TRUE
    /\ UNCHANGED <<transcript, event, rows, todo, cut, elsewhere, history>>

\* updateRawTranscriptRef.
SetRef ==
    /\ half
    /\ rows' = {[r EXCEPT !.ref = @ \/ r.seq = Current.seq] : r \in rows}
    /\ todo' = todo \ {Current} /\ half' = FALSE
    /\ cut' = IF todo' = {} THEN 0 ELSE cut
    /\ deduped' = IF todo' = {} /\ cut > deduped THEN cut ELSE deduped
    /\ UNCHANGED <<transcript, event, stored, elsewhere,
                   plain, stale, clean, raced>>

DedupFails ==
    /\ todo # {}
    /\ todo' = {} /\ half' = FALSE /\ cut' = 0
    /\ UNCHANGED <<transcript, event, rows, stored, elsewhere, history>>

\* The other sessions do the same with rows of their own.
OtherUpserts(c) ==
    /\ stored' = stored \cup {c} /\ othersHalf' = othersHalf \cup {c}
    /\ UNCHANGED <<transcript, event, rows, others, pass, history>>

OtherSetsRef(c) ==
    /\ c \in othersHalf
    /\ others' = others \cup {c} /\ othersHalf' = othersHalf \ {c}
    /\ UNCHANGED <<transcript, event, rows, stored, pass, history>>

OtherFails(c) ==
    /\ c \in othersHalf /\ othersHalf' = othersHalf \ {c}
    /\ UNCHANGED <<transcript, event, rows, others, stored, pass, history>>
-----------------------------------------------------------------------------
(* Maintenance *)

\* pruneOldRows, its first statement.
Prune ==
    /\ \E old \in SUBSET rows, gone \in SUBSET others :
         /\ old # {} \/ gone # {}
         /\ rows' = rows \ old /\ others' = others \ gone
         /\ plain' = (plain /\ old = {}) /\ stale' = (stale \/ old # {})
         /\ clean' = (clean /\ old = {})
         /\ deduped' = IF old = {} THEN deduped ELSE 0
    /\ UNCHANGED <<transcript, event, stored, pass, othersHalf, raced>>

\* Mutant: only the rows of the session are looked at.
ReferencedHere == {r.hash : r \in {q \in rows : q.ref}}

Referenced == {r.hash : r \in {q \in rows : q.ref}} \cup others

Orphans == stored \ Referenced
Between == othersHalf \cup {r.hash : r \in {q \in todo : half /\ q = Current}}

\* pruneOldRows, its last statement.
DeleteOrphans ==
    /\ stored' = stored \ Orphans
    /\ raced' = (raced \/ Orphans \cap Between # {})
    /\ UNCHANGED <<transcript, event, rows, pass, elsewhere,
                   plain, stale, clean, deduped>>

\* reconcileDedupMirror.
Reconcile ==
    /\ stored' = stored \ Orphans
    /\ rows' = {[r EXCEPT !.ref = @ \/ r.hash \in stored \ Orphans] : r \in rows}
    /\ others' \in {others \cup filled :
                     filled \in SUBSET ((stored \ Orphans) \cap Shared)}
    /\ raced' = (raced \/ Orphans \cap Between # {})
    /\ UNCHANGED <<transcript, event, pass, othersHalf,
                   plain, stale, clean, deduped>>
-----------------------------------------------------------------------------
Next ==
    \/ \E m \in Contents \cup {Empty} : Say(m)
    \/ \E k \in DOMAIN transcript : Rewind(k)
    \/ ContextEvent \/ AppendNext \/ EventFails \/ WriteMark
    \/ StartDedup \/ Upsert \/ SetRef \/ DedupFails
    \/ \E c \in Shared :
         OtherUpserts(c) \/ OtherSetsRef(c) \/ OtherFails(c)
    \/ Prune \/ DeleteOrphans \/ Reconcile

Spec == Init /\ [][Next]_vars
-----------------------------------------------------------------------------
(* Properties *)

TypeOK ==
    /\ transcript \in Seq(Contents \cup {Empty}) /\ Len(transcript) <= MaxLen
    /\ mark \in Mark /\ next \in 0..Len(transcript) + 1 /\ full \in BOOLEAN
    /\ rows \subseteq Row /\ others \subseteq Shared
    /\ stored \subseteq Contents /\ othersHalf \subseteq Shared
    /\ todo \subseteq Listed /\ (half => todo # {})
    /\ cut <= MaxLen /\ deduped <= MaxLen

\* The rows one pass over the whole of t would leave in an empty mirror.
FullPass(t) ==
    LET first == {i \in DOMAIN t : t[i] # Empty /\ \A j \in 1..(i - 1) : t[j] # t[i]}
    IN {[seq |-> Cardinality({j \in first : j <= i}), hash |-> t[i]] : i \in first}

\* After an event in which everything succeeded, whatever failed before, each
\* message has a row, unless the mark still stands over rows or messages that
\* are gone; and a transcript that only grew is mirrored as one full pass
\* would have done it, in its order (mirror-append.ts:31-86).
SameAsFullPass ==
    next = 0 /\ clean =>
        /\ ~stale => \A i \in DOMAIN transcript :
             transcript[i] # Empty => \E r \in rows : r.hash = transcript[i]
        /\ plain => {[seq |-> r.seq, hash |-> r.hash] : r \in rows} = FullPass(transcript)

\* A dedup pass takes the index of a message for the number of a row.  Where
\* rows are numbered as the messages came, it still covers every message in
\* front of the index, and none of them loses its shared bytes to retention or
\* reconciliation (afterCompact.ts:276-285, dedup.ts:29-53).
CompactedIsDeduped ==
    ~raced /\ plain =>
        \A i \in 1..deduped : transcript[i] # Empty =>
            \E r \in rows : r.hash = transcript[i] /\ r.ref /\ r.hash \in stored

\* No content_ref dangles, whatever sessions are deduplicated, pruned and
\* reconciled at once, unless the hash was removed between the two statements
\* that store it and refer to it (maintenance.ts:155-160, 258-280).
RefsResolve ==
    ~raced => others \subseteq stored /\ \A r \in rows : r.ref => r.hash \in stored
=============================================================================
