---------------------------- MODULE Mirror_proofs ----------------------------
(***************************************************************************)
(* Proofs about Mirror, for transcripts of any length and any contents.    *)
(*                                                                         *)
(* A content_ref is set by the second of two statements, and what it will  *)
(* refer to must survive until then.  The invariant therefore speaks of    *)
(* the hashes between two statements as well, and of the rows a pass has   *)
(* listed, which must still be the rows it will change.  A second one      *)
(* relates the numbers of the rows to the indices of the messages, as long *)
(* as the transcript has only grown: the rows are those of one full pass   *)
(* over its first k messages.  A third one follows a mark that is not      *)
(* stale, whatever was dropped or pruned elsewhere: every message up to it *)
(* has a row.                                                              *)
(***************************************************************************)
EXTENDS Mirror, TLAPS, FiniteSetTheorems, WellFoundedInduction

\* A row listed by a pass is still the row of that number, if there is one.
ListedIsRow ==
    /\ \A r, s \in rows : r.seq = s.seq => r.hash = s.hash
    /\ \A q \in todo, r \in rows : r.seq = q.seq => r.hash = q.hash

\* Events and passes take turns, and a statement is the second of a pass.
TakeTurns ==
    /\ next # 0 => todo = {}
    /\ next \in 0..(Len(transcript) + 1)
    /\ half => todo # {}

\* What the second statements will refer to is stored.
HalfIsStored ==
    ~raced => /\ othersHalf \subseteq stored
              /\ half => Current.hash \in stored

Types ==
    /\ TypeOK
    /\ cut \in Nat /\ deduped \in Nat
    /\ half \in BOOLEAN
    /\ \A r \in rows : r.seq <= MaxSeq

IInv == Types /\ TakeTurns /\ ListedIsRow /\ HalfIsStored /\ RefsResolve

USE MirrorAssumption
-----------------------------------------------------------------------------
\* A nonempty set of natural numbers has a least element.
LEMMA LeastNat ==
    ASSUME NEW S \in SUBSET Nat, S # {}
    PROVE  \E t \in S : \A y \in S : t <= y
<1> DEFINE R == OpToRel(<, Nat)
<1>1. PICK t \in S : \A y \in S : <<y, t>> \notin R
    <2>1. IsWellFoundedOn(R, Nat)
        BY NatLessThanWellFounded
    <2> HIDE DEF R
    <2> QED
        BY <2>1, WFMin
<1>2. \A y \in S : t <= y
    <2> SUFFICES ASSUME NEW y \in S, y < t PROVE FALSE
        OBVIOUS
    <2>1. <<y, t>> \in R
        BY DEF OpToRel
    <2> QED
        BY <1>1, <2>1
<1> QED
    BY <1>2

\* A pass that is not over has a row it works on.
LEMMA CurrentIsListed ==
    ASSUME NEW T \in SUBSET Listed, T # {}
    PROVE  LET c == CHOOSE r \in T : \A q \in T : r.seq <= q.seq
           IN  c \in T /\ \A q \in T : c.seq <= q.seq
<1> DEFINE S == {q.seq : q \in T}
<1>1. S \in SUBSET Nat /\ S # {}
    BY DEF Listed
<1>2. PICK t \in S : \A y \in S : t <= y
    <2> HIDE DEF S
    <2> QED BY <1>1, LeastNat
<1>3. PICK r \in T : r.seq = t
    OBVIOUS
<1>4. \A q \in T : r.seq <= q.seq
    BY <1>2, <1>3
<1> QED
    BY <1>4

\* Among zero and the numbers of the rows there is a greatest one.
LEMMA LastIsGreatest ==
    ASSUME Types
    PROVE  \E n \in {0} \cup {r.seq : r \in rows} : \A r \in rows : r.seq <= n
<1> DEFINE S == {0} \cup {r.seq : r \in rows}
           T == {MaxSeq - n : n \in S}
<1>1. \A r \in rows : r.seq \in Nat /\ r.seq <= MaxSeq
    BY DEF Types, TypeOK, Row
<1>2. T \in SUBSET Nat /\ T # {}
    BY <1>1
<1>3. PICK t \in T : \A y \in T : t <= y
    <2> HIDE DEF T
    <2> QED BY <1>2, LeastNat
<1>4. PICK m \in S : t = MaxSeq - m
    OBVIOUS
<1>5. m \in Nat
    BY <1>1
<1>6. ASSUME NEW r \in rows PROVE r.seq <= m
    <2>1. MaxSeq - r.seq \in T
        OBVIOUS
    <2> HIDE DEF T, S
    <2> QED BY <1>1, <1>3, <1>4, <1>5, <2>1
<1> QED
    BY <1>6

\* The number of a new row is one above the greatest.
LEMMA NextSeqIsNew ==
    ASSUME Types
    PROVE  /\ NextSeq \in Nat \ {0} /\ \A r \in rows : r.seq < NextSeq
           /\ NextSeq - 1 \in {0} \cup {r.seq : r \in rows}
<1> DEFINE S == {0} \cup {r.seq : r \in rows}
           c == CHOOSE n \in S : \A r \in rows : r.seq <= n
<1>1. \E n \in S : \A r \in rows : r.seq <= n
    BY LastIsGreatest
<1>2. c \in S /\ \A r \in rows : r.seq <= c
    <2> HIDE DEF S
    <2> QED BY <1>1
<1>3. \A r \in rows : r.seq \in Nat
    BY DEF Types, TypeOK, Row
<1>4. NextSeq = 1 + c
    BY DEF NextSeq
<1> HIDE DEF c
<1>5. c \in Nat
    BY <1>2, <1>3
<1> QED
    BY <1>2, <1>3, <1>4, <1>5
-----------------------------------------------------------------------------
\* Initially there is nothing.
LEMMA InitInv == Init => IInv
<1> SUFFICES ASSUME Init PROVE IInv
    OBVIOUS
<1>1. NoMark \in Mark
    BY DEF NoMark, Mark
<1>2. Types
    <2>1. transcript \in Seq(Contents \cup {Empty}) /\ Len(transcript) = 0
        BY DEF Init
    <2>2. mark \in Mark /\ next = 0 /\ full \in BOOLEAN
        BY <1>1 DEF Init
    <2>3. half \in BOOLEAN /\ ~half
        BY DEF Init
    <2>4. rows = {} /\ others = {} /\ stored = {} /\ othersHalf = {} /\ todo = {}
        BY DEF Init
    <2>5. cut = 0 /\ deduped = 0
        BY DEF Init
    <2> QED
        BY <2>1, <2>2, <2>3, <2>4, <2>5 DEF Types, TypeOK
<1>3. TakeTurns /\ ListedIsRow /\ HalfIsStored /\ RefsResolve
    BY DEF Init, TakeTurns, ListedIsRow, HalfIsStored, RefsResolve
<1> QED
    BY <1>2, <1>3 DEF IInv

\* What happens to the transcript leaves the rows and the hashes alone.
LEMMA TranscriptStep ==
    ASSUME IInv,
           \/ \E m \in Contents \cup {Empty} : Say(m)
           \/ \E k \in DOMAIN transcript : Rewind(k)
    PROVE  IInv'
<1>1. /\ next' = 0
      /\ UNCHANGED <<mark, full, rows, stored, pass, elsewhere, raced>>
    BY DEF Say, Rewind, event
<1>2. transcript' \in Seq(Contents \cup {Empty}) /\ Len(transcript') \in 0..MaxLen
    <2>1. CASE \E m \in Contents \cup {Empty} : Say(m)
        BY <2>1 DEF Say, IInv, Types, TypeOK
    <2>2. CASE \E k \in DOMAIN transcript : Rewind(k)
        <3>1. PICK k \in 1..Len(transcript) : transcript' = SubSeq(transcript, 1, k - 1)
            BY <2>2 DEF Rewind, IInv, Types, TypeOK
        <3> QED
            BY <3>1 DEF IInv, Types, TypeOK
    <2> QED
        BY <2>1, <2>2
<1>3. deduped' \in {deduped, 0}
    BY DEF Say, Rewind
<1>4. Types'
    BY <1>1, <1>2, <1>3 DEF IInv, Types, TypeOK, pass, elsewhere
<1>5. TakeTurns'
    BY <1>1, <1>2 DEF IInv, TakeTurns, pass
<1>6. ListedIsRow' /\ HalfIsStored' /\ RefsResolve'
    BY <1>1 DEF IInv, ListedIsRow, HalfIsStored, RefsResolve, Current, pass, elsewhere
<1> QED
    BY <1>4, <1>5, <1>6 DEF IInv

\* An event starts, fails or writes its mark: no row changes.
LEMMA EventStep ==
    ASSUME IInv, ContextEvent \/ EventFails \/ WriteMark
    PROVE  IInv'
<1>1. /\ todo = {}
      /\ UNCHANGED <<transcript, rows, stored, pass, elsewhere, deduped, raced>>
    BY DEF ContextEvent, EventFails, WriteMark, IInv, TakeTurns, Types, TypeOK
<1>2. /\ next' \in 0..(Len(transcript) + 1) /\ full' \in BOOLEAN /\ mark' \in Mark
    <2>0. Len(transcript) \in Nat /\ mark \in Mark
        BY DEF IInv, Types, TypeOK
    <2>1. CASE ContextEvent
        <3>1. NoMark \in Mark
            BY DEF NoMark, Mark
        <3>2. PICK m \in {mark, NoMark} :
                /\ next' = IF Fits(m) THEN m.seq + 1 ELSE 1
                /\ full' = ~Fits(m) /\ mark' \in {mark, NoMark}
            BY <2>1 DEF ContextEvent
        <3>3. m \in Mark /\ mark' \in Mark
            BY <3>1, <3>2 DEF IInv, Types, TypeOK
        <3>4. Fits(m) => m.seq < Len(transcript) /\ m.seq \in Nat
            BY <3>3 DEF Fits, Mark
        <3> QED
            BY <2>0, <3>2, <3>3, <3>4
    <2>2. CASE EventFails
        <3>1. next' = 0 /\ mark' = mark
            BY <2>2 DEF EventFails
        <3>2. full' \in BOOLEAN
            BY <2>2 DEF EventFails
        <3> QED
            BY <2>0, <3>1, <3>2
    <2>3. CASE WriteMark
        <3>1. LastMessage \in Mark
            BY <2>3 DEF WriteMark, LastMessage, Mark, IInv, Types, TypeOK
        <3>2. next' = 0 /\ mark' \in {mark, LastMessage}
            BY <2>3 DEF WriteMark
        <3>3. full' \in BOOLEAN
            BY <2>3 DEF WriteMark
        <3> QED
            BY <2>0, <3>1, <3>2, <3>3
    <2> QED
        BY <2>1, <2>2, <2>3
<1>3. Types'
    BY <1>1, <1>2 DEF IInv, Types, TypeOK, pass, elsewhere
<1>4. TakeTurns'
    BY <1>1, <1>2 DEF IInv, TakeTurns, pass
<1>5. ListedIsRow' /\ HalfIsStored' /\ RefsResolve'
    BY <1>1 DEF IInv, ListedIsRow, HalfIsStored, RefsResolve, Current, pass, elsewhere
<1> QED
    BY <1>3, <1>4, <1>5 DEF IInv

\* A new row has a number and a hash of its own, and refers to nothing.
LEMMA AppendStep ==
    ASSUME IInv, AppendNext
    PROVE  IInv'
<1>1. /\ next \in 1..Len(transcript) /\ next' = next + 1
      /\ rows' = Appended(transcript[next])
      /\ \A r \in rows' : r.seq <= MaxSeq
      /\ UNCHANGED <<transcript, mark, full, stored, pass, elsewhere, deduped, raced>>
    BY DEF AppendNext, history
<1>2. todo = {} /\ transcript[next] \in Contents \cup {Empty}
    BY <1>1 DEF IInv, TakeTurns, Types, TypeOK
<1>3. CASE rows' = rows
    <2>1. Types'
        BY <1>1, <1>3 DEF IInv, Types, TypeOK, pass, elsewhere
    <2>2. TakeTurns'
        BY <1>1, <1>2 DEF IInv, TakeTurns, Types, TypeOK, pass
    <2>3. ListedIsRow' /\ HalfIsStored' /\ RefsResolve'
        BY <1>1, <1>3
           DEF IInv, ListedIsRow, HalfIsStored, RefsResolve, Current, pass, elsewhere
    <2> QED
        BY <2>1, <2>2, <2>3 DEF IInv
<1>4. CASE /\ transcript[next] # Empty
           /\ rows' = rows \cup {[seq |-> NextSeq, hash |-> transcript[next], ref |-> FALSE]}
    <2>1. NextSeq \in Nat \ {0} /\ \A r \in rows : r.seq < NextSeq /\ r.seq \in Nat
        BY NextSeqIsNew DEF IInv, Types, TypeOK, Row
    <2>2. rows' \subseteq Row
        <3>1. [seq |-> NextSeq, hash |-> transcript[next], ref |-> FALSE] \in Row
            BY <1>2, <1>4, <2>1 DEF Row
        <3> QED
            BY <1>4, <3>1 DEF IInv, Types, TypeOK
    <2>3. Types'
        BY <1>1, <2>2 DEF IInv, Types, TypeOK, pass, elsewhere
    <2>4. TakeTurns'
        BY <1>1, <1>2 DEF IInv, TakeTurns, Types, TypeOK, pass
    <2>5. ListedIsRow'
        BY <1>1, <1>2, <1>4, <2>1 DEF IInv, ListedIsRow, pass
    <2>6. HalfIsStored' /\ RefsResolve'
        BY <1>1, <1>4 DEF IInv, HalfIsStored, RefsResolve, Current, pass, elsewhere
    <2> QED
        BY <2>3, <2>4, <2>5, <2>6 DEF IInv
<1> QED
    BY <1>1, <1>3, <1>4 DEF Appended

\* A pass lists rows that exist and refers to nothing yet.
LEMMA StartStep ==
    ASSUME IInv, StartDedup
    PROVE  IInv'
<1>1. /\ next = 0 /\ todo = {} /\ half \in BOOLEAN /\ ~half
      /\ UNCHANGED <<transcript, event, rows, stored, half, elsewhere, deduped, raced>>
    BY DEF StartDedup, history, IInv, Types, TakeTurns
<1>2. PICK n \in 1..Len(transcript) :
        todo' = ListRange(n) /\ cut' = IF clean THEN n ELSE 0
    BY DEF StartDedup, IInv, Types, TypeOK
<1>3. \A q \in todo' : \E r \in rows : q = [seq |-> r.seq, hash |-> r.hash]
    BY <1>2 DEF ListRange
<1>4. todo' \subseteq Listed
    BY <1>3 DEF Listed, Row, IInv, Types, TypeOK
<1>5. Types'
    BY <1>1, <1>2, <1>4 DEF IInv, Types, TypeOK, event, elsewhere
<1>6. TakeTurns'
    BY <1>1 DEF IInv, TakeTurns, event
<1>7. ListedIsRow'
    BY <1>1, <1>3 DEF IInv, ListedIsRow
<1>8. HalfIsStored' /\ RefsResolve'
    BY <1>1 DEF IInv, HalfIsStored, RefsResolve, elsewhere
<1> QED
    BY <1>5, <1>6, <1>7, <1>8 DEF IInv

\* The first statement stores what the second will refer to.
LEMMA UpsertStep ==
    ASSUME IInv, Upsert
    PROVE  IInv'
<1>1. /\ todo # {} /\ half' = TRUE /\ stored' = stored \cup {Current.hash}
      /\ UNCHANGED <<transcript, event, rows, todo, cut, elsewhere, deduped, raced>>
    BY DEF Upsert, history
<1>2. Current \in todo /\ Current' = Current
    BY <1>1, CurrentIsListed DEF Current, IInv, Types, TypeOK
<1>3. Current.hash \in Contents
    BY <1>2 DEF Listed, IInv, Types, TypeOK
<1>4. Types'
    BY <1>1, <1>3 DEF IInv, Types, TypeOK, event, elsewhere
<1>5. TakeTurns' /\ ListedIsRow'
    BY <1>1 DEF IInv, TakeTurns, ListedIsRow, event
<1>6. HalfIsStored' /\ RefsResolve'
    BY <1>1, <1>2 DEF IInv, HalfIsStored, RefsResolve, elsewhere
<1> QED
    BY <1>4, <1>5, <1>6 DEF IInv

\* The second refers to it: the row of the listed number has the listed hash.
LEMMA SetRefStep ==
    ASSUME IInv, SetRef
    PROVE  IInv'
<1>1. /\ half
      /\ rows' = {[r EXCEPT !.ref = @ \/ r.seq = Current.seq] : r \in rows}
      /\ todo' = todo \ {Current} /\ half' \in BOOLEAN /\ ~half'
      /\ cut' \in {0, cut} /\ deduped' \in {cut, deduped}
      /\ UNCHANGED <<transcript, event, stored, elsewhere, raced>>
    BY DEF SetRef
<1>2. todo \subseteq Listed /\ todo # {} /\ rows \subseteq Row
    BY <1>1 DEF IInv, Types, TypeOK
<1>3. Current \in todo
    BY <1>2, CurrentIsListed DEF Current
<1>4. \A s \in rows' : \E r \in rows :
        /\ s.seq = r.seq /\ s.hash = r.hash /\ s \in Row
        /\ s.ref => r.ref \/ r.seq = Current.seq
    <2> SUFFICES ASSUME NEW s \in rows'
                 PROVE  \E r \in rows :
                          /\ s.seq = r.seq /\ s.hash = r.hash /\ s \in Row
                          /\ s.ref => r.ref \/ r.seq = Current.seq
        OBVIOUS
    <2>1. PICK r \in rows : s = [r EXCEPT !.ref = r.ref \/ r.seq = Current.seq]
        BY <1>1
    <2>2. r \in Row
        BY <1>2
    <2> DEFINE b == r.ref \/ r.seq = Current.seq
    <2>3. b \in BOOLEAN /\ (b => r.ref \/ r.seq = Current.seq)
        OBVIOUS
    <2>4. s = [r EXCEPT !.ref = b]
        BY <2>1
    <2> HIDE DEF b
    <2>5. s \in Row /\ s.seq = r.seq /\ s.hash = r.hash /\ s.ref = b
        BY <2>2, <2>3, <2>4 DEF Row
    <2> QED
        BY <2>3, <2>5
<1>5. rows' \subseteq Row /\ \A r \in rows' : r.seq <= MaxSeq
    BY <1>4 DEF IInv, Types
<1>6. Types'
    BY <1>1, <1>5 DEF IInv, Types, TypeOK, event, elsewhere
<1>7. TakeTurns'
    BY <1>1 DEF IInv, TakeTurns, event
<1>8. ListedIsRow'
    BY <1>1, <1>4 DEF IInv, ListedIsRow
<1>9. HalfIsStored'
    BY <1>1 DEF IInv, HalfIsStored, elsewhere
<1>10. RefsResolve'
    <2> SUFFICES ASSUME ~raced'
                 PROVE  others' \subseteq stored' /\ \A s \in rows' : s.ref => s.hash \in stored'
        BY DEF RefsResolve
    <2>1. others' \subseteq stored' /\ Current.hash \in stored
        BY <1>1 DEF IInv, RefsResolve, HalfIsStored, elsewhere
    <2>2. ASSUME NEW s \in rows', s.ref PROVE s.hash \in stored'
        <3>1. PICK r \in rows : s.hash = r.hash /\ (r.ref \/ r.seq = Current.seq)
            BY <1>4, <2>2
        <3>2. CASE r.ref
            BY <1>1, <3>1, <3>2 DEF IInv, RefsResolve
        <3>3. CASE r.seq = Current.seq
            BY <1>1, <1>3, <2>1, <3>1, <3>3 DEF IInv, ListedIsRow
        <3> QED
            BY <3>1, <3>2, <3>3
    <2> QED
        BY <2>1, <2>2
<1> QED
    BY <1>6, <1>7, <1>8, <1>9, <1>10 DEF IInv

\* A pass that fails leaves at worst a hash nothing refers to.
LEMMA DedupFailsStep ==
    ASSUME IInv, DedupFails
    PROVE  IInv'
<1>1. /\ todo' = {} /\ half' \in BOOLEAN /\ ~half' /\ cut' = 0
      /\ UNCHANGED <<transcript, event, rows, stored, elsewhere, deduped, raced>>
    BY DEF DedupFails, history
<1>2. Types'
    BY <1>1 DEF IInv, Types, TypeOK, event, elsewhere
<1>3. TakeTurns' /\ ListedIsRow'
    BY <1>1 DEF IInv, TakeTurns, ListedIsRow, event
<1>4. HalfIsStored' /\ RefsResolve'
    BY <1>1 DEF IInv, HalfIsStored, RefsResolve, elsewhere
<1> QED
    BY <1>2, <1>3, <1>4 DEF IInv

\* Other sessions store before they refer, too.
LEMMA OtherStep ==
    ASSUME IInv, NEW c \in Shared, OtherUpserts(c) \/ OtherSetsRef(c) \/ OtherFails(c)
    PROVE  IInv'
<1>1. UNCHANGED <<transcript, event, rows, pass, deduped, raced>>
    BY DEF OtherUpserts, OtherSetsRef, OtherFails, history
<1>2. /\ stored \subseteq stored' /\ stored' \subseteq stored \cup {c}
      /\ othersHalf' \subseteq othersHalf \cup (stored' \cap {c})
      /\ others' \subseteq others \cup othersHalf
    BY DEF OtherUpserts, OtherSetsRef, OtherFails
<1>3. Types'
    BY <1>1, <1>2 DEF IInv, Types, TypeOK, event, pass
<1>4. TakeTurns' /\ ListedIsRow'
    BY <1>1 DEF IInv, TakeTurns, ListedIsRow, event, pass
<1>5. HalfIsStored' /\ RefsResolve'
    BY <1>1, <1>2 DEF IInv, HalfIsStored, RefsResolve, Current, pass
<1> QED
    BY <1>3, <1>4, <1>5 DEF IInv

\* Retention takes rows away, and with them what they refer to.
LEMMA PruneStep ==
    ASSUME IInv, Prune
    PROVE  IInv'
<1>1. /\ rows' \subseteq rows /\ others' \subseteq others /\ deduped' \in {deduped, 0}
      /\ UNCHANGED <<transcript, event, stored, pass, othersHalf, raced>>
    BY DEF Prune
<1>2. Types'
    BY <1>1 DEF IInv, Types, TypeOK, event, pass
<1>3. TakeTurns' /\ ListedIsRow'
    BY <1>1 DEF IInv, TakeTurns, ListedIsRow, event, pass
<1>4. HalfIsStored' /\ RefsResolve'
    BY <1>1 DEF IInv, HalfIsStored, RefsResolve, Current, pass
<1> QED
    BY <1>2, <1>3, <1>4 DEF IInv

\* Without a race, no orphan is what a second statement will refer to.
LEMMA HalvesSurvive ==
    ASSUME HalfIsStored, Types, raced' = (raced \/ Orphans \cap Between # {}), ~raced'
    PROVE  /\ othersHalf \subseteq stored \ Orphans
           /\ half => Current.hash \in stored \ Orphans
<1>1. ~raced /\ Orphans \cap Between = {}
    OBVIOUS
<1>2. othersHalf \subseteq Between
    BY DEF Between
<1>3. half => Current \in todo
    BY CurrentIsListed DEF Current, Types, TypeOK
<1>4. half => Current.hash \in Between
    BY <1>3 DEF Between
<1> QED
    BY <1>1, <1>2, <1>4 DEF HalfIsStored

\* Neither the last statement of retention nor reconciliation removes a hash
\* some row refers to.
LEMMA SweepStep ==
    ASSUME IInv, DeleteOrphans \/ Reconcile
    PROVE  IInv'
<1>1. /\ stored' = stored \ Orphans
      /\ raced' = (raced \/ Orphans \cap Between # {})
      /\ UNCHANGED <<transcript, event, pass, othersHalf, deduped>>
    BY DEF DeleteOrphans, Reconcile, elsewhere
<1>2. others' \subseteq others \cup (stored' \cap Shared)
    BY <1>1 DEF DeleteOrphans, Reconcile, elsewhere
<1>3. \A s \in rows' : \E r \in rows :
        /\ s.seq = r.seq /\ s.hash = r.hash /\ s \in Row
        /\ s.ref => r.ref \/ r.hash \in stored'
    <2>0. rows \subseteq Row
        BY DEF IInv, Types, TypeOK
    <2>1. CASE DeleteOrphans
        BY <2>0, <2>1 DEF DeleteOrphans
    <2>2. CASE Reconcile
        <3> SUFFICES ASSUME NEW s \in rows'
                     PROVE  \E r \in rows :
                              /\ s.seq = r.seq /\ s.hash = r.hash /\ s \in Row
                              /\ s.ref => r.ref \/ r.hash \in stored'
            OBVIOUS
        <3>1. PICK r \in rows : s = [r EXCEPT !.ref = r.ref \/ r.hash \in stored \ Orphans]
            BY <2>2 DEF Reconcile
        <3> DEFINE b == r.ref \/ r.hash \in stored \ Orphans
        <3>2. b \in BOOLEAN /\ (b => r.ref \/ r.hash \in stored')
            BY <1>1
        <3>3. s = [r EXCEPT !.ref = b]
            BY <3>1
        <3> HIDE DEF b
        <3>4. s \in Row /\ s.seq = r.seq /\ s.hash = r.hash /\ s.ref = b
            BY <2>0, <3>2, <3>3 DEF Row
        <3> QED
            BY <3>2, <3>4
    <2> QED
        BY <2>1, <2>2
<1>4. rows' \subseteq Row /\ \A r \in rows' : r.seq <= MaxSeq
    BY <1>3 DEF IInv, Types
<1>5. Types'
    BY <1>1, <1>2, <1>4 DEF IInv, Types, TypeOK, event, pass
<1>6. TakeTurns'
    BY <1>1 DEF IInv, TakeTurns, event, pass
<1>7. ListedIsRow'
    BY <1>1, <1>3 DEF IInv, ListedIsRow, pass
<1>8. HalfIsStored'
    <2>1. ~raced' => othersHalf \subseteq stored' /\ (half => Current.hash \in stored')
        BY <1>1, HalvesSurvive DEF IInv
    <2> QED
        BY <1>1, <2>1 DEF HalfIsStored, Current, pass
<1>9. RefsResolve'
    <2> SUFFICES ASSUME ~raced'
                 PROVE  others' \subseteq stored' /\ \A s \in rows' : s.ref => s.hash \in stored'
        BY DEF RefsResolve
    <2>1. others \subseteq stored' /\ \A r \in rows : r.ref => r.hash \in stored'
        BY <1>1 DEF IInv, RefsResolve, Orphans, Referenced
    <2> QED
        BY <1>2, <1>3, <2>1
<1> QED
    BY <1>5, <1>6, <1>7, <1>8, <1>9 DEF IInv

\* Every step keeps the invariant.
LEMMA StepInv == IInv /\ [Next]_vars => IInv'
<1> SUFFICES ASSUME IInv, [Next]_vars PROVE IInv'
    OBVIOUS
<1>1. CASE \/ \E m \in Contents \cup {Empty} : Say(m)
           \/ \E k \in DOMAIN transcript : Rewind(k)
    BY <1>1, TranscriptStep
<1>2. CASE ContextEvent \/ EventFails \/ WriteMark
    BY <1>2, EventStep
<1>3. CASE AppendNext
    BY <1>3, AppendStep
<1>4. CASE StartDedup
    BY <1>4, StartStep
<1>5. CASE Upsert
    BY <1>5, UpsertStep
<1>6. CASE SetRef
    BY <1>6, SetRefStep
<1>7. CASE DedupFails
    BY <1>7, DedupFailsStep
<1>8. CASE \E c \in Shared : OtherUpserts(c) \/ OtherSetsRef(c) \/ OtherFails(c)
    BY <1>8, OtherStep
<1>9. CASE Prune
    BY <1>9, PruneStep
<1>10. CASE DeleteOrphans \/ Reconcile
    BY <1>10, SweepStep
<1>11. CASE UNCHANGED vars
    <2>1. /\ UNCHANGED <<transcript, mark, next, full, rows, others, stored, todo, half>>
          /\ UNCHANGED <<othersHalf, cut, deduped, raced>>
        BY <1>11 DEF vars, event, pass, elsewhere, history
    <2> QED
        BY <2>1 DEF IInv, Types, TypeOK, TakeTurns, ListedIsRow, HalfIsStored,
                    RefsResolve, Current
<1> QED
    BY <1>1, <1>2, <1>3, <1>4, <1>5, <1>6, <1>7, <1>8, <1>9, <1>10, <1>11 DEF Next
-----------------------------------------------------------------------------
\* Where the k messages say something for the first time, and the rows one full
\* pass over them would leave.
FirstOf(t, k) == {i \in 1..k : t[i] # Empty /\ \A j \in 1..(i - 1) : t[j] # t[i]}

Numbered(t, k) ==
    {[seq |-> Cardinality(FirstOf(t, i)), hash |-> t[i]] : i \in FirstOf(t, k)}

Listing == {[seq |-> r.seq, hash |-> r.hash] : r \in rows}

\* The rows are just those, and the greatest number is how many there are.
Numbers(k) ==
    /\ Listing = Numbered(transcript, k)
    /\ \A r \in rows : r.seq <= Cardinality(FirstOf(transcript, k))
    /\ FirstOf(transcript, k) # {} =>
         \E r \in rows : r.seq = Cardinality(FirstOf(transcript, k))

\* As long as the transcript has only grown and no row was pruned, the rows
\* are those of its first k messages, and no row has a number above the
\* index of a message it stands for.
Covers(k) ==
    /\ Numbers(k)
    /\ \A r \in rows : r.seq <= k
    /\ \A r \in rows, i \in DOMAIN transcript : transcript[i] = r.hash => r.seq <= i
    /\ \A i \in 1..k : transcript[i] # Empty => \E r \in rows : r.hash = transcript[i]

\* The mark and the event in progress lie within the k messages.
Grown ==
    plain => \E k \in 0..Len(transcript) :
        /\ Covers(k) /\ mark.seq <= k /\ next <= k + 1
        /\ next = 0 /\ clean => k = Len(transcript)

\* A pass has set, or has still listed, the row of each message it covers.
Handled(r) == r.ref \/ [seq |-> r.seq, hash |-> r.hash] \in todo

PassCovers ==
    plain /\ todo # {} =>
        /\ cut <= Len(transcript)
        /\ \A i \in 1..cut : transcript[i] # Empty =>
             \E r \in rows : r.hash = transcript[i] /\ Handled(r)

DedupedRefer ==
    plain =>
        /\ deduped <= Len(transcript)
        /\ \A i \in 1..deduped : transcript[i] # Empty =>
             \E r \in rows : r.hash = transcript[i] /\ r.ref

GrowInv == Grown /\ PassCovers /\ DedupedRefer

\* There are finitely many first messages, one more where a message is new.
LEMMA FirstOfFinite ==
    ASSUME NEW t, NEW k \in Nat
    PROVE  IsFiniteSet(FirstOf(t, k)) /\ Cardinality(FirstOf(t, k)) \in Nat
<1>1. IsFiniteSet(1..k)
    BY FS_Interval
<1>2. FirstOf(t, k) \subseteq 1..k
    BY DEF FirstOf
<1>3. IsFiniteSet(FirstOf(t, k))
    BY <1>1, <1>2, FS_Subset
<1> QED
    BY <1>3, FS_CardinalityType

LEMMA FirstOfNew ==
    ASSUME NEW t, NEW k \in Nat, t[k + 1] # Empty, \A j \in 1..k : t[j] # t[k + 1]
    PROVE  /\ FirstOf(t, k + 1) = FirstOf(t, k) \cup {k + 1}
           /\ Cardinality(FirstOf(t, k + 1)) = Cardinality(FirstOf(t, k)) + 1
<1>1. FirstOf(t, k + 1) = FirstOf(t, k) \cup {k + 1}
    <2>1. ASSUME NEW i \in FirstOf(t, k + 1) PROVE i \in FirstOf(t, k) \cup {k + 1}
        BY <2>1 DEF FirstOf
    <2>2. ASSUME NEW i \in FirstOf(t, k) PROVE i \in FirstOf(t, k + 1)
        BY <2>2 DEF FirstOf
    <2>3. k + 1 \in FirstOf(t, k + 1)
        <3>1. k + 1 \in 1..(k + 1) /\ 1..(k + 1 - 1) = 1..k
            OBVIOUS
        <3> QED
            BY <3>1 DEF FirstOf
    <2> QED
        BY <2>1, <2>2, <2>3
<1>2. k + 1 \notin FirstOf(t, k)
    BY DEF FirstOf
<1> QED
    BY <1>1, <1>2, FirstOfFinite, FS_AddElement

LEMMA FirstOfOld ==
    ASSUME NEW t, NEW k \in Nat,
           t[k + 1] = Empty \/ \E j \in 1..k : t[j] = t[k + 1]
    PROVE  FirstOf(t, k + 1) = FirstOf(t, k)
<1>1. ASSUME NEW i \in FirstOf(t, k + 1) PROVE i \in FirstOf(t, k)
    <2>1. i # k + 1
        BY <1>1 DEF FirstOf
    <2> QED
        BY <1>1, <2>1 DEF FirstOf
<1>2. ASSUME NEW i \in FirstOf(t, k) PROVE i \in FirstOf(t, k + 1)
    BY <1>2 DEF FirstOf
<1> QED
    BY <1>1, <1>2

\* They depend on the first k messages only.
LEMMA FirstOfPrefix ==
    ASSUME NEW t, NEW u, NEW k \in Nat, \A i \in 1..k : u[i] = t[i]
    PROVE  /\ \A i \in 0..k : FirstOf(u, i) = FirstOf(t, i)
           /\ Numbered(u, k) = Numbered(t, k)
<1>1. ASSUME NEW i \in 0..k PROVE FirstOf(u, i) = FirstOf(t, i)
    <2>1. \A h \in 1..i : u[h] = t[h] /\ \A j \in 1..(h - 1) : u[j] = t[j]
        BY <1>1
    <2> QED
        BY <2>1 DEF FirstOf
<1>2. Numbered(u, k) = Numbered(t, k)
    <2>1. \A i \in FirstOf(t, k) : FirstOf(u, i) = FirstOf(t, i) /\ u[i] = t[i]
        BY <1>1 DEF FirstOf
    <2>2. FirstOf(u, k) = FirstOf(t, k)
        BY <1>1
    <2> QED
        BY <2>1, <2>2 DEF Numbered
<1> QED
    BY <1>1, <1>2

\* FullPass is what Numbered says of the whole transcript.
LEMMA FullPassNumbers ==
    ASSUME NEW t, DOMAIN t = 1..Len(t), Len(t) \in Nat
    PROVE  FullPass(t) = Numbered(t, Len(t))
<1> DEFINE first == {i \in DOMAIN t : t[i] # Empty /\ \A j \in 1..(i - 1) : t[j] # t[i]}
<1>1. first = FirstOf(t, Len(t))
    BY DEF FirstOf
<1>2. ASSUME NEW i \in first PROVE {j \in first : j <= i} = FirstOf(t, i)
    <2>1. i \in 1..Len(t)
        OBVIOUS
    <2>2. ASSUME NEW j PROVE j \in first /\ j <= i <=> j \in FirstOf(t, i)
        BY <2>1 DEF FirstOf
    <2> QED
        BY <2>2
<1>3. FullPass(t) = {[seq |-> Cardinality({j \in first : j <= i}), hash |-> t[i]] : i \in first}
    BY DEF FullPass
<1> HIDE DEF first
<1>4. FullPass(t) = {[seq |-> Cardinality(FirstOf(t, i)), hash |-> t[i]] : i \in first}
    BY <1>2, <1>3
<1> QED
    BY <1>1, <1>4 DEF Numbered

\* What keeps the numbers and the hashes of the rows keeps Numbers.
LEMMA NumbersKept ==
    ASSUME NEW k, Numbers(k), UNCHANGED transcript,
           \A r \in rows : \E s \in rows' : s.seq = r.seq /\ s.hash = r.hash,
           \A s \in rows' : \E r \in rows : s.seq = r.seq /\ s.hash = r.hash
    PROVE  Numbers(k)'
<1>1. Listing' = Listing
    BY DEF Listing
<1>2. \A i : FirstOf(transcript', i) = FirstOf(transcript, i)
    OBVIOUS
<1>3. Numbered(transcript', k) = Numbered(transcript, k)
    OBVIOUS
<1> DEFINE c == Cardinality(FirstOf(transcript, k))
<1>4. c' = c
    OBVIOUS
<1>5. (\A s \in rows' : s.seq <= c) /\ (FirstOf(transcript, k) # {} => \E s \in rows' : s.seq = c)
    <2>1. (\A r \in rows : r.seq <= c) /\ (FirstOf(transcript, k) # {} => \E r \in rows : r.seq = c)
        BY DEF Numbers
    <2> HIDE DEF c
    <2> QED
        BY <2>1
<1> HIDE DEF c
<1> QED
    BY <1>1, <1>2, <1>3, <1>4, <1>5 DEF Numbers, c

\* What keeps the numbers and hashes of the rows, and their references, keeps
\* the invariant, if it leaves events and passes alone or ends the pass.
LEMMA RowsKept ==
    ASSUME GrowInv,
           UNCHANGED <<transcript, mark, next, deduped>>,
           plain' => plain, clean' => clean,
           \A r \in rows : \E s \in rows' :
               s.seq = r.seq /\ s.hash = r.hash /\ (r.ref => s.ref),
           \A s \in rows' : \E r \in rows : s.seq = r.seq /\ s.hash = r.hash,
           todo' = {} \/ (todo' = todo /\ cut' = cut)
    PROVE  GrowInv'
<1> SUFFICES ASSUME plain, plain' PROVE GrowInv'
    BY DEF GrowInv, Grown, PassCovers, DedupedRefer
<1>1. Grown'
    <2>1. PICK k \in 0..Len(transcript) :
            /\ Covers(k) /\ mark.seq <= k /\ next <= k + 1
            /\ next = 0 /\ clean => k = Len(transcript)
        BY DEF GrowInv, Grown
    <2>2. Covers(k)'
        <3>1. Numbers(k)'
            BY <2>1, NumbersKept DEF Covers
        <3> QED
            BY <2>1, <3>1 DEF Covers
    <2> QED
        BY <2>1, <2>2 DEF Grown
<1>2. PassCovers'
    <2> SUFFICES ASSUME todo' # {} PROVE PassCovers'
        BY DEF PassCovers
    <2>1. /\ cut <= Len(transcript)
          /\ \A i \in 1..cut : transcript[i] # Empty =>
               \E r \in rows : r.hash = transcript[i] /\ Handled(r)
        BY DEF GrowInv, PassCovers
    <2>2. ASSUME NEW i \in 1..cut, transcript[i] # Empty
          PROVE  \E s \in rows' : s.hash = transcript[i] /\ Handled(s)'
        <3>1. PICK r \in rows : r.hash = transcript[i] /\ Handled(r)
            BY <2>1, <2>2
        <3>2. PICK s \in rows' : s.seq = r.seq /\ s.hash = r.hash /\ (r.ref => s.ref)
            OBVIOUS
        <3>3. [seq |-> s.seq, hash |-> s.hash] = [seq |-> r.seq, hash |-> r.hash]
            BY <3>2
        <3>4. Handled(s)'
            BY <3>1, <3>2, <3>3 DEF Handled
        <3> QED
            BY <3>1, <3>2, <3>4
    <2> QED
        BY <2>1, <2>2 DEF PassCovers
<1>3. DedupedRefer'
    BY DEF GrowInv, DedupedRefer
<1> QED
    BY <1>1, <1>2, <1>3 DEF GrowInv

\* A message said lies behind all that have rows.
LEMMA SayGrows ==
    ASSUME IInv, GrowInv, NEW m \in Contents \cup {Empty}, Say(m)
    PROVE  GrowInv'
<1>1. /\ next = 0 /\ next' = 0 /\ todo' = {} /\ clean' = FALSE
      /\ transcript' = Append(transcript, m)
      /\ UNCHANGED <<mark, rows, deduped, plain>>
    BY DEF Say, event, pass
<1>2. /\ transcript \in Seq(Contents \cup {Empty}) /\ Len(transcript') = Len(transcript) + 1
      /\ DOMAIN transcript' = 1..Len(transcript) + 1
      /\ \A i \in 1..Len(transcript) : transcript'[i] = transcript[i]
    BY <1>1 DEF IInv, Types, TypeOK
<1>3. ASSUME plain PROVE Grown'
    <2>1. PICK k \in 0..Len(transcript) : Covers(k) /\ mark.seq <= k
        BY <1>3 DEF GrowInv, Grown
    <2>2. \A r \in rows : r.seq \in Nat
        BY DEF IInv, Types, TypeOK, Row
    <2>3. \A r \in rows, i \in 1..Len(transcript) + 1 : transcript'[i] = r.hash => r.seq <= i
        <3> SUFFICES ASSUME NEW r \in rows, NEW i \in 1..Len(transcript) + 1,
                            transcript'[i] = r.hash
                     PROVE  r.seq <= i
            OBVIOUS
        <3>1. CASE i <= k
            BY <1>2, <2>1, <3>1 DEF Covers
        <3>2. CASE i > k
            BY <2>1, <2>2, <3>2 DEF Covers
        <3> QED
            BY <3>1, <3>2
    <2>4. Numbers(k)'
        <3>1. k \in Nat /\ \A i \in 1..k : transcript'[i] = transcript[i]
            BY <1>2
        <3>2. /\ FirstOf(transcript', k) = FirstOf(transcript, k)
              /\ Numbered(transcript', k) = Numbered(transcript, k)
            <4>1. PICK u : u = transcript'
                OBVIOUS
            <4>2. \A i \in 1..k : u[i] = transcript[i]
                BY <3>1, <4>1
            <4>3. /\ \A i \in 0..k : FirstOf(u, i) = FirstOf(transcript, i)
                  /\ Numbered(u, k) = Numbered(transcript, k)
                BY <3>1, <4>2, FirstOfPrefix
            <4> QED
                BY <3>1, <4>1, <4>3
        <3> QED
            BY <1>1, <2>1, <3>2 DEF Covers, Numbers, Listing
    <2>5. Covers(k)'
        BY <1>1, <1>2, <2>1, <2>3, <2>4 DEF Covers
    <2>6. k \in 0..Len(transcript') /\ mark'.seq <= k /\ next' <= k + 1 /\ ~clean'
        BY <1>1, <1>2, <2>1
    <2> QED
        BY <2>5, <2>6 DEF Grown
<1>4. Grown'
    BY <1>1, <1>3 DEF Grown
<1>5. PassCovers'
    BY <1>1 DEF PassCovers
<1>6. DedupedRefer'
    BY <1>1, <1>2 DEF GrowInv, DedupedRefer, IInv, Types
<1> QED
    BY <1>4, <1>5, <1>6 DEF GrowInv

\* An event starts within the messages that have rows, and its mark is written
\* when all of them have.
LEMMA EventGrows ==
    ASSUME IInv, GrowInv, ContextEvent \/ EventFails \/ WriteMark
    PROVE  GrowInv'
<1>1. /\ todo' = {}
      /\ UNCHANGED <<transcript, rows, deduped, plain>>
    BY DEF ContextEvent, EventFails, WriteMark, IInv, TakeTurns, pass
<1>2. Len(transcript) \in Nat /\ mark \in Mark
    BY DEF IInv, Types, TypeOK
<1>3. ASSUME plain PROVE Grown'
    <2>1. PICK k \in 0..Len(transcript) :
            /\ Covers(k) /\ mark.seq <= k /\ next <= k + 1
            /\ next = 0 /\ clean => k = Len(transcript)
        BY <1>3 DEF GrowInv, Grown
    <2>2. Covers(k)'
        BY <1>1, <2>1 DEF Covers, Numbers, Listing
    <2>3. mark'.seq <= k /\ next' <= k + 1 /\ (next' = 0 /\ clean' => k = Len(transcript))
        <3>1. CASE ContextEvent
            <4>1. PICK m \in {mark, NoMark} :
                    /\ next' = IF Fits(m) THEN m.seq + 1 ELSE 1
                    /\ mark' \in {mark, NoMark}
                BY <3>1 DEF ContextEvent
            <4>2. m.seq \in 0..k /\ mark'.seq \in 0..k
                BY <1>2, <2>1, <4>1 DEF NoMark, Mark
            <4> QED
                BY <4>1, <4>2
        <3>2. CASE EventFails
            <4>1. next' = 0 /\ ~clean' /\ mark' = mark
                BY <3>2 DEF EventFails
            <4> QED
                BY <2>1, <4>1
        <3>3. CASE WriteMark
            <4>1. /\ next = Len(transcript) + 1 /\ next' = 0
                  /\ mark' \in {mark, LastMessage}
                BY <3>3 DEF WriteMark
            <4>2. k = Len(transcript)
                BY <1>2, <2>1, <4>1
            <4>3. mark'.seq <= k
                BY <2>1, <4>1, <4>2 DEF LastMessage
            <4> QED
                BY <4>1, <4>2, <4>3
        <3> QED
            BY <3>1, <3>2, <3>3
    <2> QED
        BY <1>1, <2>2, <2>3 DEF Grown
<1>4. Grown'
    BY <1>1, <1>3 DEF Grown
<1>5. PassCovers'
    BY <1>1 DEF PassCovers
<1>6. DedupedRefer'
    BY <1>1 DEF GrowInv, DedupedRefer
<1> QED
    BY <1>4, <1>5, <1>6 DEF GrowInv

\* A row stands for one of the k messages.
LEMMA RowsStand ==
    ASSUME NEW k, Numbers(k), NEW r \in rows
    PROVE  \E j \in 1..k : transcript[j] = r.hash /\ transcript[j] # Empty
<1>1. [seq |-> r.seq, hash |-> r.hash] \in Numbered(transcript, k)
    BY DEF Numbers, Listing
<1>2. PICK j \in FirstOf(transcript, k) :
        [seq |-> r.seq, hash |-> r.hash]
          = [seq |-> Cardinality(FirstOf(transcript, j)), hash |-> transcript[j]]
    BY <1>1 DEF Numbered
<1>3. r.hash = transcript[j]
    BY <1>2
<1> QED
    BY <1>2, <1>3 DEF FirstOf

\* The row of a new message has the next number.
LEMMA NumbersGrow ==
    ASSUME Types, NEW k \in Nat, Covers(k), UNCHANGED transcript,
           transcript[k + 1] # Empty, \A r \in rows : r.hash # transcript[k + 1],
           NEW new, rows' = rows \cup {new},
           new.seq = NextSeq, new.hash = transcript[k + 1]
    PROVE  Numbers(k + 1)'
<1> DEFINE c == Cardinality(FirstOf(transcript, k))
<1>1. /\ FirstOf(transcript, k + 1) = FirstOf(transcript, k) \cup {k + 1}
      /\ Cardinality(FirstOf(transcript, k + 1)) = c + 1
    <2>1. \A j \in 1..k : transcript[j] # transcript[k + 1]
        BY DEF Covers
    <2> QED
        BY <2>1, FirstOfNew
<1>2. c \in Nat
    BY FirstOfFinite
<1>3. /\ \A r \in rows : r.seq <= c
      /\ FirstOf(transcript, k) # {} => \E r \in rows : r.seq = c
      /\ Listing = Numbered(transcript, k)
    BY DEF Covers, Numbers
<1>4. FirstOf(transcript, k) = {} => c = 0
    BY FS_EmptySet
<1>5. /\ NextSeq \in Nat \ {0} /\ \A r \in rows : r.seq < NextSeq
      /\ NextSeq - 1 \in {0} \cup {r.seq : r \in rows}
      /\ \A r \in rows : r.seq \in Nat
    BY NextSeqIsNew DEF Types, TypeOK, Row
<1> HIDE DEF c
<1>6. NextSeq = c + 1
    <2>1. NextSeq - 1 <= c
        BY <1>2, <1>3, <1>5
    <2>2. c < NextSeq
        <3>1. CASE FirstOf(transcript, k) = {}
            BY <1>4, <1>5, <3>1
        <3>2. CASE FirstOf(transcript, k) # {}
            BY <1>3, <1>5, <3>2
        <3> QED
            BY <3>1, <3>2
    <2> QED
        BY <1>2, <1>5, <2>1, <2>2
<1>7. \A r \in rows' : r.seq <= c + 1
    BY <1>2, <1>3, <1>5, <1>6
<1>8. \E r \in rows' : r.seq = c + 1
    BY <1>6
<1>9. Listing' = Numbered(transcript, k + 1)
    <2> DEFINE e == [seq |-> c + 1, hash |-> transcript[k + 1]]
    <2>1. Listing' = Listing \cup {[seq |-> new.seq, hash |-> new.hash]}
        BY DEF Listing
    <2>2. Numbered(transcript, k + 1)
            = Numbered(transcript, k)
                \cup {[seq |-> Cardinality(FirstOf(transcript, k + 1)),
                       hash |-> transcript[k + 1]]}
        BY <1>1 DEF Numbered
    <2> QED
        BY <1>1, <1>3, <1>6, <2>1, <2>2
<1> QED
    BY <1>1, <1>7, <1>8, <1>9 DEF Numbers

\* A new row stands for the first message without one, and is numbered at most
\* one above the rows before it.
LEMMA AppendGrows ==
    ASSUME IInv, GrowInv, AppendNext
    PROVE  GrowInv'
<1>1. /\ next \in 1..Len(transcript) /\ next' = next + 1
      /\ rows' = Appended(transcript[next])
      /\ UNCHANGED <<transcript, mark, todo, clean, deduped, plain>>
    BY DEF AppendNext, history, pass
<1>2. todo = {} /\ Len(transcript) \in Nat /\ \A r \in rows : r.seq \in Nat
    BY <1>1 DEF IInv, TakeTurns, Types, TypeOK, Row
<1>3. rows \subseteq rows'
    BY <1>1 DEF Appended
<1>4. ASSUME plain PROVE Grown'
    <2>1. PICK k \in 0..Len(transcript) :
            Covers(k) /\ mark.seq <= k /\ next <= k + 1
        BY <1>4 DEF GrowInv, Grown
    <2> DEFINE New == [seq |-> NextSeq, hash |-> transcript[next], ref |-> FALSE]
    <2>0. PICK n \in 1..Len(transcript) : n = next
        BY <1>1
    <2>2. CASE rows' = rows
        <3>1. transcript[n] # Empty => \E r \in rows : r.hash = transcript[n]
            <4> SUFFICES ASSUME New \in rows PROVE FALSE
                BY <1>1, <2>0, <2>2 DEF Appended
            <4>1. New.seq = NextSeq
                OBVIOUS
            <4> HIDE DEF New
            <4> QED
                BY <4>1, NextSeqIsNew DEF IInv
        <3>2. CASE n <= k
            <4>1. Covers(k)'
                BY <1>1, <2>1, <2>2 DEF Covers, Numbers, Listing
            <4>2. mark'.seq <= k /\ next' <= k + 1 /\ next' # 0
                BY <1>1, <2>0, <2>1, <3>2
            <4> QED
                BY <1>1, <4>1, <4>2 DEF Grown
        <3>3. CASE n = k + 1
            <4>1. \A r \in rows : r.seq <= n
                BY <1>2, <2>1, <3>3 DEF Covers
            <4>2. \A i \in 1..n : transcript[i] # Empty => \E r \in rows : r.hash = transcript[i]
                <5> SUFFICES ASSUME NEW i \in 1..n, transcript[i] # Empty
                             PROVE  \E r \in rows : r.hash = transcript[i]
                    OBVIOUS
                <5>1. CASE i = n
                    BY <3>1, <5>1
                <5>2. CASE i \in 1..k
                    BY <2>1, <5>2 DEF Covers
                <5> QED
                    BY <3>3, <5>1, <5>2
            <4>3. Numbers(n)'
                <5>1. transcript[k + 1] = Empty \/ \E j \in 1..k : transcript[j] = transcript[k + 1]
                    BY <2>1, <3>1, <3>3, RowsStand DEF Covers
                <5>2. FirstOf(transcript, n) = FirstOf(transcript, k)
                    BY <3>3, <5>1, FirstOfOld
                <5>3. Numbered(transcript, n) = Numbered(transcript, k)
                    BY <5>2 DEF Numbered
                <5> QED
                    BY <1>1, <2>1, <2>2, <5>2, <5>3 DEF Covers, Numbers, Listing
            <4>4. Covers(n)'
                BY <1>1, <2>1, <2>2, <4>1, <4>2, <4>3 DEF Covers
            <4>5. mark'.seq <= n /\ next' = n + 1
                BY <1>1, <1>2, <2>0, <2>1, <3>3 DEF IInv, Types, TypeOK, Mark
            <4> QED
                BY <1>1, <4>4, <4>5 DEF Grown
        <3> QED
            BY <2>0, <2>1, <3>2, <3>3
    <2>3. CASE /\ transcript[n] # Empty /\ \A r \in rows : r.hash # transcript[n]
               /\ rows' = rows \cup {New}
        <3>1. n = k + 1
            <4>1. ~(n <= k)
                BY <2>1, <2>3 DEF Covers
            <4> QED
                BY <2>0, <2>1, <4>1
        <3>2. NextSeq \in Nat \ {0} /\ NextSeq <= n
            <4>1. /\ NextSeq \in Nat \ {0}
                  /\ NextSeq - 1 \in {0} \cup {r.seq : r \in rows}
                BY NextSeqIsNew DEF IInv
            <4>2. NextSeq - 1 <= k
                BY <1>2, <2>1, <4>1 DEF Covers
            <4> QED
                BY <3>1, <4>1, <4>2
        <3>3. New.seq = NextSeq /\ New.hash = transcript[n]
            BY <2>0
        <3>4. New \in rows' /\ \A r \in rows' : r \in rows \/ r = New
            BY <2>3
        <3> HIDE DEF New
        <3>5. \A r \in rows' : r.seq <= n
            BY <1>2, <2>1, <3>1, <3>2, <3>3, <3>4 DEF Covers
        <3>6. \A r \in rows', i \in DOMAIN transcript : transcript[i] = r.hash => r.seq <= i
            <4> SUFFICES ASSUME NEW r \in rows', NEW i \in 1..Len(transcript),
                                transcript[i] = r.hash
                         PROVE  r.seq <= i
                BY DEF IInv, Types, TypeOK
            <4>1. CASE r \in rows
                BY <2>1, <4>1 DEF Covers, IInv, Types, TypeOK
            <4>2. CASE r = New
                <5>1. ~(i <= k)
                    <6> SUFFICES ASSUME i <= k PROVE FALSE
                        OBVIOUS
                    <6>1. transcript[i] # Empty /\ i \in 1..k
                        BY <2>3, <3>3, <4>2
                    <6>2. \E q \in rows : q.hash = transcript[i]
                        BY <2>1, <6>1 DEF Covers
                    <6> QED
                        BY <2>3, <3>3, <4>2, <6>2
                <5> QED
                    BY <3>1, <3>2, <3>3, <4>2, <5>1
            <4> QED
                BY <3>4, <4>1, <4>2
        <3>7. \A i \in 1..n : transcript[i] # Empty => \E r \in rows' : r.hash = transcript[i]
            <4> SUFFICES ASSUME NEW i \in 1..n, transcript[i] # Empty
                         PROVE  \E r \in rows' : r.hash = transcript[i]
                OBVIOUS
            <4>1. CASE i = n
                BY <3>3, <3>4, <4>1
            <4>2. CASE i \in 1..k
                BY <1>3, <2>1, <4>2 DEF Covers
            <4> QED
                BY <3>1, <4>1, <4>2
        <3>8. Numbers(n)'
            <4>1. k \in Nat /\ Types /\ n = k + 1
                BY <3>1 DEF IInv
            <4>2. /\ transcript[k + 1] # Empty
                  /\ \A r \in rows : r.hash # transcript[k + 1]
                  /\ New.seq = NextSeq /\ New.hash = transcript[k + 1]
                  /\ rows' = rows \cup {New}
                BY <2>3, <3>3, <4>1
            <4>3. Numbers(k + 1)'
                BY <1>1, <2>1, <4>1, <4>2, NumbersGrow
            <4> QED
                BY <4>1, <4>3
        <3>9. Covers(n)'
            BY <1>1, <3>5, <3>6, <3>7, <3>8 DEF Covers
        <3>10. mark'.seq <= n /\ next' = n + 1
            BY <1>1, <1>2, <2>0, <2>1, <3>1 DEF IInv, Types, TypeOK, Mark
        <3> QED
            BY <1>1, <3>9, <3>10 DEF Grown
    <2> QED
        BY <1>1, <2>0, <2>2, <2>3 DEF Appended
<1>5. Grown'
    BY <1>1, <1>4 DEF Grown
<1>6. PassCovers'
    BY <1>1, <1>2 DEF PassCovers
<1>7. DedupedRefer'
    BY <1>1, <1>3 DEF GrowInv, DedupedRefer
<1> QED
    BY <1>5, <1>6, <1>7 DEF GrowInv

\* The index of a message, taken for a number, covers the rows of the messages
\* up to it: this is what Covers is for.
LEMMA StartGrows ==
    ASSUME IInv, GrowInv, StartDedup
    PROVE  GrowInv'
<1>1. /\ next = 0
      /\ UNCHANGED <<transcript, mark, next, rows, clean, deduped, plain>>
    BY DEF StartDedup, history, event
<1>2. PICK n \in 1..Len(transcript) :
        todo' = ListRange(n) /\ cut' = IF clean THEN n ELSE 0
    BY DEF StartDedup, IInv, Types, TypeOK
<1>3. Grown'
    BY <1>1 DEF GrowInv, Grown, Covers, Numbers, Listing
<1>4. DedupedRefer'
    BY <1>1 DEF GrowInv, DedupedRefer
<1>5. PassCovers'
    <2> SUFFICES ASSUME plain PROVE PassCovers'
        BY <1>1 DEF PassCovers
    <2>1. Len(transcript) \in Nat
        BY DEF IInv, Types, TypeOK
    <2>2. CASE ~clean
        <3>1. cut' = 0
            BY <1>2, <2>2
        <3> QED
            BY <1>1, <2>1, <3>1 DEF PassCovers
    <2>3. CASE clean
        <3>1. cut' = n
            BY <1>2, <2>3
        <3>2. Covers(Len(transcript))
            BY <1>1, <2>3 DEF GrowInv, Grown
        <3>3. ASSUME NEW i \in 1..n, transcript[i] # Empty
              PROVE  \E r \in rows : r.hash = transcript[i] /\ Handled(r)'
            <4>1. i \in 1..Len(transcript) /\ i \in DOMAIN transcript
                BY DEF IInv, Types, TypeOK
            <4>2. PICK r \in rows : r.hash = transcript[i]
                BY <3>2, <3>3, <4>1 DEF Covers
            <4>3. r.seq <= i /\ r.seq \in Nat
                BY <3>2, <4>1, <4>2 DEF Covers, IInv, Types, TypeOK, Row
            <4>4. r.seq <= n
                BY <4>3
            <4>5. Handled(r)'
                BY <1>2, <4>4 DEF ListRange, Handled
            <4> QED
                BY <4>2, <4>5
        <3> QED
            BY <1>1, <2>1, <3>1, <3>3 DEF PassCovers
    <2> QED
        BY <2>2, <2>3
<1> QED
    BY <1>3, <1>4, <1>5 DEF GrowInv

\* The row a pass finishes refers; at the end of the pass all of them do.
LEMMA SetRefGrows ==
    ASSUME IInv, GrowInv, SetRef
    PROVE  GrowInv'
<1>1. /\ half
      /\ rows' = {[r EXCEPT !.ref = @ \/ r.seq = Current.seq] : r \in rows}
      /\ todo' = todo \ {Current}
      /\ cut' = IF todo' = {} THEN 0 ELSE cut
      /\ deduped' = IF todo' = {} /\ cut > deduped THEN cut ELSE deduped
      /\ UNCHANGED <<transcript, mark, next, clean, plain>>
    BY DEF SetRef, event
<1>2. todo # {}
    BY <1>1 DEF IInv, Types, TypeOK
<1>3. \A r \in rows : \E s \in rows' :
        /\ s.seq = r.seq /\ s.hash = r.hash
        /\ r.ref \/ r.seq = Current.seq => s.ref
    <2> TAKE r \in rows
    <2> DEFINE b == r.ref \/ r.seq = Current.seq
               s == [r EXCEPT !.ref = b]
    <2>1. s \in rows'
        BY <1>1
    <2>2. r \in Row /\ (r.ref \/ r.seq = Current.seq => b)
        BY DEF IInv, Types, TypeOK
    <2> HIDE DEF b
    <2>3. s.seq = r.seq /\ s.hash = r.hash /\ s.ref = b
        BY <2>2 DEF Row
    <2> QED
        BY <2>1, <2>2, <2>3
<1>4. \A s \in rows' : \E r \in rows : s.seq = r.seq /\ s.hash = r.hash
    <2> TAKE s \in rows'
    <2>1. PICK r \in rows : s = [r EXCEPT !.ref = r.ref \/ r.seq = Current.seq]
        BY <1>1
    <2>2. r \in Row
        BY DEF IInv, Types, TypeOK
    <2> DEFINE b == r.ref \/ r.seq = Current.seq
    <2>3. s = [r EXCEPT !.ref = b]
        BY <2>1
    <2> HIDE DEF b
    <2> QED
        BY <2>2, <2>3 DEF Row
<1> SUFFICES ASSUME plain PROVE GrowInv'
    BY <1>1 DEF GrowInv, Grown, PassCovers, DedupedRefer
<1>5. Grown'
    <2>1. PICK k \in 0..Len(transcript) :
            /\ Covers(k) /\ mark.seq <= k /\ next <= k + 1
            /\ next = 0 /\ clean => k = Len(transcript)
        BY DEF GrowInv, Grown
    <2>2. Covers(k)'
        <3>1. UNCHANGED transcript
            BY <1>1
        <3>2. Numbers(k)'
            BY <1>3, <1>4, <2>1, <3>1, NumbersKept DEF Covers
        <3> QED
            BY <1>3, <1>4, <2>1, <3>1, <3>2 DEF Covers
    <2> QED
        BY <1>1, <2>1, <2>2 DEF Grown
<1>6. cut <= Len(transcript) /\ cut \in Nat /\ deduped \in Nat
    BY <1>2 DEF GrowInv, PassCovers, IInv, Types
<1>7. \A i \in 1..cut : transcript[i] # Empty =>
        \E s \in rows' : s.hash = transcript[i] /\ Handled(s)'
    <2> SUFFICES ASSUME NEW i \in 1..cut, transcript[i] # Empty
                 PROVE  \E s \in rows' : s.hash = transcript[i] /\ Handled(s)'
        OBVIOUS
    <2>1. PICK r \in rows : r.hash = transcript[i] /\ Handled(r)
        BY <1>2 DEF GrowInv, PassCovers
    <2>2. PICK s \in rows' : /\ s.seq = r.seq /\ s.hash = r.hash
                             /\ r.ref \/ r.seq = Current.seq => s.ref
        BY <1>3
    <2>3. [seq |-> s.seq, hash |-> s.hash] = [seq |-> r.seq, hash |-> r.hash]
        BY <2>2
    <2>4. ASSUME r.ref \/ r.seq = Current.seq PROVE Handled(s)'
        <3>1. s.ref
            BY <2>2, <2>4
        <3> QED
            BY <3>1 DEF Handled
    <2>5. ASSUME ~(r.ref \/ r.seq = Current.seq) PROVE Handled(s)'
        <3>1. [seq |-> r.seq, hash |-> r.hash] \in todo
            BY <2>1, <2>5 DEF Handled
        <3>2. [seq |-> r.seq, hash |-> r.hash] # Current
            <4>1. [seq |-> r.seq, hash |-> r.hash].seq = r.seq
                OBVIOUS
            <4> QED
                BY <2>5, <4>1, Zenon
        <3>3. todo' = todo \ {Current}
            BY <1>1
        <3>4. [seq |-> s.seq, hash |-> s.hash] \in todo'
            BY <2>3, <3>1, <3>2, <3>3
        <3> QED
            BY <3>4 DEF Handled
    <2> QED
        BY <2>1, <2>2, <2>4, <2>5
<1>8. PassCovers'
    <2> SUFFICES ASSUME todo' # {} PROVE PassCovers'
        BY DEF PassCovers
    <2>1. cut' = cut
        BY <1>1
    <2> QED
        BY <1>1, <1>6, <1>7, <2>1 DEF PassCovers
<1>9. DedupedRefer'
    <2>1. CASE deduped' = deduped
        BY <1>1, <1>3, <2>1 DEF GrowInv, DedupedRefer
    <2>2. CASE todo' = {} /\ deduped' = cut
        <3>1. \A s \in rows' : Handled(s)' => s.ref
            BY <2>2 DEF Handled
        <3>2. transcript' = transcript
            BY <1>1
        <3> QED
            BY <1>6, <1>7, <2>2, <3>1, <3>2 DEF DedupedRefer
    <2> QED
        BY <1>1, <2>1, <2>2
<1> QED
    BY <1>5, <1>8, <1>9 DEF GrowInv

\* Every step keeps it.
LEMMA StepGrows == IInv /\ GrowInv /\ [Next]_vars => GrowInv'
<1> SUFFICES ASSUME IInv, GrowInv, [Next]_vars PROVE GrowInv'
    OBVIOUS
<1>1. CASE \E m \in Contents \cup {Empty} : Say(m)
    BY <1>1, SayGrows
<1>2. CASE \E k \in DOMAIN transcript : Rewind(k)
    <2>1. ~plain'
        BY <1>2 DEF Rewind
    <2> QED
        BY <2>1 DEF GrowInv, Grown, PassCovers, DedupedRefer
<1>3. CASE ContextEvent \/ EventFails \/ WriteMark
    BY <1>3, EventGrows
<1>4. CASE AppendNext
    BY <1>4, AppendGrows
<1>5. CASE StartDedup
    BY <1>5, StartGrows
<1>6. CASE SetRef
    BY <1>6, SetRefGrows
<1>7. CASE \/ Upsert \/ DedupFails \/ DeleteOrphans
           \/ \E c \in Shared : OtherUpserts(c) \/ OtherSetsRef(c) \/ OtherFails(c)
           \/ UNCHANGED vars
    <2>1. /\ UNCHANGED <<transcript, mark, next, rows, deduped>>
          /\ (plain' => plain) /\ (clean' => clean)
          /\ todo' = {} \/ (todo' = todo /\ cut' = cut)
        BY <1>7 DEF Upsert, DedupFails, DeleteOrphans, OtherUpserts, OtherSetsRef,
                    OtherFails, vars, event, pass, history
    <2> QED
        BY <2>1, RowsKept
<1>8. CASE Reconcile
    <2>1. /\ UNCHANGED <<transcript, mark, next, todo, cut, deduped>>
          /\ (plain' => plain) /\ (clean' => clean)
          /\ rows' = {[r EXCEPT !.ref = @ \/ r.hash \in stored \ Orphans] : r \in rows}
        BY <1>8 DEF Reconcile, event, pass
    <2>2. \A r \in rows : \E s \in rows' :
            s.seq = r.seq /\ s.hash = r.hash /\ (r.ref => s.ref)
        <3> TAKE r \in rows
        <3> DEFINE b == r.ref \/ r.hash \in stored \ Orphans
                   s == [r EXCEPT !.ref = b]
        <3>1. s \in rows'
            BY <2>1
        <3>2. r \in Row /\ (r.ref => b)
            BY DEF IInv, Types, TypeOK
        <3> HIDE DEF b
        <3>3. s.seq = r.seq /\ s.hash = r.hash /\ s.ref = b
            BY <3>2 DEF Row
        <3> QED
            BY <3>1, <3>2, <3>3
    <2>3. \A s \in rows' : \E r \in rows : s.seq = r.seq /\ s.hash = r.hash
        <3> TAKE s \in rows'
        <3>1. PICK r \in rows : s = [r EXCEPT !.ref = r.ref \/ r.hash \in stored \ Orphans]
            BY <2>1
        <3> DEFINE b == r.ref \/ r.hash \in stored \ Orphans
        <3>2. s = [r EXCEPT !.ref = b] /\ r \in Row
            BY <3>1 DEF IInv, Types, TypeOK
        <3> HIDE DEF b
        <3> QED
            BY <3>2 DEF Row
    <2> QED
        BY <2>1, <2>2, <2>3, RowsKept
<1>9. CASE Prune
    <2>1. PICK old \in SUBSET rows :
            /\ rows' = rows \ old /\ plain' = (plain /\ old = {})
            /\ clean' = (clean /\ old = {}) /\ deduped' = IF old = {} THEN deduped ELSE 0
            /\ UNCHANGED <<transcript, mark, next, todo, cut>>
        BY <1>9 DEF Prune, event, pass
    <2>2. CASE old = {}
        <3>1. rows' = rows /\ deduped' = deduped /\ (plain' <=> plain) /\ (clean' <=> clean)
            BY <2>1, <2>2
        <3> QED
            BY <2>1, <3>1, RowsKept
    <2>3. CASE old # {}
        <3>1. ~plain'
            BY <2>1, <2>3
        <3> QED
            BY <3>1 DEF GrowInv, Grown, PassCovers, DedupedRefer
    <2> QED
        BY <2>2, <2>3
<1> QED
    BY <1>1, <1>2, <1>3, <1>4, <1>5, <1>6, <1>7, <1>8, <1>9 DEF Next

LEMMA InitGrows == Init => GrowInv
<1> SUFFICES ASSUME Init PROVE GrowInv
    OBVIOUS
<1>1. /\ transcript = <<>> /\ mark.seq = 0 /\ next = 0 /\ rows = {} /\ todo = {}
      /\ deduped = 0
    BY DEF Init, NoMark
<1>2. Len(transcript) = 0
    BY <1>1
<1>3. FirstOf(transcript, 0) = {}
    BY DEF FirstOf
<1>4. Numbers(0)
    BY <1>1, <1>3 DEF Numbers, Numbered, Listing
<1>5. Covers(0)
    BY <1>1, <1>4 DEF Covers
<1>6. Grown
    BY <1>1, <1>2, <1>5 DEF Grown
<1> QED
    BY <1>1, <1>2, <1>6 DEF GrowInv, PassCovers, DedupedRefer
-----------------------------------------------------------------------------
\* Every message up to the mark has its row unless some were dropped or pruned
\* behind it, and so has every one an event has passed.
HasRow(i) == transcript[i] # Empty => \E r \in rows : r.hash = transcript[i]

MarkCovers ==
    ~stale => mark.seq <= Len(transcript) /\ \A i \in 1..mark.seq : HasRow(i)

EventCovers ==
    next # 0 /\ (~stale \/ (full /\ clean)) => \A i \in 1..(next - 1) : HasRow(i)

CleanCovers ==
    next = 0 /\ clean /\ ~stale => \A i \in 1..Len(transcript) : HasRow(i)

Behind == MarkCovers /\ EventCovers /\ CleanCovers

\* What keeps the hashes of the rows keeps it.
LEMMA BehindKept ==
    ASSUME Behind,
           UNCHANGED <<transcript, mark, next, full>>,
           stale => stale', clean' => clean,
           \A r \in rows : \E s \in rows' : s.hash = r.hash
    PROVE  Behind'
<1>1. \A i : HasRow(i) => HasRow(i)'
    BY DEF HasRow
<1> QED
    BY <1>1 DEF Behind, MarkCovers, EventCovers, CleanCovers

\* What happens to the transcript keeps the messages up to the mark, or makes
\* the mark stale.
LEMMA TranscriptBehind ==
    ASSUME IInv, Behind,
           \/ \E m \in Contents \cup {Empty} : Say(m)
           \/ \E k \in DOMAIN transcript : Rewind(k)
    PROVE  Behind'
<1>1. next' = 0 /\ clean' = FALSE /\ UNCHANGED <<mark, rows>>
    BY DEF Say, Rewind, event
<1>2. /\ transcript \in Seq(Contents \cup {Empty}) /\ Len(transcript) \in Nat
      /\ mark.seq \in Nat
    BY DEF IInv, Types, TypeOK, Mark
<1>3. ASSUME ~stale' PROVE /\ ~stale /\ mark.seq <= Len(transcript')
                           /\ \A i \in 1..mark.seq : transcript'[i] = transcript[i]
    <2>1. ASSUME NEW m \in Contents \cup {Empty}, Say(m)
          PROVE  /\ ~stale /\ mark.seq <= Len(transcript')
                 /\ \A i \in 1..mark.seq : transcript'[i] = transcript[i]
        <3>1. ~stale /\ transcript' = Append(transcript, m)
            BY <1>3, <2>1 DEF Say
        <3>2. mark.seq <= Len(transcript)
            BY <3>1 DEF Behind, MarkCovers
        <3> QED
            BY <1>2, <3>1, <3>2
    <2>2. ASSUME NEW k \in 1..Len(transcript), Rewind(k)
          PROVE  /\ ~stale /\ mark.seq <= Len(transcript')
                 /\ \A i \in 1..mark.seq : transcript'[i] = transcript[i]
        <3>1. ~stale /\ ~(k <= mark.seq) /\ transcript' = SubSeq(transcript, 1, k - 1)
            BY <1>3, <2>2 DEF Rewind
        <3>2. mark.seq <= k - 1 /\ k - 1 \in 0..Len(transcript)
            BY <1>2, <3>1
        <3>3. Len(transcript') = k - 1 /\ \A i \in 1..k - 1 : transcript'[i] = transcript[i]
            BY <1>2, <3>1, <3>2
        <3> QED
            BY <1>2, <3>1, <3>2, <3>3
    <2>3. DOMAIN transcript = 1..Len(transcript)
        BY <1>2
    <2> QED
        BY <2>1, <2>2, <2>3
<1>4. MarkCovers'
    BY <1>1, <1>3 DEF Behind, MarkCovers, HasRow
<1> QED
    BY <1>1, <1>4 DEF Behind, EventCovers, CleanCovers

\* An event starts at the mark only if its last message is still there.
LEMMA ContextBehind ==
    ASSUME IInv, Behind, ContextEvent
    PROVE  Behind'
<1>1. PICK read \in BOOLEAN, drop \in BOOLEAN :
        LET m == IF read THEN mark ELSE NoMark
        IN  /\ next' = IF Fits(m) THEN m.seq + 1 ELSE 1
            /\ mark' = IF Fits(m) \/ m = NoMark \/ ~drop THEN mark ELSE NoMark
            /\ full' = ~Fits(m)
    BY DEF ContextEvent
<1>2. UNCHANGED <<transcript, rows, stale>>
    BY DEF ContextEvent
<1>3. mark.seq \in Nat /\ Len(transcript) \in Nat /\ NoMark.seq = 0
    BY DEF IInv, Types, TypeOK, Mark, NoMark
<1>4. mark' \in {mark, NoMark}
    BY <1>1
<1>5. MarkCovers'
    BY <1>2, <1>3, <1>4 DEF Behind, MarkCovers, HasRow
<1>6. \/ next' = 1
      \/ next' = mark.seq + 1 /\ ~full'
    <2>1. ~Fits(NoMark)
        BY DEF Fits
    <2>2. CASE read
        BY <1>1, <2>2
    <2>3. CASE ~read
        BY <1>1, <2>1, <2>3
    <2> QED
        BY <2>2, <2>3
<1>7. next' # 0
    BY <1>3, <1>6
<1>8. EventCovers'
    <2>1. CASE next' = 1
        BY <2>1 DEF EventCovers
    <2>2. CASE next' = mark.seq + 1 /\ ~full'
        <3>1. next' - 1 = mark.seq
            BY <1>3, <2>2
        <3> QED
            BY <1>2, <2>2, <3>1 DEF Behind, MarkCovers, EventCovers, HasRow
    <2> QED
        BY <1>6, <2>1, <2>2
<1> QED
    BY <1>5, <1>7, <1>8 DEF Behind, CleanCovers

\* The event passes a message once it has a row, or nothing to mirror.
LEMMA AppendBehind ==
    ASSUME IInv, Behind, AppendNext
    PROVE  Behind'
<1>1. /\ next \in 1..Len(transcript) /\ next' = next + 1
      /\ rows' = Appended(transcript[next])
      /\ UNCHANGED <<transcript, mark, full, stale, clean>>
    BY DEF AppendNext, history
<1>2. Len(transcript) \in Nat
    BY DEF IInv, Types, TypeOK
<1>3. rows \subseteq rows'
    BY <1>1 DEF Appended
<1>4. transcript[next] # Empty => \E r \in rows' : r.hash = transcript[next]
    <2> DEFINE New == [seq |-> NextSeq, hash |-> transcript[next], ref |-> FALSE]
    <2>1. New.hash = transcript[next]
        OBVIOUS
    <2>2. \/ transcript[next] = Empty
          \/ \E r \in rows : r.hash = transcript[next]
          \/ rows' = rows \cup {New}
        BY <1>1 DEF Appended
    <2> HIDE DEF New
    <2> QED
        BY <1>3, <2>1, <2>2
<1>5. \A i : HasRow(i) => HasRow(i)'
    BY <1>1, <1>3 DEF HasRow
<1>6. MarkCovers'
    BY <1>1, <1>5 DEF Behind, MarkCovers
<1>7. EventCovers'
    <2> SUFFICES ASSUME ~stale \/ (full /\ clean), NEW i \in 1..(next' - 1)
                 PROVE  HasRow(i)'
        BY <1>1 DEF EventCovers
    <2>1. CASE i = next
        BY <1>1, <1>4, <2>1 DEF HasRow
    <2>2. CASE i \in 1..(next - 1)
        BY <1>1, <1>2, <1>5, <2>2 DEF Behind, EventCovers
    <2>3. next \in Nat /\ next' - 1 = next
        BY <1>1
    <2> QED
        BY <2>1, <2>2, <2>3
<1>8. next' # 0
    BY <1>1, <1>2
<1> QED
    BY <1>6, <1>7, <1>8 DEF Behind, CleanCovers

\* The mark is written when the event has passed every message; it is no
\* longer stale if the event passed them all from the first.
LEMMA WriteBehind ==
    ASSUME IInv, Behind, WriteMark
    PROVE  Behind'
<1>1. /\ next = Len(transcript) + 1 /\ next' = 0
      /\ UNCHANGED <<transcript, rows>>
    BY DEF WriteMark
<1>2. Len(transcript) \in Nat /\ next # 0 /\ next - 1 = Len(transcript)
    BY <1>1 DEF IInv, Types, TypeOK
<1>3. EventCovers'
    BY <1>1 DEF EventCovers
<1>4. CASE mark' = LastMessage /\ stale' = (stale /\ ~(full /\ clean)) /\ UNCHANGED clean
    <2>1. ~stale' => \A i \in 1..Len(transcript) : HasRow(i)
        BY <1>2, <1>4 DEF Behind, EventCovers
    <2>2. mark'.seq = Len(transcript)
        BY <1>4 DEF LastMessage
    <2> QED
        BY <1>1, <1>2, <1>3, <2>1, <2>2 DEF Behind, MarkCovers, CleanCovers, HasRow
<1>5. CASE ~clean' /\ UNCHANGED <<mark, stale>>
    BY <1>1, <1>3, <1>5 DEF Behind, MarkCovers, CleanCovers, HasRow
<1> QED
    BY <1>4, <1>5 DEF WriteMark

\* Every step keeps it.
LEMMA StepBehind == IInv /\ Behind /\ [Next]_vars => Behind'
<1> SUFFICES ASSUME IInv, Behind, [Next]_vars PROVE Behind'
    OBVIOUS
<1>1. CASE \/ \E m \in Contents \cup {Empty} : Say(m)
           \/ \E k \in DOMAIN transcript : Rewind(k)
    BY <1>1, TranscriptBehind
<1>2. CASE ContextEvent
    BY <1>2, ContextBehind
<1>3. CASE AppendNext
    BY <1>3, AppendBehind
<1>4. CASE EventFails
    <2>1. next' = 0 /\ ~clean' /\ UNCHANGED <<transcript, mark, rows, stale>>
        BY <1>4 DEF EventFails
    <2> QED
        BY <2>1 DEF Behind, MarkCovers, EventCovers, CleanCovers, HasRow
<1>5. CASE WriteMark
    BY <1>5, WriteBehind
<1>6. CASE \/ StartDedup \/ Upsert \/ DedupFails \/ DeleteOrphans
           \/ \E c \in Shared : OtherUpserts(c) \/ OtherSetsRef(c) \/ OtherFails(c)
           \/ UNCHANGED vars
    <2>1. UNCHANGED <<transcript, mark, next, full, rows, stale, clean>>
        BY <1>6 DEF StartDedup, Upsert, DedupFails, DeleteOrphans, OtherUpserts,
                    OtherSetsRef, OtherFails, vars, event, history
    <2> QED
        BY <2>1, BehindKept
<1>7. CASE SetRef \/ Reconcile
    <2>1. UNCHANGED <<transcript, mark, next, full, stale, clean>>
        BY <1>7 DEF SetRef, Reconcile, event
    <2>2. \A r \in rows : \E s \in rows' : s.hash = r.hash
        <3> TAKE r \in rows
        <3>1. \/ [r EXCEPT !.ref = r.ref \/ r.seq = Current.seq] \in rows'
              \/ [r EXCEPT !.ref = r.ref \/ r.hash \in stored \ Orphans] \in rows'
            BY <1>7 DEF SetRef, Reconcile
        <3>2. r \in Row
            BY DEF IInv, Types, TypeOK
        <3>3. \A b : [r EXCEPT !.ref = b].hash = r.hash
            BY <3>2 DEF Row
        <3> QED
            BY <3>1, <3>3
    <2> QED
        BY <2>1, <2>2, BehindKept
<1>8. CASE Prune
    <2>1. PICK old \in SUBSET rows :
            /\ rows' = rows \ old
            /\ stale' = (stale \/ old # {}) /\ clean' = (clean /\ old = {})
            /\ UNCHANGED <<transcript, mark, next, full>>
        BY <1>8 DEF Prune, event
    <2>2. CASE old = {}
        <3>1. rows' = rows /\ (stale => stale') /\ (clean' => clean)
            BY <2>1, <2>2
        <3> QED
            BY <2>1, <3>1, BehindKept
    <2>3. CASE old # {}
        <3>1. stale' /\ ~clean'
            BY <2>1, <2>3
        <3> QED
            BY <3>1 DEF Behind, MarkCovers, EventCovers, CleanCovers
    <2> QED
        BY <2>2, <2>3
<1> QED
    BY <1>1, <1>2, <1>3, <1>4, <1>5, <1>6, <1>7, <1>8 DEF Next

LEMMA InitBehind == Init => Behind
BY DEF Init, NoMark, Behind, MarkCovers, EventCovers, CleanCovers

LEMMA Invariant == Spec => [](IInv /\ GrowInv /\ Behind)
<1> QED
    BY InitInv, StepInv, InitGrows, StepGrows, InitBehind, StepBehind, PTL DEF Spec
-----------------------------------------------------------------------------
\* The tables hold what their columns allow, a pass has a row it works on, and
\* the position of an event is one of the transcript.
THEOREM TypeCorrect == Spec => []TypeOK
<1>1. IInv => TypeOK
    BY DEF IInv, Types
<1> QED
    BY <1>1, Invariant, PTL

\* No content_ref dangles unless maintenance removed the hash between the
\* two statements that store it and refer to it, for any number of sessions.
THEOREM RefsAlwaysResolve == Spec => []RefsResolve
<1>1. IInv => RefsResolve
    BY DEF IInv
<1> QED
    BY <1>1, Invariant, PTL

\* The index of a compacted message is as good as a row's number where rows
\* are numbered as the messages came: the pass covers every message in front
\* of it, and no message loses its shared bytes again.
THEOREM CompactedDeduped == Spec => []CompactedIsDeduped
<1>1. IInv /\ GrowInv => CompactedIsDeduped
    BY DEF IInv, GrowInv, RefsResolve, DedupedRefer, CompactedIsDeduped
<1> QED
    BY <1>1, Invariant, PTL

\* After an event in which everything succeeded each message has a row, and a
\* transcript that only grew is mirrored as by one full pass, in its order.
THEOREM MirrorIsFullPass == Spec => []SameAsFullPass
<1>1. IInv /\ GrowInv /\ Behind => SameAsFullPass
    <2> SUFFICES ASSUME IInv, GrowInv, Behind, next = 0, clean PROVE
                   /\ ~stale => \A i \in DOMAIN transcript :
                        transcript[i] # Empty => \E r \in rows : r.hash = transcript[i]
                   /\ plain => {[seq |-> r.seq, hash |-> r.hash] : r \in rows}
                                 = FullPass(transcript)
        BY DEF SameAsFullPass
    <2>1. DOMAIN transcript = 1..Len(transcript) /\ Len(transcript) \in Nat
        BY DEF IInv, Types, TypeOK
    <2>2. ASSUME ~stale, NEW i \in DOMAIN transcript, transcript[i] # Empty
          PROVE  \E r \in rows : r.hash = transcript[i]
        BY <2>1, <2>2 DEF Behind, CleanCovers, HasRow
    <2>3. ASSUME plain
          PROVE  {[seq |-> r.seq, hash |-> r.hash] : r \in rows} = FullPass(transcript)
        <3>1. Covers(Len(transcript))
            BY <2>3 DEF GrowInv, Grown
        <3>2. Listing = Numbered(transcript, Len(transcript))
            BY <3>1 DEF Covers, Numbers
        <3> QED
            BY <2>1, <3>2, FullPassNumbers DEF Listing
    <2> QED
        BY <2>2, <2>3
<1> QED
    BY <1>1, Invariant, PTL
=============================================================================
