------------------------- MODULE TrimBoundary_proofs -------------------------
(***************************************************************************)
(* Proofs about the cut algorithms, for every transcript length and every  *)
(* anchor floor.  What TLC checks on transcripts of at most MaxLen         *)
(* messages over small floors, the theorems state for all of them.         *)
(***************************************************************************)
EXTENDS TrimBoundary, TLAPS, SequenceTheorems, FiniteSetTheorems, WellFoundedInduction

-----------------------------------------------------------------------------
\* A nonempty set of natural numbers has a least element.
LEMMA LeastNat ==
    ASSUME NEW S \in SUBSET Nat, S # {}
    PROVE  \E t \in S : \A y \in S : t <= y
<1> DEFINE R == OpToRel(<, Nat)
<1>1. PICK t \in S : \A y \in S : <<y, t>> \notin R
    <2>1. IsWellFoundedOn(R, Nat)
        BY NatLessThanWellFounded
    <2> HIDE DEF R
    <2> QED
        BY <2>1, WFMin
<1>2. \A y \in S : t <= y
    <2> SUFFICES ASSUME NEW y \in S, y < t PROVE FALSE
        OBVIOUS
    <2>1. <<y, t>> \in R
        BY DEF OpToRel
    <2> QED
        BY <1>1, <2>1
<1> QED
    BY <1>2

\* The loops of the code that look for the largest index with a property: Max of
\* a nonempty set of indices is in the set and bounds it.
LEMMA MaxIndex ==
    ASSUME NEW n \in Nat, NEW S \in SUBSET (0..n), S # {}
    PROVE  Max(S) \in S /\ \A x \in S : x <= Max(S)
<1> DEFINE T == {n - c : c \in S}
<1>1. T \in SUBSET Nat /\ T # {}
    <2>1. \A c \in S : c \in 0..n
        OBVIOUS
    <2>2. \A c \in S : n - c \in Nat
        BY <2>1
    <2> QED
        BY <2>2
<1>2. PICK t \in T : \A y \in T : t <= y
    <2> HIDE DEF T
    <2> QED
        BY <1>1, LeastNat
<1>3. PICK m \in S : t = n - m
    OBVIOUS
<1>4. \A x \in S : m >= x
    <2> TAKE x \in S
    <2>1. n - x \in T
        OBVIOUS
    <2>2. n - m <= n - x
        BY <1>2, <1>3, <2>1
    <2> QED
        BY <2>2
<1>5. \A y \in S : Max(S) >= y /\ Max(S) \in S
    BY <1>3, <1>4 DEF Max
<1> QED
    BY <1>5

\* Induction over the natural numbers, as a fact about sets.
LEMMA NatInduct ==
    ASSUME NEW S, 0 \in S, \A n \in Nat : n \in S => n + 1 \in S
    PROVE  Nat \subseteq S
<1> SUFFICES ASSUME Nat \ S # {} PROVE FALSE
    OBVIOUS
<1> DEFINE T == Nat \ S
<1>1. PICK t \in T : \A y \in T : t <= y
    <2>1. T \in SUBSET Nat /\ T # {}
        OBVIOUS
    <2> HIDE DEF T
    <2> QED BY <2>1, LeastNat
<1>2. t \in Nat /\ t # 0
    OBVIOUS
<1>3. t - 1 \in S
    BY <1>1, <1>2
<1> QED
    BY <1>2, <1>3

\* Min of a nonempty set of indices is in the set and bounds it.
LEMMA MinIndex ==
    ASSUME NEW S \in SUBSET Nat, S # {}
    PROVE  Min(S) \in S /\ \A x \in S : Min(S) <= x
<1>1. PICK m \in S : \A x \in S : m <= x
    BY LeastNat
<1> QED
    BY <1>1 DEF Min

\* The snapped cut is pair-safe and no pair-safe cut up to `from` is larger.
LEMMA SnapIsLargestPairSafe ==
    ASSUME NEW ms \in Seq(Message), NEW from \in Nat
    PROVE  /\ SnapCut(ms, from) \in 0..from
           /\ IsPairSafe(ms, SnapCut(ms, from))
           /\ \A c \in 1..from : IsPairSafe(ms, c) => c <= SnapCut(ms, from)
<1> DEFINE S == {0} \cup {c \in 1..from : IsPairSafe(ms, c)}
<1>1. S \in SUBSET (0..from) /\ S # {}
    OBVIOUS
<1>2. SnapCut(ms, from) = Max(S)
    BY DEF SnapCut
<1>3. Max(S) \in S /\ \A x \in S : x <= Max(S)
    <2> HIDE DEF S
    <2> QED BY <1>1, MaxIndex
<1>4. IsPairSafe(ms, 0)
    BY DEF IsPairSafe
<1> QED
    BY <1>2, <1>3, <1>4

\* The walk's cut, where it finds one, is the largest acceptable cut below the
\* snapped one.
LEMMA WalkIsLargest ==
    ASSUME NEW ms \in Seq(Message), NEW snap \in Nat, NEW anchor \in Nat,
           WalkCuts(ms, snap, anchor) # {}
    PROVE  /\ Max(WalkCuts(ms, snap, anchor)) \in WalkCuts(ms, snap, anchor)
           /\ \A c \in WalkCuts(ms, snap, anchor) :
                 c <= Max(WalkCuts(ms, snap, anchor))
<1>1. WalkCuts(ms, snap, anchor) \in SUBSET (0..snap)
    BY DEF WalkCuts
<1> QED
    BY <1>1, MaxIndex

\* The drop end satisfies what computeDropRange asks of a candidate, and no
\* larger candidate does.
LEMMA DropEndIsLargest ==
    ASSUME NEW ms \in Seq(Message), NEW keepFrom \in 1..(Len(ms) - 1),
           NEW anchor \in Nat
    PROVE  /\ DropEnd(ms, keepFrom, anchor) \in 0..keepFrom
           /\ IsPairSafe(ms, DropEnd(ms, keepFrom, anchor))
           /\ DropEnd(ms, keepFrom, anchor) # 0
                => AnchorAllows(ms, DropEnd(ms, keepFrom, anchor), anchor)
           /\ \A c \in 1..keepFrom :
                 AnchorAllows(ms, c, anchor) /\ IsPairSafe(ms, c)
                    => c <= DropEnd(ms, keepFrom, anchor)
<1> DEFINE S == {0} \cup {c \in 1..keepFrom :
                      AnchorAllows(ms, c, anchor) /\ IsPairSafe(ms, c)}
<1>1. S \in SUBSET (0..keepFrom) /\ S # {} /\ keepFrom \in Nat
    BY LenProperties
<1>2. DropEnd(ms, keepFrom, anchor) = Max(S)
    BY LenProperties DEF DropEnd
<1>3. Max(S) \in S /\ \A x \in S : x <= Max(S)
    <2> HIDE DEF S
    <2> QED BY <1>1, MaxIndex
<1>4. IsPairSafe(ms, 0)
    BY DEF IsPairSafe
<1> QED
    BY <1>2, <1>3, <1>4
-----------------------------------------------------------------------------
\* What a live trim returns, case by case: the snapped cut, or the largest
\* acceptable cut below it, or - under critical pressure only - the best
\* pair-safe cut there is.
LEMMA LiveTrimCases ==
    ASSUME NEW ms \in Seq(Message), NEW from \in Nat, NEW anchor \in Nat,
           NEW crit \in BOOLEAN,
           LiveTrimCut(ms, from, anchor, crit) # NoCut
    PROVE  LET c    == LiveTrimCut(ms, from, anchor, crit)
               snap == SnapCut(ms, from)
               walk == WalkCuts(ms, snap, anchor)
           IN  /\ c \in 1..from
               /\ IsPairSafe(ms, c)
               /\ \/ c = snap /\ UsersKept(ms, c) >= anchor
                  \/ /\ c \in walk
                     /\ \A d \in walk : d <= c
                     /\ ~(UsersKept(ms, snap) >= anchor)
                  \/ crit /\ c = snap /\ walk = {}
<1> DEFINE snap == SnapCut(ms, from)
           walk == WalkCuts(ms, snap, anchor)
           cut  == IF walk = {} THEN snap ELSE Max(walk)
<1>1. /\ snap \in 0..from
      /\ IsPairSafe(ms, snap)
    BY SnapIsLargestPairSafe
<1>2. walk # {} => Max(walk) \in walk /\ \A d \in walk : d <= Max(walk)
    <2>1. snap \in Nat
        BY <1>1
    <2> QED BY <2>1, WalkIsLargest
<1>3. walk \subseteq {c \in 1..(snap - 1) :
                        IsPairSafe(ms, c) /\ UsersKept(ms, c) >= anchor}
    BY DEF WalkCuts
<1>4. LiveTrimCut(ms, from, anchor, crit) =
        IF snap = 0 THEN NoCut
        ELSE IF UsersKept(ms, snap) >= anchor THEN snap
        ELSE IF cut > 1 /\ UsersKept(ms, cut) >= anchor THEN cut
        ELSE IF crit THEN cut ELSE NoCut
    BY DEF LiveTrimCut
<1> HIDE DEF snap, walk
<1>5. snap # 0
    BY <1>4
<1>6. CASE UsersKept(ms, snap) >= anchor
    <2>1. LiveTrimCut(ms, from, anchor, crit) = snap
        BY <1>4, <1>5, <1>6
    <2> QED
        BY <2>1, <1>1, <1>5, <1>6 DEF snap
<1>7. CASE ~(UsersKept(ms, snap) >= anchor) /\ walk # {}
    <2>1. cut = Max(walk) /\ cut \in walk /\ \A d \in walk : d <= cut
        BY <1>2, <1>7
    <2>2. cut \in 1..from /\ IsPairSafe(ms, cut)
        <3> HIDE DEF cut
        <3>1. cut \in 1..(snap - 1) /\ IsPairSafe(ms, cut)
            BY <2>1, <1>3
        <3> QED
            BY <3>1, <1>1
    <2>3. LiveTrimCut(ms, from, anchor, crit) = cut
        BY <1>4, <1>5, <1>7
    <2> HIDE DEF cut
    <2>4. /\ cut \in 1..from
          /\ IsPairSafe(ms, cut)
          /\ cut \in walk
          /\ \A d \in walk : d <= cut
          /\ ~(UsersKept(ms, snap) >= anchor)
        BY <2>1, <2>2, <1>7
    <2> QED
        BY <2>3, <2>4 DEF snap, walk
<1>8. CASE ~(UsersKept(ms, snap) >= anchor) /\ walk = {}
    <2>1. cut = snap
        BY <1>8
    <2>2. crit /\ LiveTrimCut(ms, from, anchor, crit) = snap
        BY <1>4, <1>5, <1>8, <2>1
    <2>3. snap \in 1..from
        BY <1>1, <1>5
    <2> HIDE DEF cut
    <2> QED
        BY <2>2, <2>3, <1>1, <1>8 DEF snap, walk
<1> QED
    BY <1>6, <1>7, <1>8
-----------------------------------------------------------------------------
(* Token counts *)

IsSumUpTo(ms, n, f) ==
    /\ f \in [0..n -> Nat]
    /\ f[0] = 0
    /\ \A i \in 1..n : f[i] = ms[Len(ms) - i + 1].tok + f[i - 1]

\* Every message has a token estimate.
LEMMA MessageTokens ==
    ASSUME NEW ms \in Seq(Message)
    PROVE  Len(ms) \in Nat /\ \A i \in 1..Len(ms) : ms[i].tok \in Nat
<1>1. \A m \in Message : m.tok \in Nat
    <2>1. \A m \in Message : m.tok \in Toks
        BY DEF Message
    <2> QED
        BY <2>1, TrimAssumption
<1>2. Len(ms) \in Nat /\ \A i \in 1..Len(ms) : ms[i] \in Message
    OBVIOUS
<1> QED
    BY <1>1, <1>2

\* The recursion of LastTokens has a solution, which it therefore computes.
LEMMA LastTokensDef ==
    ASSUME NEW ms \in Seq(Message)
    PROVE  IsSumUpTo(ms, Len(ms), LastTokens(ms))
<1> DEFINE L == Len(ms)
           IsSum(f) == f = [n \in 0..L |-> IF n = 0 THEN 0 ELSE ms[L - n + 1].tok + f[n - 1]]
           S == {n \in Nat : n <= L => \E f : IsSumUpTo(ms, n, f)}
<1>1. L \in Nat /\ \A i \in 1..L : ms[i].tok \in Nat
    BY MessageTokens
<1> HIDE DEF L
<1>2. 0 \in S
    <2>1. IsSumUpTo(ms, 0, [i \in 0..0 |-> 0])
        BY DEF IsSumUpTo
    <2> QED
        BY <2>1
<1>3. ASSUME NEW n \in Nat, n \in S PROVE n + 1 \in S
    <2> SUFFICES ASSUME n + 1 <= L PROVE \E f : IsSumUpTo(ms, n + 1, f)
        OBVIOUS
    <2>1. PICK f : IsSumUpTo(ms, n, f)
        BY <1>1, <1>3
    <2> DEFINE g == [i \in 0..n + 1 |-> IF i <= n THEN f[i] ELSE ms[L - n].tok + f[n]]
    <2>2. L - n \in 1..L /\ L - (n + 1) + 1 = L - n
        BY <1>1
    <2>3. ms[L - n].tok \in Nat /\ \A i \in 0..n : f[i] \in Nat
        BY <1>1, <2>1, <2>2 DEF IsSumUpTo
    <2>4. g \in [0..n + 1 -> Nat] /\ g[0] = 0
        BY <2>1, <2>3 DEF IsSumUpTo
    <2>5. ASSUME NEW i \in 1..n + 1
          PROVE  g[i] = ms[L - i + 1].tok + g[i - 1]
        <3>1. CASE i \in 1..n
            <4>1. g[i] = f[i] /\ g[i - 1] = f[i - 1]
                BY <3>1
            <4> QED
                BY <2>1, <3>1, <4>1 DEF IsSumUpTo, L
        <3>2. CASE i = n + 1
            <4>1. g[i] = ms[L - n].tok + f[n] /\ g[i - 1] = f[n]
                BY <3>2
            <4> QED
                BY <2>2, <3>2, <4>1
        <3> QED
            BY <3>1, <3>2
    <2> HIDE DEF g
    <2>6. IsSumUpTo(ms, n + 1, g)
        BY <2>4, <2>5 DEF IsSumUpTo, L
    <2> QED
        BY <2>6
<1>4. PICK f : IsSumUpTo(ms, L, f)
    <2>1. Nat \subseteq S
        <3> HIDE DEF S
        <3> QED BY <1>2, <1>3, NatInduct
    <2> QED
        BY <1>1, <2>1
<1>5. IsSum(f)
    <2> DEFINE g == [n \in 0..L |-> IF n = 0 THEN 0 ELSE ms[L - n + 1].tok + f[n - 1]]
    <2>1. \A n \in 0..L : f[n] = g[n]
        BY <1>1, <1>4 DEF IsSumUpTo, L
    <2>2. f \in [0..L -> Nat] /\ DOMAIN g = 0..L
        BY <1>4 DEF IsSumUpTo
    <2> QED
        BY <2>1, <2>2
<1>6. IsSum(LastTokens(ms))
    BY <1>5 DEF LastTokens, L
<1>7. IsSumUpTo(ms, L, LastTokens(ms))
    <2> DEFINE h == LastTokens(ms)
    <2>1. h = [n \in 0..L |-> IF n = 0 THEN 0 ELSE ms[L - n + 1].tok + h[n - 1]]
        BY <1>6
    <2> HIDE DEF h
    <2>2. h[0] = 0 /\ \A i \in 1..L : h[i] = ms[L - i + 1].tok + h[i - 1]
        BY <1>1, <2>1
    <2>3. \A i \in Nat : i <= L => h[i] \in Nat
        <3> DEFINE T == {i \in Nat : i <= L => h[i] \in Nat}
        <3>1. 0 \in T
            BY <2>2
        <3>2. \A i \in Nat : i \in T => i + 1 \in T
            <4> SUFFICES ASSUME NEW i \in Nat, i \in T, i + 1 <= L PROVE h[i + 1] \in Nat
                OBVIOUS
            <4>1. i + 1 \in 1..L /\ L - (i + 1) + 1 \in 1..L /\ h[i] \in Nat
                BY <1>1
            <4>2. h[i + 1] = ms[L - (i + 1) + 1].tok + h[i + 1 - 1]
                BY <2>2, <4>1
            <4>3. ms[L - (i + 1) + 1].tok \in Nat /\ i + 1 - 1 = i
                BY <1>1, <4>1
            <4> QED
                BY <4>1, <4>2, <4>3
        <3> HIDE DEF T
        <3>3. Nat \subseteq T
            BY <3>1, <3>2, NatInduct
        <3> QED
            BY <3>3 DEF T
    <2>4. h \in [0..L -> Nat]
        BY <1>1, <2>1, <2>3
    <2>5. IsSumUpTo(ms, L, h)
        BY <2>2, <2>4 DEF IsSumUpTo, L
    <2> QED
        BY <2>5 DEF h
<1> QED
    BY <1>7 DEF L

\* A shorter tail has no more tokens.
LEMMA TailShrinks ==
    ASSUME NEW ms \in Seq(Message)
    PROVE  /\ \A s \in 0..Len(ms) : TailTokens(ms, s) \in Nat
           /\ \A s \in 0..Len(ms), t \in 0..Len(ms) :
                 s <= t => TailTokens(ms, t) <= TailTokens(ms, s)
<1> DEFINE L == Len(ms)
           h == LastTokens(ms)
<1>1. L \in Nat /\ \A i \in 1..L : ms[i].tok \in Nat
    BY MessageTokens
<1>2. /\ h \in [0..L -> Nat]
      /\ \A i \in 1..L : h[i] = ms[L - i + 1].tok + h[i - 1]
    BY LastTokensDef DEF IsSumUpTo
<1>3. \A s \in 0..L : TailTokens(ms, s) = h[L - s]
    BY DEF TailTokens
<1> HIDE DEF L, h
<1>4. \A i \in 1..L : h[i - 1] \in Nat /\ h[i - 1] <= h[i]
    <2> TAKE i \in 1..L
    <2>1. L - i + 1 \in 1..L /\ i - 1 \in 0..L
        BY <1>1
    <2>2. h[i] = ms[L - i + 1].tok + h[i - 1]
        BY <1>2
    <2>3. ms[L - i + 1].tok \in Nat /\ h[i - 1] \in Nat
        BY <1>1, <1>2, <2>1
    <2> QED
        BY <2>2, <2>3
<1>5. ASSUME NEW i \in 0..L PROVE \A d \in Nat : i + d <= L => h[i] <= h[i + d]
    <2> DEFINE T == {d \in Nat : i + d <= L => h[i] <= h[i + d]}
    <2>1. 0 \in T
        BY <1>2, <1>5
    <2>2. \A d \in Nat : d \in T => d + 1 \in T
        <3> SUFFICES ASSUME NEW d \in Nat, d \in T, i + (d + 1) <= L
                     PROVE  h[i] <= h[i + (d + 1)]
            OBVIOUS
        <3>1. i + d + 1 \in 1..L /\ i + d \in 0..L /\ h[i] <= h[i + d]
            BY <1>1
        <3>2. h[i + d] <= h[i + d + 1] /\ h[i] \in Nat /\ h[i + d] \in Nat /\ h[i + d + 1] \in Nat
            BY <1>1, <1>2, <1>4, <3>1
        <3>3. h[i] <= h[i + d + 1]
            BY <3>1, <3>2
        <3> QED
            BY <3>3, <1>1
    <2> HIDE DEF T
    <2>3. Nat \subseteq T
        BY <2>1, <2>2, NatInduct
    <2> QED
        BY <2>3 DEF T
<1>6. ASSUME NEW s \in 0..L, NEW t \in 0..L, s <= t PROVE h[L - t] <= h[L - s]
    <2>1. L - t \in 0..L /\ t - s \in Nat /\ (L - t) + (t - s) = L - s /\ L - s <= L
        BY <1>1, <1>6
    <2> QED
        BY <1>5, <2>1
<1>7. \A s \in 0..L : h[L - s] \in Nat
    BY <1>1, <1>2
<1> QED
    BY <1>3, <1>6, <1>7 DEF L

\* The front-drop is the longest tail that fits, or the final message.
LEMMA FrontDropFits ==
    ASSUME NEW ms \in Seq(Message), Len(ms) > 1, NEW budget \in Nat
    PROVE  /\ FrontDrop(ms, budget) \in 0..Len(ms) - 1
           /\ \/ FrontDrop(ms, budget) = Len(ms) - 1
              \/ TailTokens(ms, FrontDrop(ms, budget)) <= budget
           /\ \A s \in 0..Len(ms) - 1 :
                 s < FrontDrop(ms, budget) => TailTokens(ms, s) > budget
<1> DEFINE L == Len(ms)
           fits == {s \in 0..(L - 1) : TailTokens(ms, s) <= budget}
<1>1. L \in Nat
    OBVIOUS
<1>2. FrontDrop(ms, budget) = IF fits = {} THEN L - 1 ELSE Min(fits)
    BY DEF FrontDrop
<1>3. \A s \in 0..L : TailTokens(ms, s) \in Nat
    BY TailShrinks
<1> HIDE DEF L
<1>4. fits \in SUBSET Nat
    BY <1>1
<1>5. \A s \in 0..L - 1 : s \notin fits => TailTokens(ms, s) > budget
    BY <1>1, <1>3
<1>6. CASE fits = {}
    BY <1>1, <1>2, <1>5, <1>6 DEF L
<1>7. CASE fits # {}
    <2> DEFINE m == Min(fits)
    <2>1. m \in fits /\ \A x \in fits : m <= x
        <3> HIDE DEF fits
        <3> QED BY <1>4, <1>7, MinIndex
    <2>2. m \in 0..L - 1 /\ TailTokens(ms, m) <= budget
        <3> HIDE DEF m
        <3> QED BY <2>1
    <2>3. FrontDrop(ms, budget) = m
        BY <1>2, <1>7
    <2> HIDE DEF m
    <2>4. \A s \in 0..L - 1 : s < m => s \notin fits
        <3> HIDE DEF fits
        <3> QED BY <1>1, <2>1, <2>2
    <2> HIDE DEF fits
    <2> QED
        BY <1>5, <2>2, <2>3, <2>4 DEF L
<1> QED
    BY <1>6, <1>7

\* The tail starts at the front-drop or behind the run of results there.
LEMMA TailStartSkipsResults ==
    ASSUME NEW ms \in Seq(Message), Len(ms) > 1, NEW budget \in Nat
    PROVE  LET f == FrontDrop(ms, budget)
               s == TailStart(ms, budget)
           IN  /\ s \in f..Len(ms) - 1
               /\ s = Len(ms) - 1 \/ ~IsToolResult(ms[s + 1])
               /\ \A r \in (f + 1)..s : IsToolResult(ms[r])
<1> DEFINE L == Len(ms)
           f == FrontDrop(ms, budget)
           S == {s \in f..(L - 1) : s = L - 1 \/ ~IsToolResult(ms[s + 1])}
<1>1. L \in Nat /\ f \in 0..L - 1
    BY FrontDropFits
<1>2. TailStart(ms, budget) = Min(S)
    BY DEF TailStart
<1> HIDE DEF L, f
<1>3. S \in SUBSET Nat /\ L - 1 \in S
    BY <1>1
<1> DEFINE m == Min(S)
<1>4. m \in S /\ \A x \in S : m <= x
    <2> HIDE DEF S
    <2> QED BY <1>3, MinIndex
<1> HIDE DEF m
<1>5. m \in f..L - 1 /\ (m = L - 1 \/ ~IsToolResult(ms[m + 1]))
    BY <1>4
<1>6. ASSUME NEW r \in (f + 1)..m PROVE IsToolResult(ms[r])
    <2>1. r - 1 \in f..L - 1 /\ r - 1 < m /\ r - 1 # L - 1
        BY <1>1, <1>5
    <2>2. r - 1 \notin S
        <3> HIDE DEF S
        <3> QED BY <1>1, <1>4, <1>5, <2>1
    <2>3. r - 1 + 1 = r
        BY <1>1
    <2> QED
        BY <2>1, <2>2, <2>3
<1> QED
    BY <1>2, <1>5, <1>6 DEF L, f, m
-----------------------------------------------------------------------------
\* The transcript stays a sequence of messages within its bound.
LEMMA TypeCorrect == Spec => []TypeOK
<1>1. Init => TypeOK
    BY TrimAssumption, EmptySeq DEF Init, TypeOK
<1>2. TypeOK /\ [Next]_vars => TypeOK'
    <2> SUFFICES ASSUME TypeOK, [Next]_vars PROVE TypeOK'
        OBVIOUS
    <2>1. CASE Next
        <3>1. PICK m \in Message : AppendMessage(m)
            BY <2>1 DEF Next
        <3>2. /\ Append(msgs, m) \in Seq(Message)
              /\ Len(Append(msgs, m)) = Len(msgs) + 1
            BY AppendProperties DEF TypeOK
        <3> QED
            BY <3>1, <3>2, TrimAssumption, LenProperties DEF AppendMessage, TypeOK
    <2>2. CASE UNCHANGED vars
        BY <2>2 DEF TypeOK, vars
    <2> QED
        BY <2>1, <2>2
<1> QED
    BY <1>1, <1>2, PTL DEF Spec

\* No live trim ever separates a kept tool result from its call, for every
\* transcript, every compactedFrom, every floor and every pressure.
THEOREM LiveTrimNeverSplitsPairs == Spec => []LiveTrimCutPairSafe
<1>1. TypeOK => LiveTrimCutPairSafe
    <2> SUFFICES ASSUME TypeOK,
                        NEW from \in 1..(Len(msgs) - 1),
                        NEW anchor \in 0..MaxAnchor,
                        NEW crit \in BOOLEAN,
                        LiveTrimCut(msgs, from, anchor, crit) # NoCut
                 PROVE  /\ LiveTrimCut(msgs, from, anchor, crit) \in 1..from
                        /\ IsPairSafe(msgs, LiveTrimCut(msgs, from, anchor, crit))
        BY DEF LiveTrimCutPairSafe
    <2>1. msgs \in Seq(Message) /\ from \in Nat /\ anchor \in Nat
        BY TrimAssumption, LenProperties DEF TypeOK
    <2> QED
        BY <2>1, LiveTrimCases
<1> QED
    BY <1>1, TypeCorrect, PTL

\* Short of critical pressure a live trim always leaves the floor's number of
\* recent user messages in the view.
THEOREM LiveTrimRespectsFloor == Spec => []LiveTrimKeepsAnchor
<1>1. TypeOK => LiveTrimKeepsAnchor
    <2> SUFFICES ASSUME TypeOK,
                        NEW from \in 1..(Len(msgs) - 1),
                        NEW anchor \in 0..MaxAnchor,
                        LiveTrimCut(msgs, from, anchor, FALSE) # NoCut
                 PROVE  UsersKept(msgs, LiveTrimCut(msgs, from, anchor, FALSE))
                            >= anchor
        BY DEF LiveTrimKeepsAnchor
    <2>1. msgs \in Seq(Message) /\ from \in Nat /\ anchor \in Nat
        BY TrimAssumption, LenProperties DEF TypeOK
    <2> QED
        BY <2>1, LiveTrimCases DEF WalkCuts
<1> QED
    BY <1>1, TypeCorrect, PTL

\* The critical-over hatch changes no cut that the calm path finds, and finds
\* one whenever a pair-safe cut exists at all.
THEOREM CriticalOverRelaxes == Spec => []CriticalOverOnlyRelaxes
<1>1. TypeOK => CriticalOverOnlyRelaxes
    <2> SUFFICES ASSUME TypeOK,
                        NEW from \in 1..(Len(msgs) - 1),
                        NEW anchor \in 0..MaxAnchor
                 PROVE  LET calm == LiveTrimCut(msgs, from, anchor, FALSE)
                            crit == LiveTrimCut(msgs, from, anchor, TRUE)
                        IN  /\ calm # NoCut => crit = calm
                            /\ (\E c \in 1..from : IsPairSafe(msgs, c))
                                  => crit # NoCut
        BY DEF CriticalOverOnlyRelaxes
    <2> DEFINE snap == SnapCut(msgs, from)
               walk == WalkCuts(msgs, snap, anchor)
               cut  == IF walk = {} THEN snap ELSE Max(walk)
    <2>1. msgs \in Seq(Message) /\ from \in Nat /\ anchor \in Nat
        BY TrimAssumption, LenProperties DEF TypeOK
    <2>2. LiveTrimCut(msgs, from, anchor, FALSE) # NoCut
            => LiveTrimCut(msgs, from, anchor, TRUE)
                  = LiveTrimCut(msgs, from, anchor, FALSE)
        BY DEF LiveTrimCut
    <2>3. ASSUME NEW c \in 1..from, IsPairSafe(msgs, c)
          PROVE  LiveTrimCut(msgs, from, anchor, TRUE) # NoCut
        <3>1. snap \in 0..from /\ c <= snap
            BY <2>1, <2>3, SnapIsLargestPairSafe
        <3>2. snap \in Nat /\ snap # 0
            BY <3>1
        <3>3. walk # {} => Max(walk) \in walk
            BY <2>1, <3>2, WalkIsLargest
        <3>4. walk \subseteq Nat
            BY <3>2 DEF WalkCuts
        <3>5. cut \in Nat
            BY <3>2, <3>3, <3>4
        <3>6. LiveTrimCut(msgs, from, anchor, TRUE) \in {snap, cut}
            BY <3>2 DEF LiveTrimCut
        <3>7. LiveTrimCut(msgs, from, anchor, TRUE) \in Nat
            <4> HIDE DEF snap, cut
            <4> QED BY <3>2, <3>5, <3>6
        <3>8. NoCut \notin Nat
            BY DEF NoCut
        <3> QED
            BY <3>7, <3>8
    <2> QED
        BY <2>2, <2>3
<1> QED
    BY <1>1, TypeCorrect, PTL

\* The number of user messages kept is a number.
LEMMA UsersKeptType ==
    ASSUME NEW ms \in Seq(Message), NEW c \in Nat
    PROVE  UsersKept(ms, c) \in Nat
<1>1. Len(ms) \in Nat
    BY LenProperties
<1>2. IsFiniteSet(Kept(ms, c))
    BY <1>1, FS_Interval DEF Kept
<1>3. IsFiniteSet({i \in Kept(ms, c) : IsUser(ms[i])})
    BY <1>2, FS_Subset
<1> QED
    BY <1>3, FS_CardinalityType DEF UsersKept

\* Without pressure, the region the live trim hides is exactly the region
\* computeDropRange drops, for every transcript, index and floor; and the live
\* trim makes no cut in the three cases the property names and in no other.
THEOREM LiveTrimMatchesDropRange == Spec => []LiveTrimAgreesWithDropRange
<1>1. TypeOK => LiveTrimAgreesWithDropRange
    <2> SUFFICES ASSUME TypeOK,
                        NEW from \in 1..(Len(msgs) - 1),
                        NEW anchor \in 0..MaxAnchor
                 PROVE  LiveTrimCut(msgs, from, anchor, FALSE) =
                          IF \/ DropEnd(msgs, from, anchor) = 0
                             \/ UsersKept(msgs, 0) < anchor
                             \/ /\ DropEnd(msgs, from, anchor) = 1
                                /\ UsersKept(msgs, SnapCut(msgs, from)) < anchor
                          THEN NoCut ELSE DropEnd(msgs, from, anchor)
        BY DEF LiveTrimAgreesWithDropRange
    <2> DEFINE live == LiveTrimCut(msgs, from, anchor, FALSE)
               snap == SnapCut(msgs, from)
               walk == WalkCuts(msgs, snap, anchor)
               cut  == IF walk = {} THEN snap ELSE Max(walk)
               d    == DropEnd(msgs, from, anchor)
               users(c) == UsersKept(msgs, c)
    <2>1. msgs \in Seq(Message) /\ from \in Nat /\ anchor \in Nat
        BY TrimAssumption, LenProperties DEF TypeOK
    <2>2. /\ snap \in 0..from
          /\ IsPairSafe(msgs, snap)
          /\ \A e \in 1..from : IsPairSafe(msgs, e) => e <= snap
        BY <2>1, SnapIsLargestPairSafe
    <2>3. /\ d \in 0..from
          /\ IsPairSafe(msgs, d)
          /\ d # 0 => AnchorAllows(msgs, d, anchor)
          /\ \A e \in 1..from :
                AnchorAllows(msgs, e, anchor) /\ IsPairSafe(msgs, e) => e <= d
        BY <2>1, DropEndIsLargest
    <2>4. \A c \in Nat : users(c) \in Nat
        BY <2>1, UsersKeptType
    <2>5. \A c \in 0..from : users(c) <= users(0)
        \* a cut keeps no more users than the whole transcript has
        <3> TAKE c \in 0..from
        <3> DEFINE A == {i \in Kept(msgs, c) : IsUser(msgs[i])}
                   B == {i \in Kept(msgs, 0) : IsUser(msgs[i])}
        <3>1. Len(msgs) \in Nat /\ c \in Nat
            BY <2>1, LenProperties
        <3>2. A \subseteq B
            BY <3>1 DEF Kept
        <3>3. IsFiniteSet(B)
            <4>1. IsFiniteSet(Kept(msgs, 0))
                BY <3>1, FS_Interval DEF Kept
            <4> QED
                BY <4>1, FS_Subset
        <3>4. Cardinality(A) <= Cardinality(B)
            BY <3>2, <3>3, FS_Subset
        <3> QED
            BY <3>4 DEF UsersKept
    <2>6. walk = {e \in 1..(snap - 1) : IsPairSafe(msgs, e) /\ users(e) >= anchor}
        BY DEF WalkCuts
    <2>7. walk # {} => cut \in walk /\ \A e \in walk : e <= cut
        BY <2>1, <2>2, WalkIsLargest
    <2>8. live = IF snap = 0 THEN NoCut
                 ELSE IF users(snap) >= anchor THEN snap
                 ELSE IF cut > 1 /\ users(cut) >= anchor THEN cut ELSE NoCut
        BY DEF LiveTrimCut
    <2>9. walk = {} => cut = snap
        OBVIOUS
    <2>10. \A c \in Nat : AnchorAllows(msgs, c, anchor)
                <=> anchor = 0 \/ users(0) < anchor \/ users(c) >= anchor
        BY DEF AnchorAllows
    <2> HIDE DEF live, snap, walk, cut, d, users
    <2> SUFFICES live = IF d = 0 \/ users(0) < anchor \/ (d = 1 /\ users(snap) < anchor)
                        THEN NoCut ELSE d
        BY DEF live, snap, d, users
    <2>11. users(0) \in Nat /\ users(snap) \in Nat /\ users(snap) <= users(0)
        <3>1. snap \in Nat /\ 0 \in Nat
            BY <2>1, <2>2
        <3>2. users(0) \in Nat
            BY <2>4, <3>1
        <3>3. users(snap) \in Nat
            BY <2>4, <3>1
        <3> QED
            BY <2>2, <2>5, <3>2, <3>3
    <2>12. CASE snap = 0
        <3>1. d = 0
            BY <2>2, <2>3, <2>12
        <3> QED
            BY <2>8, <2>12, <3>1
    <2>13. CASE snap # 0 /\ users(snap) >= anchor
        <3>1. AnchorAllows(msgs, snap, anchor)
            BY <2>1, <2>2, <2>10, <2>13
        <3>2. d = snap
            BY <2>1, <2>2, <2>3, <2>13, <3>1
        <3>3. ~(users(0) < anchor) /\ ~(users(snap) < anchor)
            BY <2>1, <2>13, <2>11
        <3> QED
            BY <2>8, <2>13, <3>2, <3>3
    <2>14. CASE snap # 0 /\ ~(users(snap) >= anchor) /\ walk = {}
        <3>1. live = NoCut
            BY <2>8, <2>9, <2>14
        <3>2. ASSUME d # 0, ~(users(0) < anchor) PROVE FALSE
            <4>1. users(d) >= anchor
                BY <2>1, <2>2, <2>3, <2>4, <2>10, <2>14, <3>2
            <4>2. d \in 1..(snap - 1)
                <5>1. d # snap
                    BY <4>1, <2>14
                <5> QED
                    BY <2>1, <2>2, <2>3, <3>2, <5>1
            <4> QED
                BY <2>3, <2>6, <2>14, <4>1, <4>2
        <3> QED
            BY <3>1, <3>2
    <2>15. CASE snap # 0 /\ ~(users(snap) >= anchor) /\ walk # {}
        <3>1. /\ cut \in 1..(snap - 1) /\ IsPairSafe(msgs, cut) /\ users(cut) >= anchor
              /\ \A e \in walk : e <= cut
            BY <2>6, <2>7, <2>15
        <3>2. cut \in 1..from
            BY <2>1, <2>2, <3>1
        <3>3. ~(users(0) < anchor) /\ users(snap) < anchor /\ anchor # 0
            <4>1. users(cut) \in Nat
                <5>1. cut \in Nat
                    BY <2>1, <3>2
                <5> QED
                    BY <2>4, <5>1
            <4>2. users(cut) <= users(0)
                BY <2>1, <2>5, <3>2
            <4>3. users(cut) >= anchor
                BY <3>1
            <4>4. ~(users(0) < anchor)
                BY <2>1, <2>11, <4>1, <4>2, <4>3
            <4>5. users(snap) < anchor /\ anchor # 0
                BY <2>1, <2>11, <2>15
            <4> QED
                BY <4>4, <4>5
        <3>4. cut <= d
            BY <2>3, <2>10, <3>1, <3>2
        <3>5. users(d) >= anchor /\ d # 0
            BY <2>1, <2>3, <2>10, <3>2, <3>3, <3>4
        <3>6. d \in 1..(snap - 1)
            <4>1. d # snap
                BY <3>5, <2>15
            <4> QED
                BY <2>1, <2>2, <2>3, <3>5, <4>1
        <3>7. d = cut
            BY <2>1, <2>3, <2>6, <3>1, <3>2, <3>4, <3>5, <3>6
        <3>8. live = IF d = 1 THEN NoCut ELSE d
            BY <2>8, <2>15, <3>1, <3>2, <3>7
        <3> QED
            BY <3>3, <3>5, <3>8
    <2> QED
        BY <2>12, <2>13, <2>14, <2>15
<1> QED
    BY <1>1, TypeCorrect, PTL

\* The cap fits any window, the floor of the budget apart.
LEMMA CapFitsAny ==
    ASSUME TypeOK, Len(msgs) > 1,
           NEW w \in Nat, NEW out \in Nat, NEW summary \in Nat, NEW overhead \in Nat
    PROVE  CapFits(w, out, summary, overhead)
<1> DEFINE reserve == OutputReserve(w, out, ReservePct)
           margin == Margin(w, MarginPct)
           budget == TailBudget(w, out, ReservePct, MarginPct, summary, overhead)
           f == FrontDrop(msgs, budget)
           s == TailStart(msgs, budget)
<1>1. msgs \in Seq(Message) /\ Len(msgs) \in Nat
    BY DEF TypeOK
<1>2. w \in Nat /\ out \in Nat /\ reserve \in Int /\ margin \in Int
    BY TrimAssumption DEF OutputReserve, Margin
<1>3. /\ budget \in Nat
      /\ budget = 1 \/ budget = w - reserve - margin - summary - overhead
    <2> HIDE DEF reserve, margin
    <2>1. budget = IF w - reserve - margin - summary - overhead < 1
                   THEN 1 ELSE w - reserve - margin - summary - overhead
        BY DEF TailBudget, reserve, margin
    <2> HIDE DEF budget
    <2> QED
        BY <1>2, <2>1
<1> HIDE DEF budget
<1>4. /\ f \in 0..Len(msgs) - 1
      /\ f = Len(msgs) - 1 \/ TailTokens(msgs, f) <= budget
    BY <1>1, <1>3, FrontDropFits
<1>5. s \in f..Len(msgs) - 1
    BY <1>1, <1>3, TailStartSkipsResults
<1> HIDE DEF f, s
<1>6. /\ TailTokens(msgs, s) \in Nat /\ TailTokens(msgs, f) \in Nat
      /\ TailTokens(msgs, s) <= TailTokens(msgs, f)
    BY <1>1, <1>4, <1>5, TailShrinks
<1>7. s = Len(msgs) - 1 \/ TailTokens(msgs, s) <= budget
    BY <1>1, <1>3, <1>4, <1>5, <1>6
<1>8. RequestSize(w, out, summary, overhead, s)
        = TailTokens(msgs, s) + summary + overhead + reserve + margin
    BY DEF RequestSize
<1>9. CappedAtLast(w, out, summary, overhead) = s
    BY DEF CappedAtLast, s, budget
<1> HIDE DEF reserve, margin
<1>10. \/ s = Len(msgs) - 1 \/ TailTokens(msgs, s) <= 1
       \/ TailTokens(msgs, s) + summary + overhead + reserve + margin <= w
    BY <1>2, <1>3, <1>6, <1>7
<1> QED
    BY <1>8, <1>9, <1>10 DEF CapFits

\* Whatever window, declared output, summary and overhead, a capped view fits
\* the window, unless it is the final message or the floor of the budget alone.
THEOREM CappedViewFits ==
    Spec => /\ []CappedViewFitsWindow
            /\ [](Len(msgs) > 1 =>
                    \A w, out, summary, overhead \in Nat : CapFits(w, out, summary, overhead))
<1>1. TypeOK => CappedViewFitsWindow
    <2>1. Windows \subseteq Nat /\ OutputMax \subseteq Nat
        BY TrimAssumption
    <2> QED
        BY <2>1, CapFitsAny DEF CappedViewFitsWindow
<1>2. TypeOK => (Len(msgs) > 1 =>
                   \A w, out, summary, overhead \in Nat : CapFits(w, out, summary, overhead))
    BY CapFitsAny
<1> QED
    BY <1>1, <1>2, TypeCorrect, PTL

\* The first message of a transcript is no tool result, as no call precedes it.
FirstIsNoResult == msgs # <<>> => ~IsToolResult(msgs[1])

LEMMA FirstNeverResult == Spec => []FirstIsNoResult
<1>1. Init => FirstIsNoResult
    BY DEF Init, FirstIsNoResult
<1>2. TypeOK /\ FirstIsNoResult /\ [Next]_vars => FirstIsNoResult'
    <2> SUFFICES ASSUME TypeOK, FirstIsNoResult, [Next]_vars PROVE FirstIsNoResult'
        OBVIOUS
    <2>1. CASE Next
        <3>1. PICK m \in Message : AppendMessage(m)
            BY <2>1 DEF Next
        <3>2. msgs' = Append(msgs, m) /\ msgs \in Seq(Message)
            BY <3>1 DEF AppendMessage, TypeOK
        <3>3. CASE msgs = <<>>
            <4>1. ~CallPending(msgs)
                BY <3>3 DEF CallPending
            <4>2. ~IsToolResult(m) /\ msgs'[1] = m
                BY <3>1, <3>2, <3>3, <4>1 DEF AppendMessage
            <4> QED
                BY <4>2 DEF FirstIsNoResult
        <3>4. CASE msgs # <<>>
            <4>1. msgs'[1] = msgs[1]
                BY <3>2, <3>4
            <4> QED
                BY <3>4, <4>1 DEF FirstIsNoResult
        <3> QED
            BY <3>3, <3>4
    <2>2. CASE UNCHANGED vars
        BY <2>2 DEF FirstIsNoResult, vars
    <2> QED
        BY <2>1, <2>2
<1> QED
    BY <1>1, <1>2, TypeCorrect, PTL DEF Spec

\* The gate agrees with the cap for any window, output, summary and overhead.
LEMMA GateMatchesAny ==
    ASSUME TypeOK, FirstIsNoResult, Len(msgs) > 1,
           NEW w \in Nat \ {0}, NEW out \in Nat, NEW summary \in Nat, NEW overhead \in Nat
    PROVE  GateMatchesCap(w, out, summary, overhead)
<1> DEFINE reserve == OutputReserve(w, out, ReservePct)
           margin == Margin(w, MarginPct)
           budget == TailBudget(w, out, ReservePct, MarginPct, summary, overhead)
           f == FrontDrop(msgs, budget)
           s == CappedAtLast(w, out, summary, overhead)
           sent(t) == Sent(summary, overhead, t)
           trips(t) == HeadroomTrips(w, out, ReservePct, MarginPct, sent(t))
<1>1. msgs \in Seq(Message) /\ Len(msgs) \in Nat
    BY DEF TypeOK
<1>2. reserve \in Int /\ margin \in Int
    BY TrimAssumption DEF OutputReserve, Margin
<1>3. \A t : sent(t) = TailTokens(msgs, t) + summary + overhead
    BY DEF Sent
<1>4. \A t : RequestSize(w, out, summary, overhead, t) = sent(t) + reserve + margin
    BY DEF RequestSize, Sent
<1>5. \A t : trips(t) <=> w > 0 /\ sent(t) > 0 /\ sent(t) + reserve + margin >= w
    BY DEF HeadroomTrips
<1>6. CapFits(w, out, summary, overhead)
    BY CapFitsAny
<1>7. /\ budget \in Nat
      /\ budget >= 1 /\ budget >= w - reserve - margin - summary - overhead
    <2> HIDE DEF reserve, margin
    <2>1. budget = IF w - reserve - margin - summary - overhead < 1
                   THEN 1 ELSE w - reserve - margin - summary - overhead
        BY DEF TailBudget, reserve, margin
    <2> HIDE DEF budget
    <2> QED
        BY <1>2, <2>1
<1>8. s = TailStart(msgs, budget)
    BY DEF CappedAtLast
<1> HIDE DEF budget
<1>9. /\ f \in 0..Len(msgs) - 1
      /\ \A i \in 0..Len(msgs) - 1 : i < f => TailTokens(msgs, i) > budget
    BY <1>1, <1>7, FrontDropFits
<1>10. s \in f..Len(msgs) - 1 /\ \A r \in (f + 1)..s : IsToolResult(msgs[r])
    BY <1>1, <1>7, <1>8, TailStartSkipsResults
<1> HIDE DEF s, f, reserve, margin, sent, trips
<1>11. s > 0 => f # 0
    <2> SUFFICES ASSUME s > 0, f = 0 PROVE FALSE
        OBVIOUS
    <2>1. IsToolResult(msgs[1])
        BY <1>1, <1>10
    <2>2. msgs # <<>>
        BY <1>1
    <2> QED
        BY <2>1, <2>2 DEF FirstIsNoResult
<1>12. TailTokens(msgs, 0) \in Nat /\ TailTokens(msgs, s) \in Nat
    BY <1>1, <1>9, <1>10, TailShrinks
<1>13. s > 0 => trips(0)
    <2> SUFFICES ASSUME s > 0 PROVE trips(0)
        OBVIOUS
    <2>1. TailTokens(msgs, 0) > budget
        BY <1>1, <1>9, <1>11
    <2>2. sent(0) > 0 /\ sent(0) + reserve + margin >= w
        BY <1>2, <1>3, <1>7, <1>12, <2>1
    <2> QED
        BY <1>5, <2>2
<1>14. trips(s) => \/ s = Len(msgs) - 1
                   \/ TailTokens(msgs, s) <= 1
                   \/ RequestSize(w, out, summary, overhead, s) = w
    <2>1. \/ s = Len(msgs) - 1
          \/ TailTokens(msgs, s) <= 1
          \/ RequestSize(w, out, summary, overhead, s) <= w
        BY <1>6 DEF CapFits, s
    <2>2. trips(s) => RequestSize(w, out, summary, overhead, s) >= w
        BY <1>4, <1>5
    <2>3. RequestSize(w, out, summary, overhead, s) \in Int
        BY <1>2, <1>3, <1>4, <1>12
    <2> QED
        BY <2>1, <2>2, <2>3
<1> QED
    BY <1>13, <1>14 DEF GateMatchesCap, s, sent, trips

\* The gate fires on every request the cap would have to shorten, and on what
\* the cap lets through only at an exact fit or at the cap's own limits, for
\* every transcript, window, declared output, summary and overhead.
THEOREM GatePricesLikeCap ==
    Spec => /\ []GateAgreesWithCap
            /\ [](Len(msgs) > 1 =>
                    \A w \in Nat \ {0} : \A out, summary, overhead \in Nat :
                        GateMatchesCap(w, out, summary, overhead))
<1>1. TypeOK /\ FirstIsNoResult => GateAgreesWithCap
    <2>1. Windows \subseteq Nat /\ OutputMax \subseteq Nat
        BY TrimAssumption
    <2> QED
        BY <2>1, GateMatchesAny DEF GateAgreesWithCap
<1>2. TypeOK /\ FirstIsNoResult =>
        (Len(msgs) > 1 => \A w \in Nat \ {0} : \A out, summary, overhead \in Nat :
                              GateMatchesCap(w, out, summary, overhead))
    BY GateMatchesAny
<1> QED
    BY <1>1, <1>2, TypeCorrect, FirstNeverResult, PTL

\* The cap is tight for any budget.
LEMMA CapTightAny ==
    ASSUME TypeOK, FirstIsNoResult, Len(msgs) > 1, NEW budget \in Nat \ {0}
    PROVE  CapIsTight(budget)
<1> SUFFICES ASSUME TailStart(msgs, budget) > 0
             PROVE  \E t \in 1..TailStart(msgs, budget) :
                        /\ TailTokens(msgs, t - 1) > budget
                        /\ \A r \in (t + 1)..TailStart(msgs, budget) : IsToolResult(msgs[r])
    BY DEF CapIsTight
<1> DEFINE f == FrontDrop(msgs, budget)
           s == TailStart(msgs, budget)
<1>1. msgs \in Seq(Message) /\ Len(msgs) \in Nat /\ budget \in Nat
    BY TrimAssumption DEF TypeOK
<1>2. /\ f \in 0..Len(msgs) - 1
      /\ \A i \in 0..Len(msgs) - 1 : i < f => TailTokens(msgs, i) > budget
    BY <1>1, FrontDropFits
<1>3. s \in f..Len(msgs) - 1 /\ \A r \in (f + 1)..s : IsToolResult(msgs[r])
    BY <1>1, TailStartSkipsResults
<1>4. s > 0
    OBVIOUS
<1> HIDE DEF f, s
<1>5. f # 0
    <2>1. 1 \in (f + 1)..s => IsToolResult(msgs[1])
        BY <1>3
    <2>2. msgs # <<>>
        BY <1>1
    <2> QED
        BY <1>1, <1>2, <1>3, <1>4, <2>1, <2>2 DEF FirstIsNoResult
<1>6. f \in 1..s /\ TailTokens(msgs, f - 1) > budget
    BY <1>1, <1>2, <1>3, <1>5
<1> QED
    BY <1>3, <1>6 DEF s

\* The cap drops a message only when the budget, whatever it is, ran out behind
\* it, or when it is one of the tool results the tail would otherwise begin with.
THEOREM CapIsMinimal ==
    Spec => /\ []CapDropsOnlyWhatItMust
            /\ [](Len(msgs) > 1 => \A budget \in Nat \ {0} : CapIsTight(budget))
<1>1. TypeOK /\ FirstIsNoResult => CapDropsOnlyWhatItMust
    <2>1. 1..MaxLen \subseteq Nat \ {0}
        BY TrimAssumption
    <2> QED
        BY <2>1, CapTightAny DEF CapDropsOnlyWhatItMust
<1>2. TypeOK /\ FirstIsNoResult =>
        (Len(msgs) > 1 => \A budget \in Nat \ {0} : CapIsTight(budget))
    BY CapTightAny
<1> QED
    BY <1>1, <1>2, TypeCorrect, FirstNeverResult, PTL
=============================================================================
