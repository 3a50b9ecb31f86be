---------------------------- MODULE Breaker_proofs ----------------------------
(***************************************************************************)
(* Proofs about Breaker, for every window, cooldown, residence, limit and  *)
(* number of probes.                                                       *)
(*                                                                         *)
(* A promotion is decided on the residence and the probe count, which      *)
(* calls, halts and resets all touch; the invariant ties them to what      *)
(* really happened.  A breaker in OPEN_B whose cooldown still counts has   *)
(* been there since its last failure, so the residence is no longer than   *)
(* the calm; a reset or a halt may break that, but takes the cooldown with *)
(* it, and without a cooldown the breaker does not probe.                  *)
(*                                                                         *)
(* The window is computed by recursion over the attempts.  As they are in  *)
(* the order of their ages, it is an end of them, by an induction over     *)
(* their number; the latencies cut to its length are then those of its     *)
(* attempts.  Only an emptied window keeps latencies of none.              *)
(***************************************************************************)
EXTENDS Breaker, TLAPS, SequenceTheorems, WellFoundedInduction

Numbers ==
    /\ state \in States
    /\ cooldown \in Int
    /\ probes \in Nat
    /\ residence \in None..Residence
    /\ streak \in Nat /\ calm \in 0..Residence
    /\ flawed \in BOOLEAN

\* Probes are only counted while probing, and each was a success.
ProbesCount == /\ probes > 0 => state \in Probing
               /\ probes <= streak
               /\ probes < ProbeCount

\* The residence of a breaker that may probe is that of a healthy one.
ResidenceCounts == /\ state = "OPEN_B" /\ cooldown # None => residence <= calm
                   /\ state = "PROBE_A" => calm >= Residence

IInv == Numbers /\ ProbesCount /\ ResidenceCounts /\ FlawedIsOpen
-----------------------------------------------------------------------------
\* An age stays within its limit.
LEMMA OlderType ==
    ASSUME NEW age \in None..Residence
    PROVE  /\ Older(age, Residence) \in None..Residence
           /\ age \in 0..Residence => Older(age, Residence) \in 0..Residence
           /\ Older(age, Residence) >= age
           /\ Older(age, Residence) <= age + 1
           /\ age < Residence /\ age # None => Older(age, Residence) = age + 1
BY BreakerAssumption DEF Older, None

\* What maybeProbe and advanceProbe leave, and what a promotion to A shows.
LEMMA SucceedStep ==
    ASSUME IInv, NEW as, NEW ls, Succeed(as, ls),
           streak' = AtMost(streak + 1, ProbeCount), calm' = calm,
           flawed' = (flawed /\ state' # "CLOSED_A")
    PROVE  /\ IInv'
           /\ state # "CLOSED_A" /\ state' = "CLOSED_A"
                => calm >= Residence /\ streak' >= ProbeCount
<1> USE BreakerAssumption
<1> DEFINE s == IF ~MayProbe THEN state
                ELSE IF state = "OPEN_C" THEN "PROBE_B" ELSE "PROBE_A"
           cd == IF MayProbe THEN None ELSE cooldown
<1>1. AdvanceProbe(s, cd, as, ls)
  BY DEF Succeed
<1>2. /\ s \in States /\ cd \in Int
      /\ s = "PROBE_A" => calm >= Residence
      /\ s = "OPEN_B" /\ cd # None => residence <= calm
      /\ s = "CLOSED_A" => state = "CLOSED_A"
      /\ s \notin Probing => state \notin Probing
  <2>1. CASE MayProbe
    <3>1. state = "OPEN_B" =>
            \/ residence <= calm /\ residence >= Residence
            \/ Residence = 0
      BY <2>1 DEF MayProbe, None, IInv, ResidenceCounts, Numbers
    <3> QED BY <2>1, <3>1 DEF MayProbe, States, None, Probing, IInv, Numbers
  <2>2. CASE ~MayProbe
    BY <2>2 DEF IInv, ResidenceCounts, Numbers
  <2> QED BY <2>1, <2>2
<1>3. /\ probes \in Nat /\ streak \in Nat /\ probes <= streak /\ probes < ProbeCount
      /\ streak' \in Nat
      /\ probes + 1 < ProbeCount => probes + 1 <= streak'
      /\ probes <= streak' /\ 0 <= streak'
      /\ probes + 1 >= ProbeCount => streak' >= ProbeCount
  BY DEF IInv, Numbers, ProbesCount, AtMost
<1> HIDE DEF s, cd
<1>4. CASE s \notin Probing /\ Becomes(s, cd, probes, residence)
  <2>1. probes = 0
    BY <1>2, <1>4 DEF IInv, ProbesCount, Numbers
  <2> QED BY <1>2, <1>3, <1>4, <2>1
          DEF Becomes, IInv, Numbers, ProbesCount, ResidenceCounts, FlawedIsOpen,
              Probing
<1>5. CASE /\ s \in Probing /\ probes + 1 < ProbeCount
           /\ Becomes(s, cd, probes + 1, residence)
  BY <1>2, <1>3, <1>5
     DEF Becomes, IInv, Numbers, ProbesCount, ResidenceCounts, FlawedIsOpen, Probing
<1>6. CASE s \in Probing /\ Becomes(s, cd, 0, residence)
  BY <1>2, <1>3, <1>6
     DEF Becomes, IInv, Numbers, ProbesCount, ResidenceCounts, FlawedIsOpen, Probing
<1>7. CASE s = "PROBE_B" /\ Becomes("OPEN_B", Cooldown, 0, 0)
  BY <1>2, <1>3, <1>7
     DEF Becomes, IInv, Numbers, ProbesCount, ResidenceCounts, FlawedIsOpen, Probing,
         States, None
<1>8. CASE /\ s = "PROBE_A" /\ probes + 1 >= ProbeCount
           /\ Becomes("CLOSED_A", cd, 0, residence)
  <2>1. /\ state' = "CLOSED_A" /\ cooldown' = cd /\ probes' = 0
        /\ residence' = residence
    BY <1>8 DEF Becomes
  <2>2. ~flawed'
    BY <2>1, Zenon
  <2>3. flawed' \in BOOLEAN
    OBVIOUS
  <2>4. Numbers'
    BY <1>2, <1>3, <2>1, <2>3 DEF IInv, Numbers, States
  <2>5. ProbesCount' /\ ResidenceCounts' /\ FlawedIsOpen'
    BY <1>3, <2>1, <2>2 DEF ProbesCount, ResidenceCounts, FlawedIsOpen
  <2>6. calm >= Residence /\ streak' >= ProbeCount
    BY <1>2, <1>3, <1>8
  <2> QED BY <2>4, <2>5, <2>6 DEF IInv
<1> QED BY <1>1, <1>4, <1>5, <1>6, <1>7, <1>8 DEF AdvanceProbe, Probing

\* A failed call leaves A, or A closed and sound; it begins a new calm.
LEMMA FailStep ==
    ASSUME IInv, NEW kind, NEW as, Fail(kind, as),
           streak' = 0, calm' = 0,
           flawed' = (flawed \/ (state = "CLOSED_A" /\ kind = "invalid"))
    PROVE  IInv' /\ ~(state # "CLOSED_A" /\ state' = "CLOSED_A")
<1> USE BreakerAssumption
<1>1. CASE state = "PROBE_A" /\ Open("OPEN_B")
  BY <1>1 DEF Open, Becomes, IInv, Numbers, ProbesCount, ResidenceCounts,
              FlawedIsOpen, Probing, States, None
<1>2. CASE state \in {"PROBE_B", "OPEN_B"} /\ Open("OPEN_C")
  BY <1>2 DEF Open, Becomes, IInv, Numbers, ProbesCount, ResidenceCounts,
              FlawedIsOpen, Probing, States, None
<1>3. CASE state = "CLOSED_A" /\ Open("OPEN_B")
  BY <1>3 DEF Open, Becomes, IInv, Numbers, ProbesCount, ResidenceCounts,
              FlawedIsOpen, Probing, States, None
<1>4. CASE /\ \/ state = "CLOSED_A" /\ ~Trips(kind, as)
              \/ state \in {"OPEN_C", "MANUAL_HALT"}
           /\ Becomes(state, cooldown, probes, residence)
  <2>1. state \notin Probing /\ state \in {"CLOSED_A", "OPEN_C", "MANUAL_HALT"}
    BY <1>4 DEF Probing
  <2>2. probes = 0
    BY <2>1 DEF IInv, Numbers, ProbesCount
  <2>3. state = "CLOSED_A" => kind # "invalid"
    BY <1>4 DEF Trips
  <2>4. UNCHANGED <<state, cooldown, probes, residence>>
    BY <1>4 DEF Becomes
  <2>5. state = "CLOSED_A" => ~flawed'
    BY <2>3, Zenon DEF IInv, FlawedIsOpen
  <2>6. flawed' \in BOOLEAN
    OBVIOUS
  <2>7. Numbers'
    BY <2>4, <2>6 DEF IInv, Numbers
  <2>8. ProbesCount' /\ ResidenceCounts' /\ FlawedIsOpen'
    BY <2>1, <2>2, <2>4, <2>5 DEF ProbesCount, ResidenceCounts, FlawedIsOpen
  <2> QED BY <2>4, <2>7, <2>8 DEF IInv
<1> QED BY <1>1, <1>2, <1>3, <1>4 DEF Fail

\* Every operation keeps the invariant and closes A only when it is earned.
LEMMA Step ==
    ASSUME IInv, [Next]_vars
    PROVE  /\ IInv'
           /\ state # "CLOSED_A" /\ state' = "CLOSED_A"
                => calm >= Residence /\ streak' >= ProbeCount
<1> USE BreakerAssumption
<1>1. ASSUME NEW result \in {"ok", "slow", "invalid", "threw"}, Call(result)
      PROVE  /\ IInv'
             /\ state # "CLOSED_A" /\ state' = "CLOSED_A"
                  => calm >= Residence /\ streak' >= ProbeCount
  <2>1. PICK as, ls :
          IF result \in {"ok", "slow"}
          THEN /\ Succeed(as, ls)
               /\ streak' = AtMost(streak + 1, ProbeCount)
               /\ flawed' = (flawed /\ state' # "CLOSED_A")
               /\ UNCHANGED calm
          ELSE /\ Fail(result, as)
               /\ streak' = 0
               /\ calm' = 0
               /\ flawed' = (flawed \/ (state = "CLOSED_A" /\ result = "invalid"))
    BY <1>1 DEF Call
  <2>2. CASE result \in {"ok", "slow"}
    BY <2>1, <2>2, SucceedStep
  <2>3. CASE result \notin {"ok", "slow"}
    BY <2>1, <2>3, FailStep
  <2> QED BY <2>2, <2>3
<1>2. CASE RecordProbe
  BY <1>2, SucceedStep DEF RecordProbe
<1>3. CASE Look
  BY <1>3 DEF Look, history, IInv, Numbers, ProbesCount, ResidenceCounts, FlawedIsOpen
<1>4. CASE ManualHalt
  BY <1>4 DEF ManualHalt, Becomes, history, IInv, Numbers, ProbesCount,
              ResidenceCounts, FlawedIsOpen, States, Probing, None
<1>5. CASE Reset
  <2>1. /\ state' \in States \ {"MANUAL_HALT"}
        /\ state' \in {state, "OPEN_B"}
        /\ cooldown' = None /\ probes' = 0 /\ residence' = residence
        /\ UNCHANGED <<streak, calm, flawed>>
    BY <1>5 DEF Reset, Becomes, history, IInv, Numbers, States
  <2> QED BY <2>1 DEF IInv, Numbers, ProbesCount, ResidenceCounts, FlawedIsOpen,
                      Probing, None
<1>6. CASE Tick
  <2>1. /\ residence' \in None..Residence /\ calm' \in 0..Residence
        /\ calm' >= calm
        /\ residence <= calm => residence' <= calm'
    BY <1>6, OlderType DEF Tick, IInv, Numbers, None
  <2>2. /\ UNCHANGED <<state, probes, streak, flawed>>
        /\ cooldown' \in Int
        /\ cooldown' # None => cooldown # None
    BY <1>6 DEF Tick, IInv, Numbers, None
  <2> QED BY <2>1, <2>2 DEF IInv, Numbers, ProbesCount, ResidenceCounts, FlawedIsOpen
<1>7. CASE UNCHANGED vars
  BY <1>7 DEF vars, entry, history, IInv, Numbers, ProbesCount, ResidenceCounts,
              FlawedIsOpen
<1> QED BY <1>1, <1>2, <1>3, <1>4, <1>5, <1>6, <1>7 DEF Next, Good, Bad

\* It holds at the start.
LEMMA Initial == Init => IInv
<1> SUFFICES ASSUME Init PROVE IInv
  OBVIOUS
<1>1. /\ state = "CLOSED_A" /\ cooldown = None /\ probes = 0 /\ residence = None
      /\ streak = 0 /\ calm = Residence /\ flawed = FALSE
  BY DEF Init
<1>2. Numbers
  <2>1. flawed \in BOOLEAN
    BY <1>1
  <2>2. /\ cooldown \in Int /\ residence \in None..Residence /\ calm \in 0..Residence
        /\ probes \in Nat /\ streak \in Nat
    BY <1>1, BreakerAssumption DEF None
  <2>3. state \in States
    BY <1>1 DEF States
  <2> QED BY <2>1, <2>2, <2>3 DEF Numbers
<1> QED BY <1>1, <1>2, BreakerAssumption
        DEF IInv, ProbesCount, ResidenceCounts, FlawedIsOpen

THEOREM Invariance == Spec => []IInv
BY Initial, Step, PTL DEF Spec

\* Whatever calls, probes, halts, resets and pauses follow one another, A is
\* closed again only after a calm of the whole residence and all the probes.
THEOREM PromotionEarned == Spec => PromotionIsEarned
<1>1. IInv /\ [Next]_vars
        => [state # "CLOSED_A" /\ state' = "CLOSED_A"
              => calm >= Residence /\ streak' >= ProbeCount]_vars
  BY Step
<1> QED BY <1>1, Invariance, PTL DEF Spec, PromotionIsEarned

\* Once A has given an invalid output (execute opens at once), A is not run
\* until it is promoted, whatever the limits.
THEOREM FlawedStaysOpen == Spec => []FlawedIsOpen
BY Invariance, PTL DEF IInv
-----------------------------------------------------------------------------
(* The window *)

\* What the attempts' latencies were.
Late(as) == [i \in DOMAIN as |-> as[i].late]

\* The oldest attempt comes first.
AgesFall(as) ==
    \A i, j \in 1..Len(as) : i < j => as[i].age >= as[j].age

\* The latencies that are kept are those of the attempts.
LatenciesMatch == attempts # <<>> => slow = Late(attempts)

\* What the type invariant adds to the numbers above, and the latencies.
WindowInv ==
    /\ tracked \in BOOLEAN
    /\ attempts \in Seq(Attempt)
    /\ slow \in Seq(BOOLEAN)
    /\ cooldown \in None..Cooldown
    /\ streak \in 0..ProbeCount
    /\ AgesFall(attempts)
    /\ LatenciesMatch

\* A nonempty set of natural numbers has a least element.
LEMMA LeastNat ==
    ASSUME NEW S \in SUBSET Nat, S # {}
    PROVE  \E t \in S : \A y \in S : t <= y
<1> DEFINE R == OpToRel(<, Nat)
<1>1. PICK t \in S : \A y \in S : <<y, t>> \notin R
    <2>1. IsWellFoundedOn(R, Nat)
        BY NatLessThanWellFounded
    <2> HIDE DEF R
    <2> QED
        BY <2>1, WFMin
<1>2. \A y \in S : t <= y
    <2> SUFFICES ASSUME NEW y \in S, y < t PROVE FALSE
        OBVIOUS
    <2>1. <<y, t>> \in R
        BY DEF OpToRel
    <2> QED
        BY <1>1, <2>1
<1> QED
    BY <1>2

\* Induction over the natural numbers, as a fact about sets.
LEMMA NatInduct ==
    ASSUME NEW S, 0 \in S, \A n \in Nat : n \in S => n + 1 \in S
    PROVE  Nat \subseteq S
<1> SUFFICES ASSUME Nat \ S # {} PROVE FALSE
    OBVIOUS
<1> DEFINE T == Nat \ S
<1>1. PICK t \in T : \A y \in T : t <= y
    <2>1. T \in SUBSET Nat /\ T # {}
        OBVIOUS
    <2> HIDE DEF T
    <2> QED BY <2>1, LeastNat
<1>2. t \in Nat /\ t # 0
    OBVIOUS
<1>3. t - 1 \in S
    BY <1>1, <1>2
<1> QED
    BY <1>2, <1>3

IsWindowUpTo(as, n, f) ==
    /\ DOMAIN f = 0..n
    /\ f[0] = <<>>
    /\ \A i \in 1..n : f[i] = Prune(f[i - 1], as[i])

\* The recursion of Recent has a solution, which it therefore computes.
LEMMA RecentComputed ==
    ASSUME NEW as, Len(as) \in Nat
    PROVE  \E f : IsWindowUpTo(as, Len(as), f) /\ Recent(as) = f[Len(as)]
<1> DEFINE L == Len(as)
           Body(g) == [n \in 0..L |-> IF n = 0 THEN <<>> ELSE Prune(g[n - 1], as[n])]
           S == {n \in Nat : \E f : IsWindowUpTo(as, n, f)}
           k == CHOOSE g : g = Body(g)
<1>1. Recent(as) = k[L]
  BY DEF Recent
<1>2. L \in Nat
  OBVIOUS
<1> HIDE DEF L
<1>3. 0 \in S
  <2>1. IsWindowUpTo(as, 0, [i \in 0..0 |-> <<>>])
    BY DEF IsWindowUpTo
  <2> QED BY <2>1
<1>4. ASSUME NEW n \in Nat, n \in S PROVE n + 1 \in S
  <2>1. PICK f : IsWindowUpTo(as, n, f)
    BY <1>4
  <2> DEFINE g == [i \in 0..n + 1 |-> IF i <= n THEN f[i] ELSE Prune(f[n], as[n + 1])]
  <2>2. DOMAIN g = 0..n + 1 /\ g[0] = <<>>
    BY <2>1 DEF IsWindowUpTo
  <2>3. ASSUME NEW i \in 1..n + 1
        PROVE  g[i] = Prune(g[i - 1], as[i])
    <3>1. CASE i \in 1..n
      <4>1. g[i] = f[i] /\ g[i - 1] = f[i - 1]
        BY <3>1
      <4> QED BY <2>1, <3>1, <4>1 DEF IsWindowUpTo
    <3>2. CASE i = n + 1
      <4>1. i \in 0..n + 1 /\ ~(i <= n) /\ i - 1 \in 0..n + 1 /\ i - 1 <= n /\ i - 1 = n
        BY <3>2
      <4>2. g[i] = Prune(f[n], as[n + 1])
        BY <4>1
      <4>3. g[i - 1] = f[n]
        BY <4>1
      <4> QED BY <3>2, <4>2, <4>3
    <3> QED BY <3>1, <3>2
  <2> HIDE DEF g
  <2>4. IsWindowUpTo(as, n + 1, g)
    BY <2>2, <2>3 DEF IsWindowUpTo
  <2>5. \E q : IsWindowUpTo(as, n + 1, q)
    BY <2>4
  <2>6. n + 1 \in Nat
    OBVIOUS
  <2> QED BY <2>5, <2>6
<1>5. PICK f : IsWindowUpTo(as, L, f)
  <2>1. Nat \subseteq S
    <3> HIDE DEF S
    <3> QED BY <1>3, <1>4, NatInduct
  <2> QED BY <1>2, <2>1
<1>6. \E g : g = Body(g)
  <2> DEFINE h == [n \in 0..L |-> f[n]]
             K == Body(h)
  <2>1. ASSUME NEW n \in 0..L PROVE h[n] = K[n]
    <3>1. CASE n = 0
      BY <1>5, <3>1 DEF IsWindowUpTo
    <3>2. CASE n \in 1..L
      <4>1. n - 1 \in 0..L /\ n # 0
        BY <1>2, <3>2
      <4>2. K[n] = Prune(f[n - 1], as[n])
        BY <4>1
      <4> QED BY <1>5, <3>2, <4>2 DEF IsWindowUpTo
    <3>3. n = 0 \/ n \in 1..L
      BY <1>2
    <3> HIDE DEF h, K
    <3> QED BY <3>1, <3>2, <3>3
  <2>2. K = [n \in 0..L |-> K[n]]
    OBVIOUS
  <2> HIDE DEF K
  <2>3. h = [n \in 0..L |-> h[n]]
    OBVIOUS
  <2> HIDE DEF h
  <2>4. h = K
    BY <2>1, <2>2, <2>3
  <2> QED BY <2>4 DEF K
<1>7. k = Body(k)
  <2> HIDE DEF Body
  <2> QED BY <1>6
<1> HIDE DEF k
<1>8. IsWindowUpTo(as, L, k)
  <2>1. DOMAIN k = 0..L /\ k[0] = <<>>
    BY <1>2, <1>7
  <2>2. ASSUME NEW i \in 1..L PROVE k[i] = Prune(k[i - 1], as[i])
    BY <1>2, <1>7
  <2> QED BY <2>1, <2>2 DEF IsWindowUpTo
<1> QED BY <1>1, <1>8 DEF L

\* What a sequence of attempts is made of.
LEMMA AttemptsType ==
    ASSUME NEW as \in Seq(Attempt)
    PROVE  /\ Len(as) \in Nat /\ DOMAIN as = 1..Len(as)
           /\ \A i \in 1..Len(as) : as[i] \in Attempt
           /\ \A i \in 1..Len(as) : as[i].age \in Nat /\ as[i].late \in BOOLEAN
<1>1. Len(as) \in Nat /\ DOMAIN as = 1..Len(as)
  BY LenProperties
<1>2. ASSUME NEW i \in 1..Len(as) PROVE as[i] \in Attempt
  BY ElementOfSeq
<1>3. ASSUME NEW a \in Attempt PROVE a.age \in Nat /\ a.late \in BOOLEAN
  <2>1. a.age \in 0..Window /\ a.late \in BOOLEAN
    BY DEF Attempt
  <2>2. a.age \in Nat
    BY <2>1, BreakerAssumption
  <2> QED BY <2>1, <2>2
<1> QED BY <1>1, <1>2, <1>3

\* Numbers up to L that hold every number above one of theirs are an end of 1..L.
LEMMA UpperPart ==
    ASSUME NEW L \in Nat, NEW R \in SUBSET (1..L),
           \A i \in R : \A j \in 1..L : i < j => j \in R
    PROVE  \E m \in 1..L + 1 : R = m..L
<1> DEFINE S == R \cup {L + 1}
<1>1. S \in SUBSET Nat /\ S # {}
  OBVIOUS
<1>2. PICK m \in S : \A y \in S : m <= y
  <2> HIDE DEF S
  <2> QED BY <1>1, LeastNat
<1>3. m \in 1..L + 1
  OBVIOUS
<1>4. ASSUME NEW i \in R PROVE i \in m..L
  <2>1. m <= i
    BY <1>2
  <2> QED BY <1>3, <2>1
<1>5. ASSUME NEW i \in m..L PROVE i \in R
  <2>1. m \in R /\ i \in 1..L
    BY <1>3
  <2>2. m < i \/ m = i
    BY <1>3
  <2> QED BY <2>1, <2>2
<1> QED BY <1>3, <1>4, <1>5

\* Induction up to a bound.
LEMMA BoundedInduct ==
    ASSUME NEW L \in Nat, NEW E, 0 \in E,
           \A k \in 1..L : k - 1 \in E => k \in E
    PROVE  L \in E
<1> DEFINE T == {i \in Nat : i <= L => i \in E}
<1>1. 0 \in T
  OBVIOUS
<1>2. ASSUME NEW n \in Nat, n \in T PROVE n + 1 \in T
  <2> SUFFICES ASSUME n + 1 <= L PROVE n + 1 \in E
    OBVIOUS
  <2>1. n + 1 \in 1..L /\ (n + 1) - 1 = n /\ n \in E
    BY <1>2
  <2> QED BY <2>1
<1>3. Nat \subseteq T
  <2> HIDE DEF T
  <2> QED BY <1>1, <1>2, NatInduct
<1> QED BY <1>3

\* One more attempt of a sub-sequence.
LEMMA SubSeqGrows ==
    ASSUME NEW L \in Nat, NEW as \in Seq(Attempt), Len(as) = L,
           NEW m \in 1..L, NEW k \in 1..L, k >= m
    PROVE  Append(SubSeq(as, m, k - 1), as[k]) = SubSeq(as, m, k)
<1>1. m \in Int /\ k \in m..L /\ k - 1 \in Int /\ \A i \in m..k - 1 : i \in 1..L
  OBVIOUS
<1>2. \A i \in 1..L : as[i] \in Attempt
  BY AttemptsType
<1>3. SubSeq(as, m, k) = SubSeq(as, m, k - 1) \o << as[k] >>
  BY <1>1, SubSeqRecursiveSecond
<1>4. SubSeq(as, m, k - 1) \in Seq(Attempt)
  <2>1. \A i \in m..k - 1 : as[i] \in Attempt
    BY <1>1, <1>2
  <2> QED BY <1>1, <2>1, SubSeqProperties
<1>5. as[k] \in Attempt
  BY <1>2
<1> QED BY <1>3, <1>4, <1>5, AppendIsConcat

\* The window is an end of the attempts.
LEMMA RecentWindow ==
    ASSUME NEW L \in Nat, NEW as \in Seq(Attempt), Len(as) = L, AgesFall(as)
    PROVE  \E m \in 1..L + 1 : Recent(as) = SubSeq(as, m, L)
<1> DEFINE recent(i) == as[i].age < Window
           R == {i \in 1..L : recent(i)}
<1>1. PICK f : IsWindowUpTo(as, L, f) /\ Recent(as) = f[L]
  <2>1. Len(as) \in Nat
    OBVIOUS
  <2> QED BY <2>1, RecentComputed
<1>2. f[0] = <<>> /\ \A k \in 1..L : f[k] = Prune(f[k - 1], as[k])
  BY <1>1 DEF IsWindowUpTo
<1>3. ASSUME NEW i \in 1..L, NEW j \in 1..L, recent(i), i < j PROVE recent(j)
  <2>1. as[i].age \in Nat /\ as[j].age \in Nat /\ Window \in Nat
    BY AttemptsType, BreakerAssumption
  <2>2. as[i].age >= as[j].age
    BY <1>3 DEF AgesFall
  <2>3. \A x \in Nat, y \in Nat : x < Window /\ x >= y => y < Window
    BY <2>1
  <2> QED BY <1>3, <2>1, <2>2, <2>3
<1>4. \A k \in 1..L : f[k] = IF recent(k) THEN Append(f[k - 1], as[k]) ELSE f[k - 1]
  BY <1>2 DEF Prune
<1> HIDE DEF recent
<1>5. PICK m \in 1..L + 1 : R = m..L
  BY <1>3, UpperPart
<1>6. \A k \in 1..L : recent(k) <=> k >= m
  BY <1>5
<1>7. ASSUME NEW k \in 0..L, k < m PROVE SubSeq(as, m, k) = <<>>
  <2>1. m \in Int /\ k \in Int
    OBVIOUS
  <2> QED BY <1>7, <2>1, SubSeqEmpty
<1> DEFINE E == {k \in 0..L : f[k] = SubSeq(as, m, k)}
<1>8. 0 \in E
  <2>1. 0 \in 0..L /\ 0 < m
    OBVIOUS
  <2> QED BY <1>2, <1>7, <2>1
<1>9. ASSUME NEW k \in 1..L, k - 1 \in E PROVE k \in E
  <2>1. f[k - 1] = SubSeq(as, m, k - 1)
    BY <1>9
  <2>2. f[k] = SubSeq(as, m, k)
    <3>1. CASE k >= m
      <4>1. m \in 1..L
        BY <3>1
      <4>2. Append(SubSeq(as, m, k - 1), as[k]) = SubSeq(as, m, k)
        BY <3>1, <4>1, SubSeqGrows
      <4> QED BY <1>4, <1>6, <2>1, <3>1, <4>2
    <3>2. CASE k < m
      <4>1. k \in 0..L /\ k - 1 \in 0..L /\ k - 1 < m /\ ~(k >= m)
        BY <3>2
      <4>2. SubSeq(as, m, k) = <<>> /\ SubSeq(as, m, k - 1) = <<>>
        BY <1>7, <3>2, <4>1
      <4> QED BY <1>4, <1>6, <2>1, <4>1, <4>2
    <3>3. k >= m \/ k < m
      OBVIOUS
    <3> QED BY <3>1, <3>2, <3>3
  <2>3. k \in 0..L
    OBVIOUS
  <2> QED BY <2>2, <2>3
<1>10. L \in E
  <2> HIDE DEF E
  <2> QED BY <1>8, <1>9, BoundedInduct
<1> QED BY <1>1, <1>5, <1>10

\* The latencies of attempts are a sequence.
LEMMA LateType ==
    ASSUME NEW as \in Seq(Attempt)
    PROVE  /\ Late(as) \in Seq(BOOLEAN) /\ Len(Late(as)) = Len(as)
           /\ \A i \in 1..Len(as) : Late(as)[i] = as[i].late
<1> DEFINE of(i) == as[i].late
           n == Len(as)
<1>1. DOMAIN as = 1..n /\ n \in Nat /\ \A i \in 1..n : of(i) \in BOOLEAN
  BY AttemptsType
<1>2. Late(as) = [i \in 1..n |-> of(i)]
  BY <1>1 DEF Late
<1> HIDE DEF of, n
<1>3. /\ Late(as) \in Seq(BOOLEAN) /\ Len(Late(as)) = n
      /\ \A i \in 1..n : Late(as)[i] = of(i)
  BY <1>1, <1>2
<1> QED BY <1>3 DEF of, n

\* Pruning keeps the order of the ages and the latencies of the attempts.
LEMMA PrunedWindow ==
    ASSUME WindowInv
    PROVE  /\ Recent(attempts) \in Seq(Attempt)
           /\ AgesFall(Recent(attempts))
           /\ LatenciesOf(Len(Recent(attempts)), slow) \in Seq(BOOLEAN)
           /\ Recent(attempts) # <<>>
                => LatenciesOf(Len(Recent(attempts)), slow) = Late(Recent(attempts))
<1> DEFINE L == Len(attempts)
<1>1. L \in Nat /\ attempts \in Seq(Attempt) /\ slow \in Seq(BOOLEAN)
  BY LenProperties DEF WindowInv
<1>2. PICK m \in 1..L + 1 : Recent(attempts) = SubSeq(attempts, m, L)
  BY <1>1, RecentWindow DEF WindowInv
<1> DEFINE before == SubSeq(attempts, m, L)
<1>3. /\ before \in Seq(Attempt) /\ Len(before) = L - m + 1
      /\ \A i \in 1..L - m + 1 : before[i] = attempts[m + i - 1]
  <2>1. CASE m = L + 1
    <3>1. before = <<>> /\ L - m + 1 = 0
      BY <1>1, <2>1
    <3> QED BY <3>1, EmptySeq
  <2>2. CASE m \in 1..L
    BY <1>1, <2>2, SubSeqProperties
  <2> QED BY <1>1, <1>2, <2>1, <2>2
<1>4. AgesFall(before)
  <2> SUFFICES ASSUME NEW i \in 1..L - m + 1, NEW j \in 1..L - m + 1, i < j
               PROVE  before[i].age >= before[j].age
    BY <1>3 DEF AgesFall
  <2>1. m + i - 1 \in 1..L /\ m + j - 1 \in 1..L /\ m + i - 1 < m + j - 1
    BY <1>1, <1>2
  <2>2. attempts[m + i - 1].age >= attempts[m + j - 1].age
    BY <2>1 DEF WindowInv, AgesFall
  <2> QED BY <1>3, <2>2
<1>5. CASE before = <<>>
  <2>1. Len(before) = 0
    BY <1>5
  <2> QED BY <1>1, <1>2, <1>3, <1>4, <1>5, <2>1 DEF LatenciesOf
<1>6. CASE before # <<>>
  <2>1. m \in 1..L /\ L > 0
    BY <1>1, <1>2, <1>3, <1>6
  <2>2. slow = Late(attempts) /\ Len(slow) = L
    BY <1>1, <2>1, LateType DEF WindowInv, LatenciesMatch
  <2>3. LatenciesOf(Len(before), slow) = SubSeq(slow, m, L)
    <3>1. Len(before) # 0 /\ L - Len(before) + 1 = m
      BY <1>1, <1>3, <2>1
    <3> QED BY <2>2, <3>1 DEF LatenciesOf
  <2>4. /\ SubSeq(slow, m, L) \in Seq(BOOLEAN) /\ Len(SubSeq(slow, m, L)) = L - m + 1
        /\ \A i \in 1..L - m + 1 : SubSeq(slow, m, L)[i] = slow[m + i - 1]
    BY <1>1, <2>1, <2>2, SubSeqProperties
  <2>5. SubSeq(slow, m, L) = Late(before)
    <3>1. Late(before) \in Seq(BOOLEAN) /\ Len(Late(before)) = L - m + 1
          /\ \A i \in 1..L - m + 1 : Late(before)[i] = before[i].late
      BY <1>3, LateType
    <3>2. ASSUME NEW i \in 1..L - m + 1
          PROVE  SubSeq(slow, m, L)[i] = Late(before)[i]
      <4>1. m + i - 1 \in 1..L
        BY <1>1, <2>1
      <4>2. slow[m + i - 1] = attempts[m + i - 1].late
        BY <1>1, <2>2, <4>1, LateType
      <4> QED BY <1>3, <2>4, <3>1, <4>2
    <3> HIDE DEF before
    <3> QED BY <2>4, <3>1, <3>2, SeqEqual
  <2> QED BY <1>2, <1>3, <1>4, <2>3, <2>4, <2>5
<1> QED BY <1>5, <1>6

\* A call adds its attempt and its latency, to an emptied window as to another.
LEMMA CallWindow ==
    ASSUME NEW before \in Seq(Attempt), AgesFall(before),
           NEW kept \in Seq(BOOLEAN), before # <<>> => kept = Late(before),
           NEW new \in Attempt, new.age = 0
    PROVE  LET as == Append(before, new)
               ls == Append(kept, new.late)
           IN  /\ as \in Seq(Attempt) /\ AgesFall(as) /\ as # <<>>
               /\ Len(as) = Len(before) + 1
               /\ ls \in Seq(BOOLEAN)
               /\ before # <<>> => ls = Late(as)
               /\ LatenciesOf(Len(as), ls) = Late(as)
<1> DEFINE as == Append(before, new)
           ls == Append(kept, new.late)
           n == Len(before)
           k == Len(kept)
<1>1. n \in Nat /\ k \in Nat /\ new.late \in BOOLEAN
  BY LenProperties DEF Attempt
<1>2. /\ as \in Seq(Attempt) /\ Len(as) = n + 1 /\ as # <<>> /\ as[n + 1] = new
      /\ \A i \in 1..n : as[i] = before[i]
  BY AppendProperties
<1>3. /\ ls \in Seq(BOOLEAN) /\ Len(ls) = k + 1 /\ ls[k + 1] = new.late
      /\ \A i \in 1..k : ls[i] = kept[i]
  BY <1>1, AppendProperties
<1>4. AgesFall(as)
  <2>0. \A i \in 1..n : before[i].age \in Nat
    <3>1. \A i \in 1..n : before[i] \in Attempt
      BY ElementOfSeq
    <3> QED BY <3>1, BreakerAssumption DEF Attempt
  <2> SUFFICES ASSUME NEW i \in 1..n + 1, NEW j \in 1..n + 1, i < j
               PROVE  as[i].age >= as[j].age
    BY <1>2 DEF AgesFall
  <2>1. i \in 1..n
    BY <1>1
  <2>2. CASE j \in 1..n
    BY <1>2, <2>1, <2>2 DEF AgesFall
  <2>3. CASE j = n + 1
    BY <1>2, <2>0, <2>1, <2>3
  <2> QED BY <1>1, <2>2, <2>3
<1>5. /\ Late(as) \in Seq(BOOLEAN) /\ Len(Late(as)) = n + 1
      /\ \A i \in 1..n + 1 : Late(as)[i] = as[i].late
  BY <1>2, LateType
<1> HIDE DEF as, ls
<1>6. CASE before # <<>>
  <2>1. k = n /\ \A i \in 1..n : kept[i] = before[i].late
    BY <1>6, LateType
  <2>2. ls = Late(as)
    <3>1. ASSUME NEW i \in 1..n + 1 PROVE ls[i] = Late(as)[i]
      <4>1. CASE i \in 1..n
        <5>1. ls[i] = kept[i] /\ kept[i] = before[i].late
          BY <1>3, <2>1, <4>1
        <5>2. as[i] = before[i] /\ Late(as)[i] = as[i].late
          BY <1>2, <1>5, <4>1
        <5> QED BY <5>1, <5>2
      <4>2. CASE i = n + 1
        BY <1>2, <1>3, <1>5, <2>1, <4>2
      <4>3. i \in 1..n \/ i = n + 1
        <5> HIDE DEF n
        <5> QED BY <1>1
      <4> QED BY <4>1, <4>2, <4>3
    <3> HIDE DEF n
    <3> QED BY <1>3, <1>5, <2>1, <3>1, SeqEqual
  <2>3. LatenciesOf(Len(as), ls) = ls
    <3>1. Len(as) # 0 /\ Len(ls) - Len(as) + 1 = 1
      BY <1>1, <1>2, <1>3, <2>1
    <3>2. LatenciesOf(Len(as), ls) = SubSeq(ls, 1, Len(ls))
      BY <3>1 DEF LatenciesOf
    <3> QED BY <1>3, <3>2, SubSeqFull
  <2> QED BY <1>2, <1>3, <1>4, <2>2, <2>3 DEF as, ls
<1>7. CASE before = <<>>
  <2>1. n = 0 /\ Len(as) = 1
    BY <1>2, <1>7
  <2> DEFINE last == SubSeq(ls, k + 1, k + 1)
  <2>2. LatenciesOf(Len(as), ls) = last
    <3>1. Len(ls) - Len(as) + 1 = k + 1
      BY <1>1, <1>3, <2>1
    <3> QED BY <1>3, <2>1, <3>1 DEF LatenciesOf
  <2>3. last \in Seq(BOOLEAN) /\ Len(last) = 1 /\ last[1] = ls[k + 1]
    <3>1. k + 1 \in 1..Len(ls)
      BY <1>1, <1>3
    <3>2. /\ last \in Seq(BOOLEAN)
          /\ Len(last) = (k + 1) - (k + 1) + 1
          /\ \A i \in 1..(k + 1) - (k + 1) + 1 : last[i] = ls[(k + 1) + i - 1]
      BY <1>1, <1>3, <3>1, SubSeqProperties
    <3> QED BY <1>1, <3>2
  <2>4. last = Late(as)
    <3>1. Len(Late(as)) = 1 /\ Late(as)[1] = as[1].late /\ as[1] = new
      <4>1. 1 \in 1..n + 1 /\ n + 1 = 1
        BY <2>1
      <4>2. Late(as)[1] = as[1].late
        BY <1>5, <4>1
      <4> QED BY <1>2, <1>5, <4>1, <4>2
    <3>2. last[1] = new.late
      BY <1>3, <2>3
    <3> HIDE DEF last
    <3>3. ASSUME NEW i \in 1..Len(last) PROVE last[i] = Late(as)[i]
      <4>1. i = 1
        BY <2>3
      <4> QED BY <3>1, <3>2, <4>1
    <3>4. last \in Seq(BOOLEAN) /\ Late(as) \in Seq(BOOLEAN) /\ Len(last) = Len(Late(as))
      BY <1>5, <2>3, <3>1
    <3> QED BY <3>3, <3>4, SeqEqual
  <2> QED BY <1>2, <1>3, <1>4, <1>7, <2>2, <2>4 DEF as, ls
<1> QED BY <1>6, <1>7

\* The cooldowns that transitions leave.
LEMMA SucceedCooldown ==
    ASSUME NEW as, NEW ls, Succeed(as, ls)
    PROVE  cooldown' \in {cooldown, None, Cooldown}
BY DEF Succeed, AdvanceProbe, Becomes

LEMMA FailCooldown ==
    ASSUME NEW kind, NEW as, Fail(kind, as)
    PROVE  cooldown' \in {cooldown, Cooldown}
BY DEF Fail, Open, Becomes

\* Every operation keeps the window's type, its order and its latencies.
LEMMA WindowStep ==
    ASSUME IInv, WindowInv, [Next]_vars
    PROVE  WindowInv'
<1> USE BreakerAssumption
<1>1. /\ tracked \in BOOLEAN /\ attempts \in Seq(Attempt) /\ slow \in Seq(BOOLEAN)
      /\ cooldown \in None..Cooldown /\ None \in Int
      /\ streak \in 0..ProbeCount
      /\ {None, Cooldown, cooldown} \subseteq None..Cooldown
      /\ AtMost(streak + 1, ProbeCount) \in 0..ProbeCount
  BY DEF WindowInv, AtMost, None
<1> DEFINE before == Recent(attempts)
           kept == LatenciesOf(Len(before), slow)
<1>2. /\ before \in Seq(Attempt) /\ kept \in Seq(BOOLEAN) /\ AgesFall(before)
      /\ before # <<>> => kept = Late(before)
  BY PrunedWindow
<1>3. ASSUME Pruned PROVE /\ attempts' \in Seq(Attempt) /\ slow' \in Seq(BOOLEAN)
                          /\ AgesFall(attempts)' /\ LatenciesMatch'
  <2>1. attempts' = before /\ slow' = kept
    BY <1>3 DEF Pruned
  <2> HIDE DEF before, kept
  <2>2. AgesFall(attempts)' /\ Late(attempts)' = Late(before)
    BY <1>2, <2>1 DEF AgesFall, Late
  <2> QED BY <1>2, <2>1, <2>2 DEF LatenciesMatch
<1>4. ASSUME NEW result \in {"ok", "slow", "invalid", "threw"}, Call(result)
      PROVE  WindowInv'
  <2> DEFINE new == [age |-> 0, failed |-> result \in {"invalid", "threw"},
                     late |-> result = "slow"]
             as == Append(before, new)
             ls == Append(kept, result = "slow")
  <2>1. /\ tracked' = TRUE /\ attempts' = as /\ slow' = LatenciesOf(Len(as), ls)
        /\ IF result \in {"ok", "slow"}
           THEN Succeed(as, ls) /\ streak' = AtMost(streak + 1, ProbeCount)
           ELSE Fail(result, as) /\ streak' = 0
    BY <1>4 DEF Call
  <2>2. new \in Attempt /\ new.age = 0 /\ new.late = (result = "slow")
    BY DEF Attempt
  <2>3. ls = Append(kept, new.late)
    OBVIOUS
  <2> HIDE DEF before, kept, new, ls
  <2>4. /\ as \in Seq(Attempt) /\ AgesFall(as) /\ ls \in Seq(BOOLEAN)
        /\ LatenciesOf(Len(as), ls) = Late(as)
    BY <1>2, <2>2, <2>3, CallWindow
  <2> HIDE DEF as
  <2>5. /\ attempts' \in Seq(Attempt) /\ slow' \in Seq(BOOLEAN)
        /\ AgesFall(attempts)' /\ LatenciesMatch'
    <3>1. AgesFall(attempts)' /\ Late(attempts)' = Late(as)
      BY <2>1, <2>4 DEF AgesFall, Late
    <3>2. Late(as) \in Seq(BOOLEAN)
      BY <2>4, LateType
    <3> QED BY <2>1, <2>4, <3>1, <3>2 DEF LatenciesMatch
  <2>6. cooldown' \in None..Cooldown /\ streak' \in 0..ProbeCount
    <3>1. CASE result \in {"ok", "slow"}
      BY <1>1, <2>1, <3>1, SucceedCooldown
    <3>2. CASE result \notin {"ok", "slow"}
      <4>1. cooldown' \in {cooldown, Cooldown} /\ streak' = 0
        BY <2>1, <3>2, FailCooldown
      <4>2. 0 \in 0..ProbeCount
        OBVIOUS
      <4> QED BY <1>1, <4>1, <4>2
    <3> QED BY <3>1, <3>2
  <2>7. tracked' \in BOOLEAN
    BY <2>1
  <2> QED BY <2>5, <2>6, <2>7 DEF WindowInv
<1>5. CASE RecordProbe
  <2>1. /\ tracked' = TRUE /\ Succeed(attempts, slow) /\ Pruned
        /\ streak' = AtMost(streak + 1, ProbeCount)
    BY <1>5 DEF RecordProbe, Pruned
  <2>2. cooldown' \in None..Cooldown
    BY <1>1, <2>1, SucceedCooldown
  <2>3. tracked' \in BOOLEAN
    BY <2>1
  <2> QED BY <1>1, <1>3, <2>1, <2>2, <2>3 DEF WindowInv
<1>6. CASE Look
  <2>1. tracked' = TRUE /\ Pruned /\ UNCHANGED <<cooldown, streak>>
    BY <1>6 DEF Look, history
  <2>2. tracked' \in BOOLEAN
    BY <2>1
  <2> QED BY <1>1, <1>3, <2>1, <2>2 DEF WindowInv
<1>7. CASE ManualHalt
  <2>1. Pruned /\ cooldown' = None /\ UNCHANGED <<tracked, streak>>
    BY <1>7 DEF ManualHalt, Becomes, history
  <2> QED BY <1>1, <1>3, <2>1 DEF WindowInv
<1>8. CASE Reset
  <2>1. tracked' = TRUE /\ Pruned /\ cooldown' = None /\ UNCHANGED streak
    BY <1>8 DEF Reset, Becomes, history
  <2>2. tracked' \in BOOLEAN
    BY <2>1
  <2> QED BY <1>1, <1>3, <2>1, <2>2 DEF WindowInv
<1>9. CASE Tick
  <2>1. /\ attempts' = [i \in DOMAIN attempts |->
                         [attempts[i] EXCEPT !.age = Older(attempts[i].age, Window)]]
        /\ UNCHANGED <<tracked, slow, streak>>
        /\ cooldown' \in None..Cooldown
    BY <1>1, <1>9 DEF Tick, None
  <2>2. DOMAIN attempts = 1..Len(attempts) /\ Len(attempts) \in Nat
    BY <1>1
  <2>3. ASSUME NEW a \in Attempt
        PROVE  /\ [a EXCEPT !.age = Older(a.age, Window)] \in Attempt
               /\ [a EXCEPT !.age = Older(a.age, Window)].age = Older(a.age, Window)
               /\ [a EXCEPT !.age = Older(a.age, Window)].late = a.late
    <3>1. Older(a.age, Window) \in 0..Window
      BY DEF Attempt, Older, None
    <3> QED BY <3>1 DEF Attempt
  <2>4. \A i \in 1..Len(attempts) : attempts[i] \in Attempt
    BY <1>1
  <2> DEFINE aged(i) == [attempts[i] EXCEPT !.age = Older(attempts[i].age, Window)]
  <2>5. /\ attempts' \in Seq(Attempt) /\ Len(attempts') = Len(attempts)
        /\ \A i \in 1..Len(attempts) : attempts'[i] = aged(i)
    <3>1. \A i \in 1..Len(attempts) : aged(i) \in Attempt
      BY <2>3, <2>4
    <3>2. attempts' = [i \in 1..Len(attempts) |-> aged(i)]
      BY <2>1, <2>2
    <3> HIDE DEF aged
    <3> QED BY <2>2, <3>1, <3>2
  <2>6. \A i \in 1..Len(attempts) :
          /\ attempts'[i].age = Older(attempts[i].age, Window)
          /\ attempts'[i].late = attempts[i].late
    BY <2>3, <2>4, <2>5
  <2> HIDE DEF aged
  <2>7. AgesFall(attempts)'
    <3>1. ASSUME NEW x \in 0..Window, NEW y \in 0..Window, x >= y
          PROVE  Older(x, Window) >= Older(y, Window)
      BY <3>1 DEF Older, None
    <3>2. \A i \in 1..Len(attempts) : attempts[i].age \in 0..Window
      BY <2>4 DEF Attempt
    <3>3. ASSUME NEW i \in 1..Len(attempts), NEW j \in 1..Len(attempts), i < j
          PROVE  attempts'[i].age >= attempts'[j].age
      <4>1. attempts[i].age >= attempts[j].age
        BY <3>3 DEF WindowInv, AgesFall
      <4> QED BY <2>6, <3>1, <3>2, <4>1
    <3> QED BY <2>5, <3>3 DEF AgesFall
  <2>8. LatenciesMatch'
    <3>1. DOMAIN attempts' = DOMAIN attempts
      BY <2>1
    <3>2. Late(attempts)' = Late(attempts)
      BY <2>2, <2>6, <3>1 DEF Late
    <3>3. attempts' # <<>> => attempts # <<>>
      BY <1>1, <2>5
    <3> QED BY <2>1, <3>2, <3>3 DEF WindowInv, LatenciesMatch
  <2> QED BY <1>1, <2>1, <2>5, <2>7, <2>8 DEF WindowInv
<1>10. CASE UNCHANGED vars
  BY <1>10 DEF vars, entry, history, WindowInv, LatenciesMatch, AgesFall, Late
<1> QED BY <1>4, <1>5, <1>6, <1>7, <1>8, <1>9, <1>10 DEF Next, Good, Bad

LEMMA WindowInvariance == Spec => [](IInv /\ WindowInv)
<1>1. Init => WindowInv
  <2> SUFFICES ASSUME Init PROVE WindowInv
    OBVIOUS
  <2>1. /\ tracked = FALSE /\ attempts = <<>> /\ slow = <<>> /\ cooldown = None
        /\ streak = 0
    BY DEF Init
  <2>2. tracked \in BOOLEAN
    BY <2>1
  <2>3. attempts \in Seq(Attempt) /\ slow \in Seq(BOOLEAN) /\ AgesFall(attempts)
    BY <2>1 DEF AgesFall
  <2>4. cooldown \in None..Cooldown /\ streak \in 0..ProbeCount
    BY <2>1, BreakerAssumption DEF None
  <2> QED BY <2>1, <2>2, <2>3, <2>4 DEF WindowInv, LatenciesMatch
<1> QED BY <1>1, Initial, Step, WindowStep, PTL DEF Spec

\* The entry of a subsystem keeps its type: its window, its latencies, and its
\* numbers within their limits.
THEOREM TypeCorrect == Spec => []TypeOK
<1>1. IInv /\ WindowInv => TypeOK
  BY BreakerAssumption DEF IInv, Numbers, ProbesCount, WindowInv, TypeOK
<1> QED BY <1>1, WindowInvariance, PTL

\* A success that promotes went by what it was given.
LEMMA PromotedBy ==
    ASSUME NEW as, NEW ls, Succeed(as, ls), Promotes
    PROVE  CanPromote(as, ls)
BY DEF Succeed, AdvanceProbe, Becomes, Promotes, MayProbe, Probing

\* Nothing else promotes.
LEMMA OnlySuccessPromotes ==
    ASSUME [Next]_vars, Promotes
    PROVE  RecordProbe \/ Call("ok") \/ Call("slow")
<1>1. ASSUME NEW kind, NEW as, Fail(kind, as) PROVE FALSE
  BY <1>1 DEF Fail, Open, Becomes, Promotes
<1>2. ~Call("invalid") /\ ~Call("threw")
  BY <1>1 DEF Call
<1>3. ~Look /\ ~ManualHalt /\ ~Reset /\ ~Tick /\ ~UNCHANGED vars
  BY DEF Look, ManualHalt, Reset, Tick, vars, Becomes, Promotes
<1> QED BY <1>2, <1>3 DEF Next, Good, Bad

\* For every window, limit and order of calls, probes and pauses, and however
\* attempts slide out of the window: a promotion is decided on the failures and
\* latencies of the attempts it judges, unless the window had emptied before it
\* (canPromote over what pruneWindow keeps).
THEOREM PromotionJudgesWindow == Spec => PromotionIsOnWindow
<1>1. ASSUME WindowInv, [Next]_vars, Promotes, ~Emptied PROVE Allows(Judged)
  <2>1. CASE RecordProbe
    <3>1. attempts # <<>> /\ Judged = attempts
      BY <1>1, <2>1 DEF Emptied, Judged
    <3>2. CanPromote(attempts, slow)
      BY <1>1, <2>1, PromotedBy DEF RecordProbe
    <3>3. slow = Late(attempts)
      BY <1>1, <3>1 DEF WindowInv, LatenciesMatch
    <3> QED BY <3>1, <3>2, <3>3 DEF Allows, Late
  <2>2. CASE ~RecordProbe
    <3>1. PICK result \in {"ok", "slow"} : Call(result)
      BY <1>1, <2>2, OnlySuccessPromotes
    <3> DEFINE before == Recent(attempts)
               kept == LatenciesOf(Len(before), slow)
               new == [age |-> 0, failed |-> result \in {"invalid", "threw"},
                       late |-> result = "slow"]
               as == Append(before, new)
               ls == Append(kept, result = "slow")
    <3>2. attempts' = as /\ Succeed(as, ls)
      BY <3>1 DEF Call
    <3>3. /\ before \in Seq(Attempt) /\ kept \in Seq(BOOLEAN) /\ AgesFall(before)
          /\ before # <<>> => kept = Late(before)
      BY <1>1, PrunedWindow
    <3>4. new \in Attempt /\ new.age = 0 /\ new.late = (result = "slow")
      BY BreakerAssumption DEF Attempt
    <3>5. ls = Append(kept, new.late)
      OBVIOUS
    <3> HIDE DEF before, kept, new, ls
    <3>6. Len(as) = Len(before) + 1 /\ (before # <<>> => ls = Late(as))
      BY <3>3, <3>4, <3>5, CallWindow
    <3>7. Judged = attempts' /\ Len(attempts') # 1
      BY <1>1, <2>2 DEF Judged, Emptied
    <3>8. before # <<>>
      <4> SUFFICES ASSUME before = <<>> PROVE FALSE
        OBVIOUS
      <4>1. Len(before) = 0
        OBVIOUS
      <4> QED BY <3>2, <3>6, <3>7, <4>1
    <3>9. CanPromote(as, Late(as))
      BY <1>1, <3>2, <3>6, <3>8, PromotedBy
    <3> HIDE DEF as
    <3> QED BY <3>2, <3>7, <3>9 DEF Allows, Late
  <2> QED BY <2>1, <2>2
<1>2. WindowInv /\ [Next]_vars => [Promotes /\ ~Emptied => Allows(Judged)]_vars
  BY <1>1
<1> QED BY <1>2, WindowInvariance, PTL DEF Spec, PromotionIsOnWindow
=============================================================================
