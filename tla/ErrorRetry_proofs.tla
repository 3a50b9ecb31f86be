--------------------------- MODULE ErrorRetry_proofs ---------------------------
(***************************************************************************)
(* Proofs about ErrorRetry, for every team, every configuration and every  *)
(* set of texts.                                                           *)
(*                                                                         *)
(* The cap of a session and the dedup flag are inductive with the types.   *)
(* The breaker needs to know how many handlers are in their await: each of *)
(* them has counted its error, or was overtaken by a reset.  That the      *)
(* retries come to an end rests on two measures that every step without    *)
(* the user lowers, unless it sends a resume nudge.                        *)
(***************************************************************************)
EXTENDS ErrorRetry, FiniteSetTheorems, TLAPS

\* What the session's cap rests on: the counter it reads misses no nudge.
SentIsCounted ==
    sessionMax > 0 => sent <= session /\ session <= sessionMax

Deciding == {a \in Agents : phase[a] \in Categories}

\* What the breaker rests on: a nudge was sent by a handler that counted its
\* error, or by one of those in their await when the count was reset.
BurstIsCounted ==
    consecutive > MaxConsecutive
    \/ burst + Cardinality(Deciding) <= consecutive + Cardinality(Agents)

IInv == /\ TypeOK
        /\ SentIsCounted
        /\ PendingIsQueued
        /\ BurstIsCounted /\ BreakerHolds

-----------------------------------------------------------------------------
\* The limits and backoffs are numbers.
LEMMA Numbers ==
    /\ ErrorLimit \in Nat /\ ErrorLimit >= MaxConsecutive
    /\ Cardinality(Agents) \in Nat
    /\ \A c : CategoryMax(c) \in Nat
    /\ \A n : Backoff(n) \in Nat
<1>1. ErrorLimit \in Nat /\ ErrorLimit >= MaxConsecutive
  BY RetryAssumption DEF ErrorLimit
<1>2. Cardinality(Agents) \in Nat
  BY RetryAssumption, FS_CardinalityType
<1>3. \A c : CategoryMax(c) \in Nat
  BY RetryAssumption DEF CategoryMax
<1>4. ASSUME NEW n PROVE Backoff(n) \in Nat
  <2>1. Base \in Nat /\ 2 * Base \in Nat /\ 4 * Base \in Nat /\ 6 * Base \in Nat
    BY RetryAssumption
  <2> QED BY <2>1 DEF Backoff
<1> QED BY <1>1, <1>2, <1>3, <1>4

\* A bounded count grows by one at most, and stays above its limit.
LEMMA Bumped ==
    ASSUME NEW n \in Nat, NEW limit \in Nat
    PROVE  /\ Bump(n, limit) \in Nat
           /\ n <= Bump(n, limit) /\ Bump(n, limit) <= n + 1
           /\ n <= limit => Bump(n, limit) = n + 1
BY DEF Bump

\* The handlers in their await are some of the agents.
LEMMA DecidingType ==
    /\ IsFiniteSet(Deciding)
    /\ Cardinality(Deciding) \in Nat
    /\ Cardinality(Deciding) <= Cardinality(Agents)
<1>1. IsFiniteSet(Agents) /\ Deciding \subseteq Agents
  BY RetryAssumption DEF Deciding
<1> QED BY <1>1, FS_Subset, FS_CardinalityType

\* Entering the await adds one handler to them.
LEMMA Enters ==
    ASSUME TypeOK, NEW a \in Agents, NEW c \in Categories,
           phase[a] \notin Categories, phase' = [phase EXCEPT ![a] = c]
    PROVE  Cardinality(Deciding') = Cardinality(Deciding) + 1
<1>1. Deciding' = Deciding \cup {a} /\ a \notin Deciding
  BY DEF Deciding, TypeOK
<1> QED BY <1>1, DecidingType, FS_AddElement

\* Leaving it removes one.
LEMMA Leaves ==
    ASSUME TypeOK, NEW a \in Agents,
           phase[a] \in Categories, phase' = [phase EXCEPT ![a] = "ended"]
    PROVE  Cardinality(Deciding') = Cardinality(Deciding) - 1
<1>1. Deciding' = Deciding \ {a} /\ a \in Deciding
  BY DEF Deciding, TypeOK, Categories
<1> QED BY <1>1, DecidingType, FS_RemoveElement

\* Any other change of phase leaves them as they are.
LEMMA StaysOut ==
    ASSUME TypeOK, NEW a \in Agents, NEW p, p \notin Categories,
           phase[a] \notin Categories, phase' = [phase EXCEPT ![a] = p]
    PROVE  Deciding' = Deciding
BY DEF Deciding, TypeOK
-----------------------------------------------------------------------------
(* The types *)

LEMMA TrackType ==
    ASSUME TypeOK, NEW o \in Outcome, Track(o)
    PROVE  lastText' \in Reasons /\ repeats' \in Nat
<1>1. CASE o.kind \notin {"transient", "poisoned"}
  BY <1>1 DEF Track, Reasons
<1>2. CASE o.kind \in {"transient", "poisoned"} /\ o.text = NoText
  BY <1>2 DEF Track, tracker, TypeOK
<1>3. CASE o.kind \in {"transient", "poisoned"} /\ o.text # NoText
  <2>1. /\ lastText' = o.text
        /\ repeats' = IF o.text = lastText THEN Bump(repeats, PoisonRepeat) ELSE 1
    BY <1>3 DEF Track
  <2>2. o.text \in Reasons
    BY RetryAssumption DEF Outcome, Reasons
  <2>3. Bump(repeats, PoisonRepeat) \in Nat
    BY Bumped, RetryAssumption DEF TypeOK
  <2> QED BY <2>1, <2>2, <2>3
<1> QED BY <1>1, <1>2, <1>3

\* Whatever is sent, the queue stays a number and does not shrink.
LEMMA SendsType ==
    ASSUME queue \in Nat, NEW n \in Nat, Sends(n)
    PROVE  queue' \in Nat /\ queue' >= queue
BY DEF Sends

\* The three ways turn_end leaves the counters, and the hard stop.
LEMMA TurnEndStep ==
    ASSUME IInv, NEW a \in Agents, TurnEnd(a)
    PROVE  IInv'
<1> USE RetryAssumption, Numbers, DecidingType
<1>0. phase[a] = "turn" /\ phase[a] \notin Categories
  BY DEF TurnEnd, Categories
<1>1. UNCHANGED <<sessionMax, wait, session, gap>>
  BY DEF TurnEnd
<1> PICK o \in Outcome :
         \/ /\ o.kind = "length"
            /\ phase' = [phase EXCEPT ![a] = "ended"]
            /\ lengthStop' = (lengthStop \/ AutoContinue)
            /\ UNCHANGED <<counters, advised, tracker, queue, history>>
         \/ /\ o.kind # "length"
            /\ Track(o) /\ UNCHANGED lengthStop
            /\ \/ /\ Effective(o) \notin Categories \cup {"poisoned"}
                  /\ Settled(a, o.kind)
               \/ Effective(o) = "poisoned" /\ Poisoned(a)
               \/ /\ Effective(o) \in Categories
                  /\ IF HardStop THEN Stop(a) ELSE CountError(a, Effective(o))
  BY DEF TurnEnd
<1>2. ASSUME phase' = [phase EXCEPT ![a] = "ended"] PROVE Deciding' = Deciding
  BY <1>0, <1>2, StaysOut DEF IInv, Categories
<1>3. CASE o.kind = "length"
  <2>1. /\ UNCHANGED <<count, consecutive, pending, advised, lastText, repeats,
                       queue, lost, sent, burst>>
        /\ phase' = [phase EXCEPT ![a] = "ended"]
        /\ lengthStop' \in BOOLEAN
    BY <1>3 DEF counters, tracker, history
  <2> QED BY <1>1, <1>2, <2>1 DEF IInv, TypeOK, SentIsCounted, PendingIsQueued,
                                 BurstIsCounted, BreakerHolds
<1>4. CASE Track(o) /\ UNCHANGED lengthStop /\ Settled(a, o.kind)
  <2>1. lastText' \in Reasons /\ repeats' \in Nat
    BY <1>4, TrackType DEF IInv
  <2>2. Deciding' = Deciding
    BY <1>2, <1>4 DEF Settled
  <2>3. TypeOK'
    BY <1>1, <1>4, <2>1 DEF IInv, TypeOK, Settled
  <2> QED BY <1>1, <1>4, <2>2, <2>3
          DEF IInv, SentIsCounted, PendingIsQueued, BurstIsCounted, BreakerHolds,
              Settled
<1>5. CASE Track(o) /\ UNCHANGED lengthStop /\ Poisoned(a)
  <2>1. lastText' \in Reasons /\ repeats' \in Nat
    BY <1>5, TrackType DEF IInv
  <2>2. Deciding' = Deciding
    BY <1>2, <1>5 DEF Poisoned
  <2>3. queue' \in Nat /\ queue' >= queue
    <3>1. CASE AdvisoryChannel
      BY <1>5, <3>1 DEF Poisoned, IInv, TypeOK
    <3>2. CASE ~AdvisoryChannel
      BY <1>5, <3>2, SendsType, Bumped DEF Poisoned, IInv, TypeOK
    <3> QED BY <3>1, <3>2
  <2>4. consecutive' \in Nat /\ consecutive <= consecutive'
    BY <1>5, Bumped DEF Poisoned, IInv, TypeOK
  <2>5. TypeOK'
    BY <1>1, <1>5, <2>1, <2>3, <2>4 DEF IInv, TypeOK, Poisoned
  <2>6. SentIsCounted' /\ PendingIsQueued' /\ BreakerHolds'
    BY <1>1, <1>5, <2>3 DEF IInv, TypeOK, SentIsCounted, PendingIsQueued,
                           BreakerHolds, Poisoned
  <2>7. BurstIsCounted'
    BY <1>5, <2>2, <2>4 DEF IInv, TypeOK, BurstIsCounted, Poisoned
  <2> QED BY <2>5, <2>6, <2>7 DEF IInv
<1>6. CASE Track(o) /\ UNCHANGED lengthStop /\ Stop(a)
  <2>1. lastText' \in Reasons /\ repeats' \in Nat
    BY <1>6, TrackType DEF IInv
  <2>2. /\ UNCHANGED <<consecutive, pending, advised, queue, lost, sent, burst>>
        /\ count' = 0 /\ phase' = [phase EXCEPT ![a] = "ended"]
    BY <1>6 DEF Stop, history
  <2> QED BY <1>1, <1>2, <2>1, <2>2
          DEF IInv, TypeOK, SentIsCounted, PendingIsQueued, BurstIsCounted,
              BreakerHolds
<1>7. CASE /\ Track(o) /\ UNCHANGED lengthStop /\ Effective(o) \in Categories
           /\ CountError(a, Effective(o))
  <2>1. lastText' \in Reasons /\ repeats' \in Nat
    BY <1>7, TrackType DEF IInv
  <2>2. Cardinality(Deciding') = Cardinality(Deciding) + 1
    BY <1>0, <1>7, Enters DEF CountError, IInv
  <2>3. queue' \in Nat /\ queue' >= queue
    <3>1. CASE Advisable(Effective(o)) /\ ~AdvisoryChannel
      BY <1>7, <3>1, SendsType DEF CountError, IInv, TypeOK
    <3>2. CASE ~(Advisable(Effective(o)) /\ ~AdvisoryChannel)
      BY <1>7, <3>2 DEF CountError, IInv, TypeOK
    <3> QED BY <3>1, <3>2
  <2>4. /\ consecutive' \in Nat
        /\ consecutive <= MaxConsecutive => consecutive' = consecutive + 1
        /\ consecutive <= consecutive'
    BY <1>7, Bumped DEF CountError, IInv, TypeOK
  <2>5. advised' \in BOOLEAN
    BY <1>7 DEF CountError, IInv, TypeOK, Advisable
  <2>6. phase' \in [Agents -> {"idle", "turn", "ended"} \cup Categories]
    BY <1>7 DEF CountError, IInv, TypeOK
  <2>7. TypeOK'
    BY <1>1, <1>7, <2>1, <2>3, <2>4, <2>5, <2>6 DEF IInv, TypeOK, CountError
  <2>8. SentIsCounted' /\ PendingIsQueued' /\ BreakerHolds'
    BY <1>1, <1>7, <2>3 DEF IInv, TypeOK, SentIsCounted, PendingIsQueued,
                           BreakerHolds, CountError
  <2>9. BurstIsCounted'
    <3>1. burst' = burst
      BY <1>7 DEF CountError
    <3> QED BY <2>2, <2>4, <3>1 DEF IInv, TypeOK, BurstIsCounted
  <2> QED BY <2>7, <2>8, <2>9 DEF IInv
<1> QED BY <1>3, <1>4, <1>5, <1>6, <1>7

\* The decision after the await.
LEMMA DecideStep ==
    ASSUME IInv, NEW a \in Agents, Decide(a)
    PROVE  IInv'
<1> USE RetryAssumption, Numbers, DecidingType
<1>1. /\ phase[a] \in Categories
      /\ phase' = [phase EXCEPT ![a] = "ended"]
      /\ UNCHANGED <<sessionMax, consecutive, advised, lastText, repeats,
                     lengthStop, gap>>
  BY DEF Decide, tracker
<1>2. Cardinality(Deciding') = Cardinality(Deciding) - 1
  BY <1>1, Leaves DEF IInv
<1>3. phase' \in [Agents -> {"idle", "turn", "ended"} \cup Categories]
  BY <1>1 DEF IInv, TypeOK
<1>4. CASE NoNudge /\ count' \in {0, count, count + 1}
  <2>1. UNCHANGED <<pending, wait, session, queue, lost, sent, burst>>
    BY <1>4 DEF NoNudge
  <2>2. TypeOK'
    BY <1>1, <1>3, <1>4, <2>1 DEF IInv, TypeOK
  <2>3. SentIsCounted' /\ PendingIsQueued' /\ BreakerHolds'
    BY <1>1, <2>1 DEF IInv, SentIsCounted, PendingIsQueued, BreakerHolds
  <2>4. BurstIsCounted'
    BY <1>1, <1>2, <2>1, <2>2 DEF IInv, TypeOK, BurstIsCounted
  <2> QED BY <2>2, <2>3, <2>4 DEF IInv
<1>5. CASE ~BreakerOpen /\ ~CapReached /\ Nudge(count + 1)
  <2>1. queue' \in Nat /\ queue' >= queue
    BY <1>5, SendsType DEF Nudge, IInv, TypeOK
  <2>2. sent' = Bump(sent, sessionMax) /\ sessionMax \in Nat
    BY <1>5 DEF Nudge, IInv, TypeOK
  <2>3. sent' \in Nat /\ sent' <= sent + 1
    BY <2>2, Bumped DEF IInv, TypeOK
  <2>4. burst' \in Nat /\ burst' <= burst + 1
    BY <1>5, Bumped DEF Nudge, IInv, TypeOK
  <2>5. /\ pending' = TRUE /\ count' = count + 1
        /\ wait' \in Nat
        /\ session' = IF session < sessionMax THEN session + 1 ELSE session
        /\ lost' = (queue' = queue)
    BY <1>5 DEF Nudge
  <2>6. TypeOK'
    BY <1>1, <1>3, <2>1, <2>3, <2>4, <2>5 DEF IInv, TypeOK
  <2>7. SentIsCounted'
    BY <1>1, <1>5, <2>2, <2>3, <2>5 DEF IInv, TypeOK, SentIsCounted, CapReached
  <2>8. PendingIsQueued'
    <3>1. CASE queue' = queue
      <4>1. lost'
        BY <2>5, <3>1, Zenon
      <4> QED BY <4>1 DEF PendingIsQueued
    <3>2. CASE queue' # queue
      BY <2>1, <3>2 DEF PendingIsQueued, IInv, TypeOK
    <3> QED BY <3>1, <3>2
  <2>9. BurstIsCounted' /\ BreakerHolds'
    <3>1. consecutive' = consecutive /\ consecutive <= MaxConsecutive
      BY <1>1, <1>5 DEF BreakerOpen, IInv, TypeOK
    <3>2. Cardinality(Deciding') \in Nat
      BY <1>1, <1>2, Leaves, FS_Subset, FS_CardinalityType DEF Deciding
    <3> QED BY <1>2, <2>4, <3>1, <3>2 DEF IInv, TypeOK, BurstIsCounted, BreakerHolds
  <2> QED BY <2>6, <2>7, <2>8, <2>9 DEF IInv
<1>6. (NoNudge /\ count' \in {0, count, count + 1})
      \/ (~BreakerOpen /\ ~CapReached /\ Nudge(count + 1))
  BY DEF Decide
<1> QED BY <1>4, <1>5, <1>6

LEMMA TurnStartStep ==
    ASSUME IInv, NEW a \in Agents, TurnStart(a), queue' \in Nat, UNCHANGED lost
    PROVE  IInv'
<1> USE RetryAssumption, Numbers, DecidingType
<1>1. Deciding' = Deciding
  BY StaysOut DEF TurnStart, IInv, Categories
<1>2. TypeOK'
  BY DEF TurnStart, tracker, IInv, TypeOK
<1> QED BY <1>1, <1>2 DEF TurnStart, IInv, SentIsCounted, PendingIsQueued,
                         BurstIsCounted, BreakerHolds

\* What a resume nudge does to the gap and the queue.
LEMMA ResumeType ==
    ASSUME TypeOK, Resume
    PROVE  /\ gap' \in 0..NudgeGap /\ gap' > gap
           /\ queue' \in Nat /\ queue' >= queue
<1>1. gap' \in 0..NudgeGap /\ gap' > gap
  BY RetryAssumption DEF Resume, TypeOK
<1>2. queue' = queue \/ Sends(1)
  BY DEF Resume
<1> QED BY <1>1, <1>2, SendsType DEF TypeOK

\* A nudge of agent_end or of a compaction, or none, disturbs no counter.
LEMMA ResumeStep ==
    ASSUME IInv,
           UNCHANGED <<sessionMax, counters, wait, session, advised, tracker,
                       history>>,
           phase' \in [Agents -> {"idle", "turn", "ended"} \cup Categories],
           Deciding' = Deciding, lengthStop' \in BOOLEAN,
           Resume \/ UNCHANGED <<gap, queue>>
    PROVE  IInv'
<1> USE RetryAssumption, Numbers, DecidingType
<1>1. UNCHANGED <<sessionMax, count, consecutive, pending, wait, session,
                  advised, lastText, repeats, lost, sent, burst>>
  BY DEF counters, tracker, history
<1>2. gap' \in 0..NudgeGap /\ queue' \in Nat /\ queue' >= queue
  BY ResumeType DEF IInv, TypeOK
<1>3. TypeOK'
  BY <1>1, <1>2 DEF IInv, TypeOK
<1> QED BY <1>1, <1>2, <1>3 DEF IInv, TypeOK, SentIsCounted, PendingIsQueued,
                               BurstIsCounted, BreakerHolds

\* agent_end, with or without its nudge.
LEMMA AgentEndStep ==
    ASSUME IInv, NEW a \in Agents, AgentEnd(a)
    PROVE  IInv'
<1>1. /\ phase[a] = "ended" /\ phase' = [phase EXCEPT ![a] = "idle"]
      /\ UNCHANGED <<sessionMax, counters, wait, session, advised, tracker,
                     history>>
  BY DEF AgentEnd
<1>2. \/ Resume /\ lengthStop' = FALSE
      \/ UNCHANGED <<lengthStop, gap, queue>>
  BY DEF AgentEnd
<1>3. Deciding' = Deciding
  BY <1>1, StaysOut DEF IInv, Categories
<1>4. /\ phase' \in [Agents -> {"idle", "turn", "ended"} \cup Categories]
      /\ lengthStop' \in BOOLEAN
  BY <1>1, <1>2 DEF IInv, TypeOK
<1> QED BY <1>1, <1>2, <1>3, <1>4, ResumeStep

\* The invariant is inductive.
LEMMA Inductive == IInv /\ [Next]_vars => IInv'
<1> SUFFICES ASSUME IInv, [Next]_vars PROVE IInv'
  OBVIOUS
<1> USE RetryAssumption, Numbers, DecidingType
<1>1. ASSUME NEW a \in Agents, Prompt(a) PROVE IInv'
  BY <1>1, TurnStartStep DEF Prompt, IInv, TypeOK
<1>2. ASSUME NEW a \in Agents, FollowUp(a) PROVE IInv'
  BY <1>2, TurnStartStep DEF FollowUp, IInv, TypeOK
<1>3. ASSUME NEW a \in Agents, TurnEnd(a) PROVE IInv'
  BY <1>3, TurnEndStep
<1>4. ASSUME NEW a \in Agents, Decide(a) PROVE IInv'
  BY <1>4, DecideStep
<1>5. ASSUME NEW a \in Agents, AgentEnd(a) PROVE IInv'
  BY <1>5, AgentEndStep
<1>6. CASE CompactionNudge
  <2>1. /\ UNCHANGED <<sessionMax, counters, wait, session, advised, tracker,
                       history>>
        /\ phase' = phase /\ lengthStop' = lengthStop /\ Resume
    BY <1>6 DEF CompactionNudge
  <2>2. Deciding' = Deciding
    BY <2>1 DEF Deciding
  <2> QED BY <2>1, <2>2, ResumeStep DEF IInv, TypeOK
<1>7. CASE Elapse
  <2>1. UNCHANGED <<sessionMax, phase, count, consecutive, pending, session,
                    advised, lastText, repeats, lengthStop, queue, lost, sent,
                    burst>>
    BY <1>7 DEF Elapse, counters, tracker, history
  <2>2. wait' \in Nat /\ gap' \in 0..NudgeGap
    BY <1>7 DEF Elapse, IInv, TypeOK
  <2>3. Deciding' = Deciding
    BY <2>1 DEF Deciding
  <2> QED BY <2>1, <2>2, <2>3 DEF IInv, TypeOK, SentIsCounted, PendingIsQueued,
                                 BurstIsCounted, BreakerHolds
<1>8. CASE Reset
  <2>1. Deciding' = Deciding
    BY <1>8 DEF Reset, Deciding
  <2>2. TypeOK'
    <3>1. queue' \in Nat
      BY <1>8 DEF Reset, IInv, TypeOK
    <3>2. /\ sessionMax' = sessionMax /\ phase' = phase /\ gap' = gap
          /\ pending' = FALSE /\ advised' = FALSE /\ lost' = FALSE
          /\ lengthStop' = FALSE
      BY <1>8 DEF Reset
    <3>3. /\ count' \in Nat /\ consecutive' \in Nat /\ wait' \in Nat
          /\ session' \in Nat /\ repeats' \in Nat
          /\ sent' \in Nat /\ burst' \in Nat
      BY <1>8 DEF Reset
    <3>4. gap' \in 0..NudgeGap /\ lastText' \in Reasons
      BY <1>8 DEF Reset, Reasons, IInv, TypeOK
    <3> QED BY <3>1, <3>2, <3>3, <3>4 DEF IInv, TypeOK
  <2>3. /\ pending' = FALSE /\ sent' = 0 /\ session' = 0 /\ burst' = 0
        /\ consecutive' = 0
    BY <1>8 DEF Reset
  <2>4. SentIsCounted' /\ PendingIsQueued' /\ BreakerHolds'
    BY <2>2, <2>3 DEF TypeOK, SentIsCounted, PendingIsQueued, BreakerHolds
  <2>5. BurstIsCounted'
    BY <2>1, <2>3 DEF BurstIsCounted
  <2> QED BY <2>2, <2>4, <2>5 DEF IInv
<1>9. CASE UNCHANGED vars
  <2>1. UNCHANGED <<sessionMax, phase, count, consecutive, pending, wait, session,
                    advised, lastText, repeats, lengthStop, gap, queue, lost,
                    sent, burst>>
    BY <1>9 DEF vars, counters, tracker, history
  <2>2. Deciding' = Deciding
    BY <2>1 DEF Deciding
  <2> QED BY <2>1, <2>2 DEF IInv, TypeOK, SentIsCounted, PendingIsQueued,
                           BurstIsCounted, BreakerHolds
<1> QED BY <1>1, <1>2, <1>3, <1>4, <1>5, <1>6, <1>7, <1>8, <1>9 DEF Next, Proceed

\* It holds at the start.
LEMMA Initial == Init => IInv
<1> SUFFICES ASSUME Init PROVE IInv
  OBVIOUS
<1> USE RetryAssumption, Numbers, DecidingType
<1>1. TypeOK
  <2>1. /\ count \in Nat /\ consecutive \in Nat /\ wait \in Nat
        /\ session \in Nat /\ repeats \in Nat /\ queue \in Nat
        /\ sent \in Nat /\ burst \in Nat
    BY DEF Init
  <2>2. gap \in 0..NudgeGap /\ lastText \in Reasons
    BY DEF Init, Reasons
  <2>3. /\ sessionMax \in SessionMaxes
        /\ phase \in [Agents -> {"idle", "turn", "ended"} \cup Categories]
        /\ pending \in BOOLEAN /\ advised \in BOOLEAN
        /\ lengthStop \in BOOLEAN /\ lost \in BOOLEAN
    BY DEF Init
  <2> QED BY <2>1, <2>2, <2>3 DEF TypeOK
<1> QED BY <1>1 DEF Init, IInv, SentIsCounted, PendingIsQueued, BurstIsCounted,
                   BreakerHolds

THEOREM Invariance == Spec => []IInv
BY Initial, Inductive, PTL DEF Spec

\* The counters keep their types.
THEOREM TypeCorrect == Spec => []TypeOK
BY Invariance, PTL DEF IInv

\* With a cap, no session gets more nudges than it, for any number of agents
\* and any interleaving of their handlers.
THEOREM SessionCap == Spec => []SessionCapHolds
<1>1. IInv => SessionCapHolds
  BY RetryAssumption DEF IInv, TypeOK, SentIsCounted, SessionCapHolds
<1> QED BY <1>1, Invariance, PTL

\* The breaker bounds a burst up to one nudge for each agent.
THEOREM BreakerBounds == Spec => []BreakerHolds
BY Invariance, PTL DEF IInv

\* A set dedup flag stands for a queued message.
THEOREM PendingStands == Spec => []PendingIsQueued
BY Invariance, PTL DEF IInv
-----------------------------------------------------------------------------
(* Why the retries end.  Without the user and without a resume nudge a       *)
(* message leads to one turn and a turn to at most one message, so what is   *)
(* under way never grows; what stays as it is has fewer and fewer steps      *)
(* left, because every round counts an error and the breaker opens.  An      *)
(* outcome that resets the breaker sends no retry, so it takes one round out *)
(* of the loop.  Both measures are natural numbers.                          *)

Turning == {a \in Agents : phase[a] = "turn"}

Ended == {a \in Agents : phase[a] = "ended"}

\* The rounds of the loop: a message, its turn or its handler.
Underway == queue + Cardinality(Turning) + Cardinality(Deciding)

ErrorsLeft == IF BreakerOpen THEN 0 ELSE MaxConsecutive + 1 - consecutive

\* Every phase is worth more than the one it leads to, and a handler that may
\* still send is worth a message and the agent_end after it.
Handling == IF BreakerOpen THEN Cardinality(Deciding) ELSE 5 * Cardinality(Deciding)
StepsLeft == 3 * queue + 2 * Cardinality(Turning) + Cardinality(Ended) + Handling
             + 4 * ErrorsLeft

Closer == Underway' < Underway \/ (Underway' = Underway /\ StepsLeft' < StepsLeft)

\* The agents in a turn, and those after one, are some of the agents.
LEMMA TurningType ==
    /\ IsFiniteSet(Turning) /\ Cardinality(Turning) \in Nat
    /\ IsFiniteSet(Ended) /\ Cardinality(Ended) \in Nat
<1>1. IsFiniteSet(Agents) /\ Turning \subseteq Agents /\ Ended \subseteq Agents
  BY RetryAssumption DEF Turning, Ended
<1> QED BY <1>1, FS_Subset, FS_CardinalityType

\* The terms of the measures are natural numbers.
LEMMA Terms ==
    ASSUME TypeOK
    PROVE  /\ queue \in Nat /\ consecutive \in Nat /\ MaxConsecutive \in Nat
           /\ Cardinality(Turning) \in Nat /\ Cardinality(Ended) \in Nat
           /\ Cardinality(Deciding) \in Nat
           /\ Handling \in Nat /\ ErrorsLeft \in Nat
<1>1. /\ queue \in Nat /\ consecutive \in Nat /\ MaxConsecutive \in Nat
      /\ Cardinality(Turning) \in Nat /\ Cardinality(Ended) \in Nat
      /\ Cardinality(Deciding) \in Nat
  BY RetryAssumption, TurningType, DecidingType DEF TypeOK
<1> QED BY <1>1 DEF Handling, ErrorsLeft, BreakerOpen

\* A turn that starts is one turn more, and ends no turn.
LEMMA StartsTurn ==
    ASSUME TypeOK, NEW a \in Agents,
           phase[a] \in {"idle", "ended"}, phase' = [phase EXCEPT ![a] = "turn"]
    PROVE  /\ Cardinality(Turning') = Cardinality(Turning) + 1
           /\ Cardinality(Ended') <= Cardinality(Ended)
           /\ Cardinality(Ended') \in Nat
<1>1. Turning' = Turning \cup {a} /\ a \notin Turning
  BY DEF Turning, TypeOK
<1>2. Ended' \subseteq Ended
  BY DEF Ended, TypeOK
<1> QED BY <1>1, <1>2, TurningType, FS_AddElement, FS_Subset, FS_CardinalityType

\* A turn that ends is one turn less.
LEMMA EndsTurn ==
    ASSUME TypeOK, NEW a \in Agents, NEW p, p # "turn",
           phase[a] = "turn", phase' = [phase EXCEPT ![a] = p]
    PROVE  Cardinality(Turning') = Cardinality(Turning) - 1
<1>1. Turning' = Turning \ {a} /\ a \in Turning
  BY DEF Turning, TypeOK
<1> QED BY <1>1, TurningType, FS_RemoveElement

\* The measures are natural numbers, and just when nothing is queued and every
\* agent is idle no round is under way and no agent_end to come.
LEMMA Measures ==
    ASSUME TypeOK
    PROVE  /\ Underway \in Nat /\ StepsLeft \in Nat
           /\ Quiet <=> Underway = 0 /\ Ended = {}
<1>1. Underway \in Nat /\ StepsLeft \in Nat
  BY Terms DEF Underway, StepsLeft
<1>2. Underway = 0
      <=> queue = 0 /\ Cardinality(Turning) = 0 /\ Cardinality(Deciding) = 0
  <2> DEFINE t == Cardinality(Turning)
             d == Cardinality(Deciding)
  <2>1. t \in Nat /\ d \in Nat /\ queue \in Nat /\ Underway = queue + t + d
    BY Terms DEF Underway
  <2> HIDE DEF t, d
  <2>2. Underway = 0 <=> queue = 0 /\ t = 0 /\ d = 0
    BY <2>1
  <2> QED BY <2>2 DEF t, d
<1>3. Underway = 0 <=> queue = 0 /\ Turning = {} /\ Deciding = {}
  BY <1>2, TurningType, DecidingType, FS_EmptySet
<1>4. Turning = {} /\ Deciding = {} /\ Ended = {}
      <=> \A a \in Agents : phase[a] = "idle"
  BY DEF Turning, Deciding, Ended, Categories, TypeOK
<1> QED BY <1>1, <1>3, <1>4 DEF Quiet

\* Delivering a message takes it from the queue into a turn.
LEMMA FollowUpCloser ==
    ASSUME TypeOK, NEW a \in Agents, FollowUp(a)
    PROVE  Closer
<1>1. /\ phase[a] \in {"idle", "ended"} /\ phase' = [phase EXCEPT ![a] = "turn"]
      /\ queue' = queue - 1 /\ consecutive' = consecutive
  BY DEF FollowUp, TurnStart
<1>2. /\ Cardinality(Turning') = Cardinality(Turning) + 1
      /\ Cardinality(Ended') <= Cardinality(Ended) /\ Cardinality(Ended') \in Nat
  BY <1>1, StartsTurn
<1>3. Deciding' = Deciding
  BY <1>1, StaysOut DEF Categories
<1>4. Handling' = Handling /\ ErrorsLeft' = ErrorsLeft
  BY <1>1, <1>3 DEF Handling, ErrorsLeft, BreakerOpen
<1>5. Underway' = Underway
  BY <1>1, <1>2, <1>3, Terms DEF Underway
<1>6. StepsLeft' < StepsLeft
  BY <1>1, <1>2, <1>4, Terms DEF StepsLeft
<1> QED BY <1>5, <1>6 DEF Closer

\* A turn that ends without a retry has left the loop.
LEMMA OutOfLoop ==
    ASSUME TypeOK, NEW a \in Agents, phase[a] = "turn",
           phase' = [phase EXCEPT ![a] = "ended"], queue' = queue
    PROVE  Closer
<1>1. Cardinality(Turning') = Cardinality(Turning) - 1
  BY EndsTurn
<1>2. Deciding' = Deciding
  BY StaysOut DEF Categories
<1> QED BY <1>1, <1>2, Terms DEF Closer, Underway

\* An error that is counted leaves one less, or meets an open breaker.
LEMMA CountErrorCloser ==
    ASSUME TypeOK, NEW a \in Agents, phase[a] = "turn", AdvisoryChannel,
           NEW c \in Categories, CountError(a, c)
    PROVE  Closer
<1>1. /\ phase' = [phase EXCEPT ![a] = c] /\ queue' = queue
      /\ consecutive' = Bump(consecutive, ErrorLimit)
  BY DEF CountError
<1>2. Cardinality(Turning') = Cardinality(Turning) - 1 /\ Ended' = Ended
  <2>1. Ended' = Ended
    BY <1>1 DEF Ended, Categories, TypeOK
  <2> QED BY <1>1, <2>1, EndsTurn DEF Categories
<1>3. Cardinality(Deciding') = Cardinality(Deciding) + 1
  BY <1>1, Enters DEF Categories
<1>4. Underway' = Underway
  BY <1>1, <1>2, <1>3, Terms DEF Underway
<1>5. /\ consecutive' \in Nat /\ consecutive' >= consecutive
      /\ consecutive <= MaxConsecutive => consecutive' = consecutive + 1
  BY <1>1, Terms, Bumped, Numbers
<1>6. CASE BreakerOpen
  <2>1. BreakerOpen'
    BY <1>5, <1>6, Terms DEF BreakerOpen
  <2>2. ErrorsLeft' = 0 /\ ErrorsLeft = 0
    BY <1>6, <2>1 DEF ErrorsLeft
  <2>3. Handling' = Handling + 1
    BY <1>3, <1>6, <2>1, Terms DEF Handling
  <2>4. StepsLeft' < StepsLeft
    BY <1>1, <1>2, <2>2, <2>3, Terms DEF StepsLeft
  <2> QED BY <1>4, <2>4 DEF Closer
<1>7. CASE ~BreakerOpen
  <2>1. consecutive <= MaxConsecutive /\ consecutive' = consecutive + 1
    BY <1>5, <1>7, Terms DEF BreakerOpen
  <2>2. ErrorsLeft = MaxConsecutive + 1 - consecutive
    BY <1>7 DEF ErrorsLeft
  <2>3. ErrorsLeft' = ErrorsLeft - 1
    <3>1. CASE BreakerOpen'
      <4>1. ErrorsLeft' = 0 /\ consecutive' > MaxConsecutive
        BY <3>1 DEF ErrorsLeft, BreakerOpen
      <4> QED BY <2>1, <2>2, <4>1, Terms
    <3>2. CASE ~BreakerOpen'
      BY <2>1, <2>2, <3>2, Terms DEF ErrorsLeft
    <3> QED BY <3>1, <3>2
  <2>4. Handling' <= Handling + 5 /\ Handling' \in Nat
    BY <1>3, <1>7, Terms DEF Handling
  <2>5. StepsLeft' < StepsLeft
    BY <1>1, <1>2, <2>3, <2>4, Terms DEF StepsLeft
  <2> QED BY <1>4, <2>5 DEF Closer
<1> QED BY <1>6, <1>7

\* However a turn ends, the loop comes closer to its end.
LEMMA TurnEndCloser ==
    ASSUME TypeOK, NEW a \in Agents, AdvisoryChannel, TurnEnd(a)
    PROVE  Closer
<1>1. phase[a] = "turn"
  BY DEF TurnEnd
<1>2. CASE phase' = [phase EXCEPT ![a] = "ended"] /\ queue' = queue
  BY <1>1, <1>2, OutOfLoop
<1>3. ASSUME NEW c \in Categories, CountError(a, c) PROVE Closer
  BY <1>1, <1>3, CountErrorCloser
<1>4. \/ phase' = [phase EXCEPT ![a] = "ended"] /\ queue' = queue
      \/ \E c \in Categories : CountError(a, c)
  BY DEF TurnEnd, Settled, Poisoned, Stop
<1> QED BY <1>2, <1>3, <1>4

\* A decision sends a message while the breaker is closed, or none.
LEMMA DecideCloser ==
    ASSUME TypeOK, NEW a \in Agents, Decide(a)
    PROVE  Closer
<1>1. /\ phase[a] \in Categories /\ phase' = [phase EXCEPT ![a] = "ended"]
      /\ consecutive' = consecutive
  BY DEF Decide
<1>2. Turning' = Turning
  BY <1>1 DEF Turning, Categories
<1>3. /\ Cardinality(Deciding') = Cardinality(Deciding) - 1
      /\ Cardinality(Ended') = Cardinality(Ended) + 1
  <2>1. Ended' = Ended \cup {a} /\ a \notin Ended
    BY <1>1 DEF Ended, Categories, TypeOK
  <2> QED BY <1>1, <2>1, Leaves, TurningType, FS_AddElement
<1>4. CASE queue' = queue
  BY <1>2, <1>3, <1>4, Terms DEF Closer, Underway
<1>5. CASE ~BreakerOpen /\ queue' = queue + 1
  <2>1. ErrorsLeft' = ErrorsLeft /\ Handling' = Handling - 5
    BY <1>1, <1>3, <1>5, Terms DEF ErrorsLeft, Handling, BreakerOpen
  <2>2. Underway' = Underway
    BY <1>2, <1>3, <1>5, Terms DEF Underway
  <2>3. StepsLeft' < StepsLeft
    BY <1>2, <1>3, <1>5, <2>1, Terms DEF StepsLeft
  <2> QED BY <2>2, <2>3 DEF Closer
<1>6. queue' = queue \/ (~BreakerOpen /\ queue' = queue + 1)
  <2>1. NoNudge \/ (~BreakerOpen /\ Sends(1))
    BY DEF Decide, Nudge
  <2> QED BY <2>1, Terms DEF NoNudge, Sends
<1> QED BY <1>4, <1>5, <1>6

\* An agent_end without a nudge leaves one agent less to end.
LEMMA AgentEndCloser ==
    ASSUME TypeOK, NEW a \in Agents, AgentEnd(a), ~Resumed
    PROVE  Closer
<1>1. /\ phase[a] = "ended" /\ phase' = [phase EXCEPT ![a] = "idle"]
      /\ consecutive' = consecutive
  BY DEF AgentEnd, counters
<1>2. queue' = queue
  <2>1. Resume \/ queue' = queue
    BY DEF AgentEnd
  <2> QED BY <2>1, ResumeType DEF Resumed
<1>3. Cardinality(Ended') = Cardinality(Ended) - 1
  <2>1. Ended' = Ended \ {a} /\ a \in Ended
    BY <1>1 DEF Ended, TypeOK
  <2> QED BY <2>1, TurningType, FS_RemoveElement
<1>4. Turning' = Turning /\ Deciding' = Deciding
  BY <1>1, StaysOut DEF Turning, Categories, TypeOK
<1>5. Handling' = Handling /\ ErrorsLeft' = ErrorsLeft /\ Underway' = Underway
  BY <1>1, <1>2, <1>4 DEF Handling, ErrorsLeft, BreakerOpen, Underway
<1>6. StepsLeft' < StepsLeft
  BY <1>2, <1>3, <1>4, <1>5, Terms DEF StepsLeft
<1> QED BY <1>5, <1>6 DEF Closer

\* With the advisories on the dashboard, every step that pi, the provider and
\* the handlers of an agent take without the user, however a turn ends, brings
\* the retries closer to their end unless it sends a resume nudge; and with no
\* round under way and no agent_end to come they have ended.  This is what
\* LoopEnds needs beyond fairness (errorRetry, transientRetry, handleAgentEnd).
THEOREM LoopRunsDown ==
    AdvisoryChannel /\ Spec =>
        /\ [](/\ Underway \in Nat /\ StepsLeft \in Nat
              /\ Quiet <=> Underway = 0 /\ Ended = {})
        /\ [][(\E a \in Agents : Proceed(a)) /\ ~Resumed => Closer]_vars
<1> SUFFICES ASSUME AdvisoryChannel
             PROVE  Spec => /\ [](/\ Underway \in Nat /\ StepsLeft \in Nat
                                  /\ Quiet <=> Underway = 0 /\ Ended = {})
                            /\ [][(\E a \in Agents : Proceed(a)) /\ ~Resumed
                                  => Closer]_vars
  OBVIOUS
<1>1. TypeOK => /\ Underway \in Nat /\ StepsLeft \in Nat
                /\ Quiet <=> Underway = 0 /\ Ended = {}
  BY Measures
<1>2. TypeOK /\ [Next]_vars
      => [(\E a \in Agents : Proceed(a)) /\ ~Resumed => Closer]_vars
  BY FollowUpCloser, TurnEndCloser, DecideCloser, AgentEndCloser DEF Proceed
<1> QED BY <1>1, <1>2, TypeCorrect, PTL DEF Spec
=============================================================================
