----------------------- MODULE CompactionControl_proofs -----------------------
(***************************************************************************)
(* Proofs about the compaction control loop, for every number of sessions, *)
(* agents, timers and compactions in flight, every cooldown, debounce,     *)
(* deferral and nudge gap, and every setting of the configuration flags.   *)
(***************************************************************************)
EXTENDS CompactionControl, TLAPS, SequenceTheorems

USE DEF vars, rtVars, runtimeVars, piVars, history

\* Dropping an element of a sequence.
LEMMA RemoveAtType ==
    ASSUME NEW S, NEW s \in Seq(S), NEW i \in 1..Len(s)
    PROVE  RemoveAt(s, i) \in Seq(S) /\ Len(RemoveAt(s, i)) = Len(s) - 1
<1>1. Len(s) \in Nat /\ \A k \in 1..Len(s) : s[k] \in S
    BY LenProperties, ElementOfSeq
<1>2. /\ SubSeq(s, 1, i - 1) \in Seq(S)
      /\ Len(SubSeq(s, 1, i - 1)) = i - 1
    BY <1>1, SubSeqProperties
<1>3. /\ SubSeq(s, i + 1, Len(s)) \in Seq(S)
      /\ Len(SubSeq(s, i + 1, Len(s))) = Len(s) - i
    BY <1>1, SubSeqProperties
<1>4. /\ SubSeq(s, 1, i - 1) \o SubSeq(s, i + 1, Len(s)) \in Seq(S)
      /\ Len(SubSeq(s, 1, i - 1) \o SubSeq(s, i + 1, Len(s)))
             = Len(SubSeq(s, 1, i - 1)) + Len(SubSeq(s, i + 1, Len(s)))
    BY <1>2, <1>3, ConcatProperties
<1>5. (i - 1) + (Len(s) - i) = Len(s) - 1
    BY <1>1
<1> QED
    BY <1>2, <1>3, <1>4, <1>5 DEF RemoveAt

\* A nudge moves the deadline, the queue and the history together.
LEMMA NudgeType ==
    ASSUME TypeOK, NEW wanted \in BOOLEAN, Nudge(wanted)
    PROVE  /\ nudgeLeft' \in 0..NudgeGap
           /\ queued' \in 0..MaxQueue
           /\ nudges' \in [Ages -> Nat]
<1> USE ControlAssumption
<1>1. nudgeLeft' \in 0..NudgeGap /\ queued' \in 0..MaxQueue
    BY DEF TypeOK, Nudge, Enqueue
<1>2. nudges \in [Ages -> Nat] /\ nudges[0] + 1 \in Nat
    BY DEF TypeOK, Ages
<1>3. [nudges EXCEPT ![0] = @ + 1] \in [Ages -> Nat]
    BY <1>2
<1>4. nudges' \in [Ages -> Nat]
    BY <1>2, <1>3 DEF Nudge
<1> QED
    BY <1>1, <1>4

\* What a runtime reset leaves behind.
LEMMA ResetType ==
    ASSUME TypeOK, NEW s \in Sessions, ResetRuntime(s)
    PROVE  /\ sid' \in Sessions
           /\ sinceNative' \in 0..Cooldown
           /\ lengthStop' \in BOOLEAN
           /\ tried' \in SUBSET Signatures
           /\ activeAgents' \in 0..MaxAgents
           /\ activeAgents' <= activeAgents
    BY ControlAssumption DEF TypeOK, ResetRuntime, KeepsMemory

\* What it leaves of the count of recoveries.
LEMMA RecountType ==
    ASSUME TypeOK, NEW s \in Sessions, Recount(s)
    PROVE  recovered' \in [Signatures -> 0..2]
<1>1. [e \in Signatures |-> 0] \in [Signatures -> 0..2]
    OBVIOUS
<1> QED
    BY <1>1 DEF TypeOK, Recount
-----------------------------------------------------------------------------
\* The invariant the theorems rest on: types; the deadline of the last nudge is
\* at least a gap away from it; and the race guard's timestamp is the true age
\* of the last compaction once that compaction found the session persisted.
NudgeDeadline ==
    \A age \in Ages : nudges[age] > 0 => nudges[age] = 1 /\ age + nudgeLeft >= NudgeGap

GuardTracksCompaction == guarded => persisted /\ sinceNative = sinceCompact

IInv ==
    /\ TypeOK
    /\ NoPhantomAgents
    /\ NudgesAreSpaced
    /\ NudgeDeadline
    /\ GuardTracksCompaction

LEMMA InitIInv == Init => IInv
    BY ControlAssumption, EmptySeq
    DEF Init, IInv, TypeOK, NoPhantomAgents, NudgesAreSpaced, NudgeDeadline,
        GuardTracksCompaction, Ages
-----------------------------------------------------------------------------
LEMMA TypeStep == TypeOK /\ NoPhantomAgents /\ [Next]_vars => TypeOK'
<1> SUFFICES ASSUME TypeOK, NoPhantomAgents, [Next]_vars PROVE TypeOK'
    OBVIOUS
<1> USE ControlAssumption
<1>1. ASSUME NEW next \in BOOLEAN, AgentStart(next) PROVE TypeOK'
    BY <1>1 DEF TypeOK, AgentStart, NoPhantomAgents
<1>2. ASSUME TurnStart PROVE TypeOK'
    BY <1>2 DEF TypeOK, TurnStart
<1>3. ASSUME Grow PROVE TypeOK'
    BY <1>3 DEF TypeOK, Grow
<1>4. ASSUME Submit PROVE TypeOK'
    BY <1>4 DEF TypeOK, Submit
<1>5. ASSUME NEW outcome \in Outcomes, NEW unhealthy \in BOOLEAN,
             TurnEnd(outcome, unhealthy)
      PROVE  TypeOK'
    <2>1. timers' \in Seq(Timer) /\ Len(timers') <= MaxTimers
        <3>1. [by |-> "recovery", left |-> Defer, sid |-> sid, critical |-> FALSE] \in Timer
            BY DEF Timer, TypeOK
        <3> QED
            BY <1>5, <3>1, AppendProperties, LenProperties DEF TurnEnd, TypeOK
    <2>2. attempts' \in Seq(Attempt) /\ Len(attempts') <= MaxInFlight
        <3>1. Called("health") \in Attempt
            BY DEF Called, Attempt, TypeOK
        <3> QED
            BY <1>5, <3>1, AppendProperties, LenProperties DEF TurnEnd, TypeOK
    <2>3. tried' \in SUBSET Signatures
        BY <1>5 DEF TurnEnd, Tried, TypeOK
    <2>4. recovered' \in [Signatures -> 0..2]
        <3>1. recovered \in [Signatures -> 0..2]
            BY DEF TypeOK
        <3>2. ASSUME outcome \in Signatures, recovered[outcome] < 2
              PROVE  [recovered EXCEPT ![outcome] = @ + 1] \in [Signatures -> 0..2]
            <4>1. recovered[outcome] + 1 \in 0..2
                BY <3>1, <3>2
            <4> QED
                BY <3>1, <4>1
        <3> QED
            BY <1>5, <3>1, <3>2 DEF TurnEnd
    <2> QED
        BY <1>5, <2>1, <2>2, <2>3, <2>4 DEF TurnEnd, TypeOK
<1>6. ASSUME NEW over \in BOOLEAN, NEW critical \in BOOLEAN, AgentEnd(over, critical)
      PROVE  TypeOK'
    <2>1. timers' \in Seq(Timer) /\ Len(timers') <= MaxTimers
        <3>1. [by |-> "trim", left |-> Defer, sid |-> sid, critical |-> critical] \in Timer
            BY DEF Timer, TypeOK
        <3> QED
            BY <1>6, <3>1, AppendProperties, LenProperties DEF AgentEnd, TypeOK
    <2>2. attempts' \in Seq(Attempt) /\ Len(attempts') <= MaxInFlight
        <3>1. Called("trim") \in Attempt
            BY DEF Called, Attempt, TypeOK
        <3> QED
            BY <1>6, <3>1, AppendProperties, LenProperties DEF AgentEnd, TypeOK
    <2>3. /\ nudgeLeft' \in 0..NudgeGap
          /\ queued' \in 0..MaxQueue
          /\ nudges' \in [Ages -> Nat]
        <3>1. Restarts(over, critical) \in BOOLEAN
            BY DEF Restarts, Settles
        <3> QED
            BY <1>6, <3>1, NudgeType DEF AgentEnd
    <2>4. activeAgents' \in 0..MaxAgents /\ running' \in 0..MaxAgents
        BY <1>6 DEF AgentEnd, AgentsLeft, TypeOK
    <2> QED
        BY <1>6, <2>1, <2>2, <2>3, <2>4 DEF AgentEnd, TypeOK
<1>7. ASSUME NEW headroom \in BOOLEAN, NEW stored \in BOOLEAN,
             PipelineCompact(headroom, stored)
      PROVE  TypeOK'
    <2>1. sid \in Sessions
        BY DEF TypeOK
    <2> QED
        BY <1>7, <2>1, ResetType, RecountType DEF PipelineCompact, TypeOK, KeepsMemory
<1>8. ASSUME FireTimer PROVE TypeOK'
    <2>1. Head(timers) \in Timer /\ Tail(timers) \in Seq(Timer)
          /\ Len(Tail(timers)) = Len(timers) - 1
        BY <1>8, HeadTailProperties DEF FireTimer, TypeOK
    <2>2. Called(Head(timers).by) \in Attempt
        BY <2>1 DEF Called, Attempt, Timer, TypeOK
    <2>3. attempts' \in Seq(Attempt) /\ Len(attempts') <= MaxInFlight
        BY <1>8, <2>2, AppendProperties, LenProperties DEF FireTimer, TypeOK
    <2>4. timers' \in Seq(Timer) /\ Len(timers') <= MaxTimers
        <3>1. timers' = Tail(timers)
            BY <1>8 DEF FireTimer
        <3>2. Len(timers) \in Nat /\ Len(timers) <= MaxTimers
            BY LenProperties DEF TypeOK
        <3>3. Len(timers') = Len(timers) - 1 /\ timers' \in Seq(Timer)
            BY <2>1, <3>1
        <3>4. Len(timers) - 1 <= MaxTimers
            BY <3>2
        <3> QED
            BY <3>3, <3>4
    <2> QED
        BY <1>8, <2>3, <2>4 DEF FireTimer, TypeOK
<1>9. ASSUME NativeStart PROVE TypeOK'
    <2>1. attempts' \in Seq(Attempt) /\ Len(attempts') <= MaxInFlight
        BY <1>9, AppendProperties, LenProperties DEF NativeStart, TypeOK, Attempt
    <2> QED
        BY <1>9, <2>1 DEF NativeStart, TypeOK
<1>10. ASSUME NEW i \in 1..Len(attempts), CompactThrows(i) PROVE TypeOK'
    <2>1. attempts' \in Seq(Attempt) /\ Len(attempts') <= MaxInFlight
        BY <1>10, RemoveAtType, LenProperties DEF CompactThrows, TypeOK
    <2> QED
        BY <1>10, <2>1 DEF CompactThrows, TypeOK
<1>11. ASSUME NEW i \in 1..Len(attempts),
              NEW drive \in {"summary", "blank", "nothing", "noCut", "throws"},
              NEW piOk \in BOOLEAN, BeforeCompact(i, drive, piOk)
       PROVE  TypeOK'
    <2>1. attempts' \in Seq(Attempt) /\ Len(attempts') <= MaxInFlight
        <3>1. attempts[i] \in Attempt
            BY ElementOfSeq DEF TypeOK
        <3>2. [attempts[i] EXCEPT !.phase = "summarised"] \in Attempt
            BY <3>1 DEF Attempt
        <3>3. [attempts EXCEPT ![i].phase = "summarised"] \in Seq(Attempt)
              /\ Len([attempts EXCEPT ![i].phase = "summarised"]) = Len(attempts)
            BY <3>2, ExceptSeq DEF TypeOK
        <3>4. RemoveAt(attempts, i) \in Seq(Attempt)
              /\ Len(RemoveAt(attempts, i)) = Len(attempts) - 1
            BY RemoveAtType DEF TypeOK
        <3>5. \/ attempts' = [attempts EXCEPT ![i].phase = "summarised"]
              \/ attempts' = RemoveAt(attempts, i)
            BY <1>11 DEF BeforeCompact
        <3>6. Len(attempts) \in Nat /\ Len(attempts) <= MaxInFlight
            BY LenProperties DEF TypeOK
        <3>7. /\ attempts' \in Seq(Attempt)
              /\ Len(attempts') = Len(attempts) \/ Len(attempts') = Len(attempts) - 1
            BY <3>3, <3>4, <3>5
        <3> QED
            BY <3>6, <3>7
    <2>2. /\ nudgeLeft' \in 0..NudgeGap
          /\ queued' \in 0..MaxQueue
          /\ nudges' \in [Ages -> Nat]
        BY <1>11, NudgeType DEF BeforeCompact
    <2>3. /\ sid' \in Sessions
          /\ sinceNative' \in 0..Cooldown
          /\ lengthStop' \in BOOLEAN
          /\ tried' \in SUBSET Signatures
          /\ activeAgents' \in 0..MaxAgents
        <3>1. sid \in Sessions
            BY DEF TypeOK
        <3> QED
            BY <1>11, <3>1, ResetType DEF BeforeCompact
    <2>4. persisted' \in BOOLEAN
        BY <1>11 DEF BeforeCompact, KeepsMemory
    <2>5. recovered' \in [Signatures -> 0..2]
        <3>1. sid \in Sessions
            BY DEF TypeOK
        <3> QED
            BY <1>11, <3>1, RecountType DEF BeforeCompact
    <2> QED
        BY <1>11, <2>1, <2>2, <2>3, <2>4, <2>5 DEF BeforeCompact, TypeOK
<1>12. ASSUME NEW i \in 1..Len(attempts), AppendEntry(i) PROVE TypeOK'
    <2>1. [attempts[i] EXCEPT !.phase = "appended"] \in Attempt
        <3>1. attempts[i] \in Attempt
            BY ElementOfSeq DEF TypeOK
        <3> QED
            BY <3>1 DEF Attempt
    <2>2. attempts' \in Seq(Attempt) /\ Len(attempts') <= MaxInFlight
        BY <1>12, <2>1, ExceptSeq DEF AppendEntry, TypeOK
    <2> QED
        BY <1>12, <2>2 DEF AppendEntry, TypeOK
<1>13. ASSUME NEW i \in 1..Len(attempts), SessionCompact(i) PROVE TypeOK'
    <2>1. attempts' \in Seq(Attempt) /\ Len(attempts') <= MaxInFlight
        BY <1>13, RemoveAtType, LenProperties DEF SessionCompact, TypeOK
    <2> QED
        BY <1>13, <2>1 DEF SessionCompact, TypeOK
<1>14. ASSUME NEW s \in Sessions, SessionStart(s) PROVE TypeOK'
    <2>1. /\ sid' \in Sessions
          /\ sinceNative' \in 0..Cooldown
          /\ lengthStop' \in BOOLEAN
          /\ tried' \in SUBSET Signatures
          /\ activeAgents' \in 0..MaxAgents
        BY <1>14, ResetType DEF SessionStart
    <2>2. persisted' \in BOOLEAN
        BY <1>14 DEF SessionStart, KeepsMemory
    <2>3. /\ sinceCompact' \in 0..Cooldown /\ guarded' \in BOOLEAN
          /\ nudges' = nudges
        <3>1. \/ UNCHANGED <<sinceCompact, guarded, nudges>>
              \/ sinceCompact' = Cooldown /\ guarded' = FALSE
                 /\ UNCHANGED nudges
            BY <1>14 DEF SessionStart
        <3>2. /\ sinceCompact \in 0..Cooldown /\ Cooldown \in 0..Cooldown
              /\ guarded \in BOOLEAN
            BY DEF TypeOK
        <3>3. CASE UNCHANGED <<sinceCompact, guarded, nudges>>
            BY <3>2, <3>3
        <3>4. CASE sinceCompact' = Cooldown /\ guarded' = FALSE
                   /\ UNCHANGED nudges
            BY <3>2, <3>4
        <3> QED
            BY <3>1, <3>3, <3>4
    <2>4. recovered' \in [Signatures -> 0..2]
        BY <1>14, RecountType DEF SessionStart
    <2> QED
        BY <1>14, <2>1, <2>2, <2>3, <2>4 DEF SessionStart, TypeOK
<1>15. ASSUME SessionTree PROVE TypeOK'
    <2>1. sid \in Sessions
        BY DEF TypeOK
    <2> QED
        BY <1>15, <2>1, ResetType, RecountType DEF SessionTree, TypeOK, KeepsMemory
<1>16. ASSUME Tick PROVE TypeOK'
    <2>1. timers' \in Seq(Timer) /\ Len(timers') <= MaxTimers
        <3>1. Len(timers) \in Nat /\ Len(timers) <= MaxTimers
            BY LenProperties DEF TypeOK
        <3>2. ASSUME NEW k \in 1..Len(timers)
              PROVE  [timers[k] EXCEPT !.left = Dec(@)] \in Timer
            <4>1. timers[k] \in Timer
                BY ElementOfSeq DEF TypeOK
            <4>2. Dec(timers[k].left) \in 0..Defer
                BY <4>1 DEF Timer, Dec
            <4> QED
                BY <4>1, <4>2 DEF Timer
        <3>3. timers' \in [1..Len(timers) -> Timer]
            BY <1>16, <3>2 DEF Tick
        <3>4. timers' \in Seq(Timer)
            BY <3>1, <3>3, SeqDef
        <3>5. Len(timers') = Len(timers)
            BY <3>1, <3>3, <3>4, LenProperties
        <3> QED
            BY <3>1, <3>4, <3>5
    <2>2. nudges' \in [Ages -> Nat]
        <3>1. \A age \in Ages : (IF age = 0 THEN 0 ELSE nudges[age - 1]) \in Nat
            BY DEF TypeOK, Ages
        <3> QED
            BY <1>16, <3>1 DEF Tick
    <2>3. /\ debounceLeft' \in 0..Debounce /\ nudgeLeft' \in 0..NudgeGap
          /\ sinceNative' \in 0..Cooldown /\ sinceCompact' \in 0..Cooldown
        <3>1. /\ debounceLeft' = Dec(debounceLeft)
              /\ nudgeLeft' = Dec(nudgeLeft)
              /\ sinceNative' = AgeTo(sinceNative, Cooldown)
              /\ sinceCompact' = AgeTo(sinceCompact, Cooldown)
            BY <1>16 DEF Tick
        <3>2. /\ debounceLeft \in 0..Debounce /\ nudgeLeft \in 0..NudgeGap
              /\ sinceNative \in 0..Cooldown /\ sinceCompact \in 0..Cooldown
            BY DEF TypeOK
        <3> QED
            BY <3>1, <3>2 DEF Dec, AgeTo
    <2> QED
        BY <1>16, <2>1, <2>2, <2>3 DEF Tick, TypeOK
<1>17. ASSUME SessionShutdown PROVE TypeOK'
    BY <1>17 DEF TypeOK, SessionShutdown
<1>18. ASSUME UNCHANGED vars PROVE TypeOK'
    BY <1>18 DEF TypeOK
<1> QED
    BY <1>1, <1>2, <1>3, <1>4, <1>5, <1>6, <1>7, <1>8, <1>9, <1>10, <1>11, <1>12,
       <1>13, <1>14, <1>15, <1>16, <1>17, <1>18
    DEF Next, AgentSteps, CompactionSteps, SessionSteps
-----------------------------------------------------------------------------
\* The steps that leave everything the other three invariants speak of.
LEMMA QuietStep ==
    ASSUME IInv, UNCHANGED <<persisted, sinceNative, activeAgents, running, nudgeLeft,
                             sinceCompact, guarded, nudges>>
    PROVE  NoPhantomAgents' /\ NudgesAreSpaced' /\ NudgeDeadline' /\ GuardTracksCompaction'
    BY DEF IInv, NoPhantomAgents, NudgesAreSpaced, NudgeDeadline, GuardTracksCompaction

\* A nudge is sent only when the deadline has run down, and then no earlier one
\* is within the gap.
LEMMA NudgeSpacing ==
    ASSUME IInv, NEW wanted \in BOOLEAN, Nudge(wanted)
    PROVE  NudgesAreSpaced' /\ NudgeDeadline'
<1> USE ControlAssumption
<1>1. nudges \in [Ages -> Nat] /\ nudgeLeft \in Nat
    BY DEF IInv, TypeOK
<1>2. CASE ~(wanted /\ nudgeLeft = 0)
    <2>1. UNCHANGED <<nudgeLeft, nudges>>
        BY <1>2 DEF Nudge
    <2> QED
        BY <2>1 DEF IInv, NudgesAreSpaced, NudgeDeadline
<1>3. CASE wanted /\ nudgeLeft = 0
    <2>1. nudgeLeft' = NudgeGap /\ nudges' = [nudges EXCEPT ![0] = @ + 1]
        BY <1>3 DEF Nudge
    <2>2. \A age \in Ages : nudges[age] = 0
        BY <1>1, <1>3 DEF IInv, NudgeDeadline, Ages
    <2>3. \A age \in Ages : nudges'[age] = IF age = 0 THEN 1 ELSE 0
        BY <1>1, <2>1, <2>2 DEF Ages
    <2>4. NudgesAreSpaced'
        BY <2>3 DEF NudgesAreSpaced
    <2>5. NudgeDeadline'
        BY <2>1, <2>3 DEF NudgeDeadline, Ages
    <2> QED
        BY <2>4, <2>5
<1> QED
    BY <1>2, <1>3

\* As a nudge grows a tick older its deadline comes a tick nearer.
LEMMA TickSpacing ==
    ASSUME IInv, Tick
    PROVE  NudgesAreSpaced' /\ NudgeDeadline'
<1> USE ControlAssumption
<1>1. nudges \in [Ages -> Nat] /\ nudgeLeft \in Nat
    BY DEF IInv, TypeOK
<1>2. nudgeLeft' = Dec(nudgeLeft)
      /\ nudges' = [age \in Ages |-> IF age = 0 THEN 0 ELSE nudges[age - 1]]
    BY DEF Tick
<1>3. \A age \in Ages : nudges'[age] > 0
          => age - 1 \in Ages /\ nudges'[age] = nudges[age - 1]
    BY <1>1, <1>2 DEF Ages
<1>4. NudgesAreSpaced'
    <2> SUFFICES ASSUME NEW a \in Ages, NEW b \in Ages, nudges'[a] > 0, nudges'[b] > 0
                 PROVE  a = b /\ nudges'[a] = 1
        BY DEF NudgesAreSpaced
    <2>1. a - 1 = b - 1 /\ nudges[a - 1] = 1
        BY <1>3 DEF IInv, NudgesAreSpaced
    <2> QED
        BY <1>3, <2>1 DEF Ages
<1>5. NudgeDeadline'
    <2> SUFFICES ASSUME NEW age \in Ages, nudges'[age] > 0
                 PROVE  nudges'[age] = 1 /\ age + nudgeLeft' >= NudgeGap
        BY DEF NudgeDeadline
    <2>1. nudges[age - 1] = 1 /\ (age - 1) + nudgeLeft >= NudgeGap
        BY <1>3 DEF IInv, NudgeDeadline
    <2> QED
        BY <1>1, <1>2, <1>3, <2>1 DEF Ages, Dec
<1> QED
    BY <1>4, <1>5

\* A session that keeps its memory keeps it through a reset.
LEMMA ResetKeeps ==
    ASSUME IInv, NEW s \in Sessions, ResetRuntime(s)
    PROVE  /\ activeAgents' <= activeAgents
           /\ KeepsMemory(s) => UNCHANGED <<sinceNative, tried, activeAgents>>
<1>1. activeAgents' <= activeAgents
    BY ResetType DEF IInv
<1> QED
    BY <1>1 DEF ResetRuntime

LEMMA InvStep == IInv /\ [Next]_vars => IInv'
<1> SUFFICES ASSUME IInv, [Next]_vars PROVE IInv'
    OBVIOUS
<1> USE ControlAssumption
<1> DEFINE Rest == NoPhantomAgents' /\ NudgesAreSpaced' /\ NudgeDeadline'
                   /\ GuardTracksCompaction'
<1>1. TypeOK'
    BY TypeStep DEF IInv
<1>2. running \in Nat /\ activeAgents \in Nat /\ activeAgents <= running
    BY DEF IInv, TypeOK, NoPhantomAgents
<1>3. ASSUME NEW next \in BOOLEAN, AgentStart(next) PROVE Rest
    <2>1. UNCHANGED <<persisted, sinceNative, nudgeLeft, sinceCompact, guarded, nudges>>
          /\ activeAgents' = activeAgents + 1 /\ running' = running + 1
        BY <1>3 DEF AgentStart
    <2>2. NoPhantomAgents'
        BY <1>2, <2>1 DEF NoPhantomAgents
    <2> QED
        BY <2>1, <2>2 DEF IInv, NudgesAreSpaced, NudgeDeadline, GuardTracksCompaction
<1>4. ASSUME NEW outcome \in Outcomes, NEW unhealthy \in BOOLEAN,
             TurnEnd(outcome, unhealthy)
      PROVE  Rest
    BY <1>4, QuietStep DEF TurnEnd
<1>5. ASSUME NEW over \in BOOLEAN, NEW critical \in BOOLEAN, AgentEnd(over, critical)
      PROVE  Rest
    <2>1. NoPhantomAgents'
        BY <1>2, <1>5 DEF AgentEnd, AgentsLeft, NoPhantomAgents
    <2>2. NudgesAreSpaced' /\ NudgeDeadline'
        <3>1. Restarts(over, critical) \in BOOLEAN
            BY DEF Restarts, Settles
        <3> QED
            BY <1>5, <3>1, NudgeSpacing DEF AgentEnd
    <2>3. GuardTracksCompaction'
        BY <1>5 DEF AgentEnd, IInv, GuardTracksCompaction
    <2> QED
        BY <2>1, <2>2, <2>3
<1>6. ASSUME NEW headroom \in BOOLEAN, NEW stored \in BOOLEAN,
             PipelineCompact(headroom, stored)
      PROVE  Rest
    <2>1. /\ ResetRuntime(sid) /\ sid \in Sessions
          /\ UNCHANGED <<running, nudgeLeft, sinceCompact, guarded, nudges>>
          /\ persisted' = (KeepsMemory(sid) \/ stored)
        BY <1>6 DEF PipelineCompact, IInv, TypeOK
    <2>2. NoPhantomAgents'
        BY <1>1, <1>2, <2>1, ResetKeeps DEF NoPhantomAgents, TypeOK
    <2>3. GuardTracksCompaction'
        BY <2>1, ResetKeeps DEF IInv, GuardTracksCompaction, KeepsMemory
    <2> QED
        BY <2>1, <2>2, <2>3 DEF IInv, NudgesAreSpaced, NudgeDeadline
<1>7. ASSUME NEW i \in 1..Len(attempts),
             NEW drive \in {"summary", "blank", "nothing", "noCut", "throws"},
             NEW piOk \in BOOLEAN, BeforeCompact(i, drive, piOk)
      PROVE  Rest
    <2>1. /\ ResetRuntime(sid) /\ sid \in Sessions
          /\ UNCHANGED <<running, sinceCompact, guarded>>
          /\ KeepsMemory(sid) => persisted'
        BY <1>7 DEF BeforeCompact, IInv, TypeOK
    <2>2. NoPhantomAgents'
        BY <1>1, <1>2, <2>1, ResetKeeps DEF NoPhantomAgents, TypeOK
    <2>3. GuardTracksCompaction'
        BY <2>1, ResetKeeps DEF IInv, GuardTracksCompaction, KeepsMemory
    <2>4. NudgesAreSpaced' /\ NudgeDeadline'
        BY <1>7, NudgeSpacing DEF BeforeCompact
    <2> QED
        BY <2>2, <2>3, <2>4
<1>8. ASSUME NEW i \in 1..Len(attempts), SessionCompact(i) PROVE Rest
    BY <1>8 DEF SessionCompact, IInv, runtimeVars, NoPhantomAgents, NudgesAreSpaced,
                NudgeDeadline, GuardTracksCompaction
<1>9. ASSUME NEW s \in Sessions, SessionStart(s) PROVE Rest
    <2>1. /\ ResetRuntime(s)
          /\ UNCHANGED <<running, nudgeLeft, nudges>>
          /\ persisted' = KeepsMemory(s)
          /\ guarded' => s = sid /\ UNCHANGED <<guarded, sinceCompact>>
        BY <1>9 DEF SessionStart
    <2>2. NoPhantomAgents'
        BY <1>1, <1>2, <2>1, ResetKeeps DEF NoPhantomAgents, TypeOK
    <2>3. GuardTracksCompaction'
        BY <2>1, ResetKeeps DEF IInv, GuardTracksCompaction, KeepsMemory
    <2> QED
        BY <2>1, <2>2, <2>3 DEF IInv, NudgesAreSpaced, NudgeDeadline
<1>10. ASSUME SessionTree PROVE Rest
    <2>1. /\ ResetRuntime(sid) /\ sid \in Sessions
          /\ UNCHANGED <<running, nudgeLeft, nudges, guarded, sinceCompact>>
          /\ persisted' = KeepsMemory(sid)
        BY <1>10 DEF SessionTree, IInv, TypeOK
    <2>2. NoPhantomAgents'
        BY <1>1, <1>2, <2>1, ResetKeeps DEF NoPhantomAgents, TypeOK
    <2>3. GuardTracksCompaction'
        BY <2>1, ResetKeeps DEF IInv, GuardTracksCompaction, KeepsMemory
    <2> QED
        BY <2>1, <2>2, <2>3 DEF IInv, NudgesAreSpaced, NudgeDeadline
<1>11. ASSUME Tick PROVE Rest
    <2>1. /\ UNCHANGED <<persisted, guarded, activeAgents, running>>
          /\ sinceNative' = AgeTo(sinceNative, Cooldown)
          /\ sinceCompact' = AgeTo(sinceCompact, Cooldown)
        BY <1>11 DEF Tick
    <2>2. NoPhantomAgents' /\ GuardTracksCompaction'
        BY <2>1 DEF IInv, NoPhantomAgents, GuardTracksCompaction
    <2> QED
        BY <1>11, <2>2, TickSpacing
<1>12. ASSUME UNCHANGED <<persisted, sinceNative, activeAgents, running, nudgeLeft,
                          sinceCompact, guarded, nudges>>
       PROVE  Rest
    BY <1>12, QuietStep
<1>13. TurnStart \/ Grow \/ Submit \/ FireTimer \/ NativeStart \/ UNCHANGED vars
       \/ (\E i \in 1..Len(attempts) : CompactThrows(i) \/ AppendEntry(i))
          => Rest
    BY <1>12 DEF TurnStart, Grow, Submit, FireTimer, NativeStart, CompactThrows, AppendEntry
<1>14. ASSUME SessionShutdown PROVE Rest
    <2>1. activeAgents' = 0
          /\ UNCHANGED <<persisted, sinceNative, running, nudgeLeft, sinceCompact,
                         guarded, nudges>>
        BY <1>14 DEF SessionShutdown
    <2> QED
        BY <1>2, <2>1 DEF IInv, NoPhantomAgents, NudgesAreSpaced, NudgeDeadline,
                          GuardTracksCompaction
<1>15. Rest
    BY <1>3, <1>4, <1>5, <1>6, <1>7, <1>8, <1>9, <1>10, <1>11, <1>13, <1>14
    DEF Next, AgentSteps, CompactionSteps, SessionSteps
<1> QED
    BY <1>1, <1>15 DEF IInv
-----------------------------------------------------------------------------
LEMMA Invariant == Spec => []IInv
    BY InitIInv, InvStep, PTL DEF Spec

\* Every counter, age, timer and attempt stays within its type, whatever the
\* order in which pi's events arrive.
THEOREM TypeCorrect == Spec => []TypeOK
<1>1. IInv => TypeOK
    BY DEF IInv
<1> QED
    BY <1>1, Invariant, PTL

\* The resume nudges, whichever handler sends them, are a full gap apart.
THEOREM NudgesSpaced == Spec => []NudgesAreSpaced
<1>1. IInv => NudgesAreSpaced
    BY DEF IInv
<1> QED
    BY <1>1, Invariant, PTL

\* A runtime reset in the middle of a run can lose agents of the count but never
\* leaves one too many, so the count reaches zero when the last agent ends.
THEOREM AgentsNeverPhantom == Spec => []NoPhantomAgents
<1>1. IInv => NoPhantomAgents
    BY DEF IInv
<1> QED
    BY <1>1, Invariant, PTL

\* A guarded call of ctx.compact() has just read the cooldown as over.
LEMMA CallsAreGuarded ==
    ASSUME IInv, [Next]_vars, GuardedCall
    PROVE  ~InCooldown
<1> SUFFICES ASSUME InCooldown PROVE FALSE
    OBVIOUS
<1>1. attempts \in Seq(Attempt) /\ Len(attempts) \in Nat
      /\ Len(attempts') = Len(attempts) + 1
    BY LenProperties DEF IInv, TypeOK, GuardedCall
<1>2. attempts' # attempts
    BY <1>1
<1>3. ASSUME NEW i \in 1..Len(attempts) PROVE attempts' # RemoveAt(attempts, i)
    BY <1>1, RemoveAtType
<1>4. ASSUME NEW i \in 1..Len(attempts), NEW attempt \in Attempt
      PROVE  attempts' # [attempts EXCEPT ![i] = attempt]
    BY <1>1, ExceptSeq
<1>5. ASSUME NEW outcome \in Outcomes, NEW unhealthy \in BOOLEAN,
             TurnEnd(outcome, unhealthy)
      PROVE  FALSE
    <2>1. attempts' = Append(attempts, Called("health"))
        BY <1>2, <1>5 DEF TurnEnd
    <2>2. attempts'[Len(attempts')].by = "health"
        <3>1. Called("health") \in Attempt
            BY DEF Called, Attempt
        <3> QED
            BY <1>1, <2>1, <3>1, AppendProperties DEF Called
    <2> QED
        BY <2>2 DEF GuardedCall
<1>6. ASSUME NEW over \in BOOLEAN, NEW critical \in BOOLEAN, AgentEnd(over, critical)
      PROVE  FALSE
    BY <1>2, <1>6 DEF AgentEnd, Trims
<1>7. ASSUME FireTimer PROVE FALSE
    BY <1>2, <1>7 DEF FireTimer, StillDue
<1>8. ASSUME NativeStart PROVE FALSE
    <2>1. [by |-> "pi", phase |-> "called"] \in Attempt
        BY DEF Attempt
    <2>2. attempts'[Len(attempts')].by = "pi"
        BY <1>1, <1>8, <2>1, AppendProperties DEF NativeStart
    <2> QED
        BY <2>2 DEF GuardedCall
<1>9. ASSUME NEW i \in 1..Len(attempts),
             NEW drive \in {"summary", "blank", "nothing", "noCut", "throws"},
             NEW piOk \in BOOLEAN, BeforeCompact(i, drive, piOk)
      PROVE  FALSE
    <2>1. [attempts[i] EXCEPT !.phase = "summarised"] \in Attempt
        <3>1. attempts[i] \in Attempt
            BY <1>1, ElementOfSeq
        <3> QED
            BY <3>1 DEF Attempt
    <2>2. \/ attempts' = [attempts EXCEPT ![i].phase = "summarised"]
          \/ attempts' = RemoveAt(attempts, i)
        BY <1>9 DEF BeforeCompact
    <2> QED
        BY <1>3, <1>4, <2>1, <2>2
<1>10. ASSUME NEW i \in 1..Len(attempts), AppendEntry(i) PROVE FALSE
    <2>1. [attempts[i] EXCEPT !.phase = "appended"] \in Attempt
        <3>1. attempts[i] \in Attempt
            BY <1>1, ElementOfSeq
        <3> QED
            BY <3>1 DEF Attempt
    <2> QED
        BY <1>4, <1>10, <2>1 DEF AppendEntry
<1>11. ASSUME NEW i \in 1..Len(attempts), CompactThrows(i) \/ SessionCompact(i)
       PROVE  FALSE
    BY <1>3, <1>11 DEF CompactThrows, SessionCompact
<1>12. ASSUME UNCHANGED attempts PROVE FALSE
    BY <1>2, <1>12
<1>13. ~(\E next \in BOOLEAN : AgentStart(next))
    BY <1>12 DEF AgentStart
<1>14. ~(\E headroom \in BOOLEAN, stored \in BOOLEAN : PipelineCompact(headroom, stored))
    BY <1>12 DEF PipelineCompact
<1>15. ~(TurnStart \/ Grow \/ Submit \/ Tick)
    BY <1>12 DEF TurnStart, Grow, Submit, Tick
<1>16. ~((\E s \in Sessions : SessionStart(s)) \/ SessionTree \/ SessionShutdown)
    BY <1>12 DEF SessionStart, SessionTree, SessionShutdown
<1> QED
    BY <1>5, <1>6, <1>7, <1>8, <1>9, <1>10, <1>11, <1>12, <1>13, <1>14, <1>15, <1>16
    DEF Next, AgentSteps, CompactionSteps, SessionSteps

\* A compaction recorded in a session that keeps its memory closes the race for
\* every guarded call, however many callbacks are pending and however late they
\* fire.
THEOREM RecordedCompactionIsFinal == Spec => RecordedCompactionClosesRace
<1> DEFINE Closes == GuardedCall /\ guarded => sinceCompact >= Cooldown
<1>1. IInv /\ [Next]_vars => [Closes]_vars
    <2> SUFFICES ASSUME IInv, [Next]_vars, GuardedCall, guarded
                 PROVE  sinceCompact >= Cooldown
        OBVIOUS
    <2>1. ~InCooldown
        BY CallsAreGuarded
    <2>2. sinceNative = sinceCompact /\ sinceNative \in Nat
        BY DEF IInv, GuardTracksCompaction, TypeOK
    <2> QED
        BY <2>1, <2>2, ControlAssumption DEF InCooldown
<1> QED
    BY <1>1, Invariant, PTL DEF Spec, RecordedCompactionClosesRace

\* A signature a compaction was deferred for is remembered, and counted once.
RecoveredIsTried ==
    \A e \in Signatures : recovered[e] > 0 => recovered[e] = 1 /\ e \in tried

\* A reset forgets the signatures and the count together, or neither.
LEMMA ResetRemembers ==
    ASSUME IInv, RecoveredIsTried, NEW s \in Sessions, ResetRuntime(s), Recount(s)
    PROVE  RecoveredIsTried'
<1>1. CASE KeepsMemory(s)
    <2>1. UNCHANGED <<tried, recovered>>
        BY <1>1 DEF ResetRuntime, Recount, KeepsMemory
    <2> QED
        BY <2>1 DEF RecoveredIsTried
<1>2. CASE ~KeepsMemory(s)
    <2>1. recovered' = [e \in Signatures |-> 0]
        BY <1>2 DEF Recount, KeepsMemory
    <2> QED
        BY <2>1 DEF RecoveredIsTried
<1> QED
    BY <1>1, <1>2

LEMMA RemembersStep == IInv /\ RecoveredIsTried /\ [Next]_vars => RecoveredIsTried'
<1> SUFFICES ASSUME IInv, RecoveredIsTried, [Next]_vars PROVE RecoveredIsTried'
    OBVIOUS
<1>1. recovered \in [Signatures -> 0..2] /\ sid \in Sessions
    BY DEF IInv, TypeOK
<1>2. ASSUME NEW outcome \in Outcomes, NEW unhealthy \in BOOLEAN,
             TurnEnd(outcome, unhealthy)
      PROVE  RecoveredIsTried'
    <2>1. tried \subseteq tried'
        BY <1>2 DEF TurnEnd, Tried
    <2>2. CASE UNCHANGED recovered
        BY <2>1, <2>2 DEF RecoveredIsTried
    <2>3. CASE ~UNCHANGED recovered
        <3>1. /\ outcome \in Signatures /\ Defers(outcome)
              /\ recovered' = [recovered EXCEPT ![outcome] = @ + 1]
            BY <1>2, <2>3 DEF TurnEnd
        <3>2. outcome \notin tried /\ outcome \in tried'
            <4>1. AutoCompact /\ (outcome = "overflow" \/ outcome \notin tried)
                BY <3>1 DEF Defers
            <4>2. outcome \in tried'
                BY <1>2, <3>1, <4>1 DEF TurnEnd, Tried
            <4>3. outcome # "overflow"
                BY <3>1, ControlAssumption
            <4> QED
                BY <4>1, <4>2, <4>3
        <3>3. recovered[outcome] = 0
            BY <1>1, <3>1, <3>2 DEF RecoveredIsTried
        <3> QED
            BY <1>1, <2>1, <3>1, <3>2, <3>3 DEF RecoveredIsTried
    <2> QED
        BY <2>2, <2>3
<1>3. ASSUME NEW headroom \in BOOLEAN, NEW stored \in BOOLEAN,
             PipelineCompact(headroom, stored)
      PROVE  RecoveredIsTried'
    BY <1>1, <1>3, ResetRemembers DEF PipelineCompact
<1>4. ASSUME NEW i \in 1..Len(attempts),
             NEW drive \in {"summary", "blank", "nothing", "noCut", "throws"},
             NEW piOk \in BOOLEAN, BeforeCompact(i, drive, piOk)
      PROVE  RecoveredIsTried'
    BY <1>1, <1>4, ResetRemembers DEF BeforeCompact
<1>5. ASSUME NEW s \in Sessions, SessionStart(s) PROVE RecoveredIsTried'
    BY <1>5, ResetRemembers DEF SessionStart
<1>6. ASSUME SessionTree PROVE RecoveredIsTried'
    BY <1>1, <1>6, ResetRemembers DEF SessionTree
<1>7. ASSUME UNCHANGED <<tried, recovered>> PROVE RecoveredIsTried'
    BY <1>7 DEF RecoveredIsTried
<1>8. ASSUME NEW i \in 1..Len(attempts),
             CompactThrows(i) \/ AppendEntry(i) \/ SessionCompact(i)
      PROVE  RecoveredIsTried'
    BY <1>7, <1>8 DEF CompactThrows, AppendEntry, SessionCompact
<1>9. ASSUME \/ \E next \in BOOLEAN : AgentStart(next)
             \/ \E over \in BOOLEAN, critical \in BOOLEAN : AgentEnd(over, critical)
      PROVE  RecoveredIsTried'
    BY <1>7, <1>9 DEF AgentStart, AgentEnd
<1>10. ASSUME \/ TurnStart \/ Grow \/ Submit \/ FireTimer \/ NativeStart
              \/ SessionShutdown \/ Tick \/ UNCHANGED vars
       PROVE  RecoveredIsTried'
    BY <1>7, <1>10 DEF TurnStart, Grow, Submit, FireTimer, NativeStart, SessionShutdown, Tick
<1> QED
    BY <1>2, <1>3, <1>4, <1>5, <1>6, <1>8, <1>9, <1>10
    DEF Next, AgentSteps, CompactionSteps, SessionSteps

\* As long as a session keeps its checkpoint, an error signature has at most one
\* compaction deferred for it, whatever resets, records and calls come between.
THEOREM SignatureCompactsOnce == Spec => []OneCompactPerSignature
<1>1. Init => RecoveredIsTried
    BY DEF Init, RecoveredIsTried
<1>2. IInv /\ RecoveredIsTried => OneCompactPerSignature
    <2> SUFFICES ASSUME IInv, RecoveredIsTried, NEW e \in Signatures
                 PROVE  recovered[e] <= 1
        BY DEF OneCompactPerSignature
    <2>1. recovered[e] \in 0..2
        BY DEF IInv, TypeOK
    <2> QED
        BY <2>1 DEF RecoveredIsTried
<1> QED
    BY <1>1, <1>2, Invariant, RemembersStep, PTL DEF Spec
=============================================================================
