-------------------------- MODULE CompactionControl --------------------------
(***************************************************************************)
(* Who may start a durable compaction, and when.  The extension reacts to  *)
(* pi's events (agent_start/agent_end, turn_start/turn_end, context,       *)
(* session_before_compact, session_compact, session_start, session_tree,   *)
(* session_shutdown) and calls ctx.compact() itself from three places:     *)
(* agent_end's durable trim, turn_end's recovery from an overflow or a     *)
(* poisoned context (both deferred by 500 ms and re-checked) and           *)
(* turn_end's health mitigation (at once).  pi compacts on its own as      *)
(* well.  The handlers of src/extensions/mega-events share one             *)
(* MegaRuntime, whose per-session part `rt` is replaced by resetRuntime.   *)
(*                                                                         *)
(* Time.  One tick is 500 ms.  An absolute deadline of the code (a         *)
(* timestamp compared with Date.now()) is the number of ticks left to it,  *)
(* and the age of a timestamp saturates at Cooldown, the longest age any   *)
(* guard tells apart: `null`, which the code reads as the epoch, and a     *)
(* timestamp at least Cooldown old are both Cooldown.                      *)
(*                                                                         *)
(* External.  pi itself: agents, its message queue, and a compaction in    *)
(* three steps - session_before_compact, the compaction entry appended to  *)
(* the transcript, session_compact - between which anything may happen.    *)
(***************************************************************************)
EXTENDS Integers, Sequences, FiniteSets

CONSTANTS
    Sessions,     \* session ids
    Signatures,   \* error signatures of poisoned turns
    AutoCompact,  \* config.auto
    AutoContinue, \* config.autoContinueLengthStop
    Strict,       \* config.raceGuardStrict
    Mitigate,     \* context-health mitigation is on
    Cooldown,     \* 30 s (strict) or 10 s after a session_compact
    Debounce,     \* 2 s between durable trims
    Defer,        \* 500 ms from a decision to ctx.compact()
    NudgeGap,     \* 30 s between resume nudges
    MaxAgents,    \* bound: agents running at once
    MaxQueue,     \* bound: follow-up messages queued in pi
    MaxTimers,    \* bound: deferred compactions pending
    MaxInFlight   \* bound: compactions in progress in pi

ASSUME ControlAssumption ==
    /\ Sessions # {}
    /\ Signatures \cap {"ok", "length", "overflow"} = {}
    /\ AutoCompact \in BOOLEAN /\ AutoContinue \in BOOLEAN
    /\ Strict \in BOOLEAN /\ Mitigate \in BOOLEAN
    /\ Cooldown \in Nat /\ Debounce \in Nat /\ Defer \in Nat
    /\ NudgeGap \in Nat \ {0}
    /\ MaxAgents \in Nat /\ MaxQueue \in Nat
    /\ MaxTimers \in Nat /\ MaxInFlight \in Nat

VARIABLES
    \* runtime.rt
    sid,          \* rt.sessionId
    persisted,    \* rt.persistedThisSession
    sinceNative,  \* age of rt.lastNativeCompactAt
    lengthStop,   \* rt.lengthStopPending
    tried,        \* rt.poisonedCompactSignatures
    \* the rest of MegaRuntime
    activeAgents, \* runtime.activeAgents
    debounceLeft, \* runtime.debounceUntil
    nudgeLeft,    \* runtime.resumeNudgeUntil
    timers,       \* pending setTimeout callbacks, in firing order
    \* pi
    running,      \* agents between agent_start and agent_end
    queued,       \* follow-up messages waiting
    grown,        \* the branch holds a region pi would compact
    attempts,     \* compactions in progress
    \* history, read by no action
    sinceCompact, \* age of the last session_compact of this session
    guarded,      \* it was recorded in a session that keeps its memory
    nudges,       \* resume nudges of the last NudgeGap ticks, counted by age
    recovered     \* compactions deferred for each signature (at most 2 are
                  \* told apart) since the session keeps its memory

rtVars == <<sid, persisted, sinceNative, lengthStop, tried>>
runtimeVars == <<activeAgents, debounceLeft, nudgeLeft, timers>>
piVars == <<running, queued, grown, attempts>>
history == <<sinceCompact, guarded, nudges, recovered>>
vars == <<rtVars, runtimeVars, piVars, history>>

Ages == 0..(NudgeGap - 1)
Timer == [by : {"trim", "recovery"}, left : 0..Defer, sid : Sessions,
          critical : BOOLEAN]
Attempt == [by : {"pi", "trim", "recovery", "health"},
            phase : {"called", "summarised", "appended"}]
-----------------------------------------------------------------------------
(* Helpers *)

Dec(n) == IF n = 0 THEN 0 ELSE n - 1
AgeTo(n, limit) == IF n < limit THEN n + 1 ELSE limit

RemoveAt(s, i) == SubSeq(s, 1, i - 1) \o SubSeq(s, i + 1, Len(s))

\* ctx.compact(): pi starts a compaction.
Called(by) == [by |-> by, phase |-> "called"]

\* piCompactWouldNoop.
WouldNoop == ~grown

\* The cooldown of the race guard.
InCooldown == sinceNative < Cooldown

\* A follow-up message reaches pi's queue.
Enqueue == IF queued < MaxQueue THEN queued + 1 ELSE queued

\* Mutant: the deadline is read but not moved.
NudgeUnstamped(wanted) ==
    IF wanted /\ nudgeLeft = 0
    THEN /\ nudgeLeft' = nudgeLeft
         /\ queued' = Enqueue
         /\ nudges' = [nudges EXCEPT ![0] = @ + 1]
    ELSE UNCHANGED <<nudgeLeft, queued, nudges>>

\* nudgeResume and the nudge of agent_end: debounced by resumeNudgeUntil.
Nudge(wanted) ==
    IF wanted /\ nudgeLeft = 0
    THEN /\ nudgeLeft' = NudgeGap
         /\ queued' = Enqueue
         /\ nudges' = [nudges EXCEPT ![0] = @ + 1]
    ELSE UNCHANGED <<nudgeLeft, queued, nudges>>

\* resetRuntime(s) keeps `rt` only for the same session once it has persisted
\* a checkpoint.
KeepsMemory(s) == sid = s /\ persisted

\* The fields of `rt` that resetRuntime replaces, `persistedThisSession` being
\* left to the caller, and the counter beside them.
ResetRuntime(s) ==
    /\ sid' = s
    /\ sinceNative' = IF KeepsMemory(s) THEN sinceNative ELSE Cooldown
    /\ lengthStop' = (KeepsMemory(s) /\ lengthStop)
    /\ tried' = IF KeepsMemory(s) THEN tried ELSE {}
    /\ activeAgents' = IF KeepsMemory(s) THEN activeAgents ELSE 0

\* History: the count goes on as long as one session keeps its checkpoint.
Recount(s) ==
    recovered' = IF sid = s /\ persisted THEN recovered ELSE [e \in Signatures |-> 0]
-----------------------------------------------------------------------------
Init ==
    /\ sid \in Sessions
    /\ persisted = FALSE
    /\ sinceNative = Cooldown
    /\ lengthStop = FALSE
    /\ tried = {}
    /\ activeAgents = 0
    /\ debounceLeft = 0
    /\ nudgeLeft = 0
    /\ timers = <<>>
    /\ running = 0
    /\ queued = 0
    /\ grown = FALSE
    /\ attempts = <<>>
    /\ sinceCompact = Cooldown
    /\ guarded = FALSE
    /\ nudges = [age \in Ages |-> 0]
    /\ recovered = [e \in Signatures |-> 0]
-----------------------------------------------------------------------------
(* Agents and turns *)

\* agent_start; `next` says whether pi starts a queued message or a new one.
AgentStart(next) ==
    /\ running < MaxAgents
    /\ attempts = <<>>
    /\ next => queued > 0
    /\ running' = running + 1
    /\ activeAgents' = activeAgents + 1
    /\ queued' = IF next THEN queued - 1 ELSE queued
    /\ UNCHANGED <<rtVars, debounceLeft, nudgeLeft, timers, grown, attempts, history>>

\* turn_start re-arms the length stop.
TurnStart ==
    /\ running > 0
    /\ lengthStop
    /\ lengthStop' = FALSE
    /\ UNCHANGED <<sid, persisted, sinceNative, tried, runtimeVars, piVars, history>>

\* A message joins the transcript or the queue.
Grow ==
    /\ running > 0
    /\ ~grown
    /\ grown' = TRUE
    /\ UNCHANGED <<rtVars, runtimeVars, running, queued, attempts, history>>

Submit ==
    /\ queued < MaxQueue
    /\ queued' = queued + 1
    /\ UNCHANGED <<rtVars, runtimeVars, running, grown, attempts, history>>

\* How a turn ends; a poisoned context is its error signature.
Outcomes == {"ok", "length", "overflow"} \cup Signatures

\* errorRetry defers a compaction: for every overflow, and once for each
\* signature of a poisoned context.
Defers(outcome) ==
    /\ AutoCompact
    /\ outcome = "overflow" \/ outcome \in Signatures \ tried
    /\ ~InCooldown
    /\ ~WouldNoop

\* Mutant: the signature is not remembered.
TriedForgets(outcome) == tried

\* The signatures for which a compaction has been attempted, or decided against.
Tried(outcome) ==
    IF AutoCompact /\ outcome \in Signatures THEN tried \cup {outcome} ELSE tried

\* turn_end: lengthStop, then errorRetry's overflow and poisoned branches, then
\* the health mitigation.  The retry nudges of the other categories are queued
\* messages (Submit).
TurnEnd(outcome, unhealthy) ==
    LET defers == Defers(outcome)
        forces == Mitigate /\ unhealthy /\ ~WouldNoop
    IN  /\ running > 0
        /\ defers => Len(timers) < MaxTimers
        /\ forces => Len(attempts) < MaxInFlight
        /\ lengthStop' = (lengthStop \/ (AutoContinue /\ outcome = "length"))
        /\ tried' = Tried(outcome)
        /\ debounceLeft' = IF defers THEN 0 ELSE debounceLeft
        /\ timers' = IF defers
                     THEN Append(timers, [by |-> "recovery", left |-> Defer, sid |-> sid,
                                     critical |-> FALSE])
                     ELSE timers
        /\ attempts' = IF forces THEN Append(attempts, Called("health")) ELSE attempts
        /\ recovered' = IF defers /\ outcome \in Signatures /\ recovered[outcome] < 2
                        THEN [recovered EXCEPT ![outcome] = @ + 1]
                        ELSE recovered
        /\ UNCHANGED <<sid, persisted, sinceNative, activeAgents, nudgeLeft,
                       running, queued, grown, sinceCompact, guarded, nudges>>

\* Mutants: the count is not floored at zero; it is not taken down.
AgentsLeftUnfloored == activeAgents - 1
AgentsLeftStuck == activeAgents

AgentsLeft == IF activeAgents = 0 THEN 0 ELSE activeAgents - 1

\* The last agent of the count ends and pi is idle (ctx.isIdle).
Settles == AgentsLeft = 0 /\ running = 1

\* agent_end takes a durable trim.
Trims(over, critical) ==
    /\ Settles /\ AutoCompact /\ over
    /\ debounceLeft = 0
    /\ ~InCooldown
    /\ critical \/ ~WouldNoop

\* agent_end wants the agent restarted: after a trim, with messages waiting
\* (ctx.hasPendingMessages), or after a length stop.
Restarts(over, critical) ==
    /\ Settles
    /\ \/ AutoCompact /\ (Trims(over, critical) \/ queued > 0)
       \/ AutoContinue /\ lengthStop

\* agent_end: the durable trim and the resume nudge.  `over` and `critical` are
\* the live context usage against the threshold and against 90% of the window.
AgentEnd(over, critical) ==
    LET trims == Trims(over, critical)
        restarts == Restarts(over, critical)
    IN  /\ running > 0
        /\ trims => Len(timers) < MaxTimers /\ Len(attempts) < MaxInFlight
        /\ running' = running - 1
        /\ activeAgents' = AgentsLeft
        /\ debounceLeft' = IF trims THEN Debounce ELSE debounceLeft
        /\ timers' = IF trims /\ Strict
                     THEN Append(timers, [by |-> "trim", left |-> Defer, sid |-> sid,
                                     critical |-> critical])
                     ELSE timers
        /\ attempts' = IF trims /\ ~Strict
                       THEN Append(attempts, Called("trim"))
                       ELSE attempts
        /\ Nudge(restarts)
        /\ lengthStop' = (lengthStop /\ ~(restarts /\ nudgeLeft = 0))
        /\ UNCHANGED <<sid, persisted, sinceNative, tried, grown,
                       sinceCompact, guarded, recovered>>

\* Mutant: the callback trusts the check made when it was scheduled.
StillDueUnchecked(t) == t.sid = sid /\ (t.critical \/ ~WouldNoop)

\* The re-check of a deferred compact.  It was scheduled out of the cooldown, so
\* a timestamp inside it differs from the captured stamp: the code's
\* `lastNativeCompactAt !== stamp && since < cooldown` is InCooldown.
StillDue(t) == t.sid = sid /\ ~InCooldown /\ (t.critical \/ ~WouldNoop)

\* A deferred compact fires.
FireTimer ==
    /\ timers # <<>>
    /\ LET t == Head(timers)
           calls == StillDue(t)
       IN  /\ t.left = 0
           /\ calls => Len(attempts) < MaxInFlight
           /\ timers' = Tail(timers)
           /\ attempts' = IF calls THEN Append(attempts, Called(t.by)) ELSE attempts
    /\ UNCHANGED <<rtVars, activeAgents, debounceLeft, nudgeLeft,
                   running, queued, grown, history>>

\* The context event past its gate and its debounce runs the checkpoint
\* pipeline (invokePipeline, runCompact), which resets the runtime first.
PipelineCompact(headroomExceeded, stored) ==
    /\ AutoCompact
    /\ running > 0
    /\ debounceLeft = 0 \/ headroomExceeded
    /\ debounceLeft' = Debounce
    /\ ResetRuntime(sid)
    /\ Recount(sid)
    /\ persisted' = (KeepsMemory(sid) \/ stored)
    /\ UNCHANGED <<nudgeLeft, timers, piVars, sinceCompact, guarded, nudges>>
-----------------------------------------------------------------------------
(* A compaction *)

\* pi's own threshold check, once its agents have settled.
NativeStart ==
    /\ running = 0
    /\ grown
    /\ Len(attempts) < MaxInFlight
    /\ \A i \in 1..Len(attempts) : attempts[i].by # "pi"
    /\ attempts' = Append(attempts, [by |-> "pi", phase |-> "called"])
    /\ UNCHANGED <<rtVars, runtimeVars, running, queued, grown, history>>

\* pi finds nothing to compact: "Already compacted".
CompactThrows(i) ==
    /\ attempts[i].phase = "called"
    /\ ~grown
    /\ attempts' = RemoveAt(attempts, i)
    /\ UNCHANGED <<rtVars, runtimeVars, running, queued, grown, history>>

\* session_before_compact.  `drive` is what driveNativeCompaction comes to: a
\* summary, a blank one, nothing to summarise, no cut point, or an exception.
\* Without a result pi runs its own compaction, which may fail (`piOk`).
BeforeCompact(i, drive, piOk) ==
    LET recent == KeepsMemory(sid) /\ InCooldown
        drives == AutoCompact /\ ~recent
        supplied == IF recent THEN drive # "noCut"
                              ELSE drive \in {"summary", "blank", "nothing"}
    IN  /\ attempts[i].phase = "called"
        /\ grown
        /\ ResetRuntime(sid)
        /\ Recount(sid)
        /\ persisted' = (KeepsMemory(sid) \/ (drives /\ drive \in {"summary", "blank"}))
        /\ Nudge(drives /\ supplied)
        /\ attempts' = IF (AutoCompact /\ supplied) \/ piOk
                       THEN [attempts EXCEPT ![i].phase = "summarised"]
                       ELSE RemoveAt(attempts, i)
        /\ UNCHANGED <<debounceLeft, timers, running, grown,
                       sinceCompact, guarded>>

\* pi appends the compaction entry.
AppendEntry(i) ==
    /\ attempts[i].phase = "summarised"
    /\ attempts' = [attempts EXCEPT ![i].phase = "appended"]
    /\ grown' = FALSE
    /\ UNCHANGED <<rtVars, runtimeVars, running, queued, history>>

\* session_compact stamps lastNativeCompactAt.
SessionCompact(i) ==
    /\ attempts[i].phase = "appended"
    /\ attempts' = RemoveAt(attempts, i)
    /\ sinceNative' = 0
    /\ sinceCompact' = 0
    /\ guarded' = persisted
    /\ UNCHANGED <<sid, persisted, lengthStop, tried, runtimeVars,
                   running, queued, grown, nudges, recovered>>
-----------------------------------------------------------------------------
(* Sessions and time *)

\* session_start, of the same session (resume) or of another one.
SessionStart(s) ==
    /\ running = 0
    /\ attempts = <<>>
    /\ ResetRuntime(s)
    /\ Recount(s)
    /\ persisted' = KeepsMemory(s)
    /\ grown' \in BOOLEAN
    /\ IF s = sid THEN UNCHANGED <<sinceCompact, guarded>>
       ELSE sinceCompact' = Cooldown /\ guarded' = FALSE
    /\ UNCHANGED <<debounceLeft, nudgeLeft, timers, running, queued, attempts, nudges>>

\* session_tree: the user moves to another branch of the session.
SessionTree ==
    /\ running = 0
    /\ attempts = <<>>
    /\ ResetRuntime(sid)
    /\ Recount(sid)
    /\ persisted' = KeepsMemory(sid)
    /\ grown' \in BOOLEAN
    /\ UNCHANGED <<debounceLeft, nudgeLeft, timers, running, queued, attempts,
                   sinceCompact, guarded, nudges>>

\* session_shutdown, with or without agents still running.
SessionShutdown ==
    /\ activeAgents > 0
    /\ activeAgents' = 0
    /\ UNCHANGED <<rtVars, debounceLeft, nudgeLeft, timers, piVars, history>>

\* 500 ms pass.  A callback may run late: time does not wait for it.
Tick ==
    /\ sinceNative' = AgeTo(sinceNative, Cooldown)
    /\ debounceLeft' = Dec(debounceLeft)
    /\ nudgeLeft' = Dec(nudgeLeft)
    /\ timers' = [k \in 1..Len(timers) |-> [timers[k] EXCEPT !.left = Dec(@)]]
    /\ sinceCompact' = AgeTo(sinceCompact, Cooldown)
    /\ nudges' = [age \in Ages |-> IF age = 0 THEN 0 ELSE nudges[age - 1]]
    /\ UNCHANGED <<sid, persisted, lengthStop, tried, activeAgents, piVars,
                   guarded, recovered>>

AgentSteps ==
    \/ \E next \in BOOLEAN : AgentStart(next)
    \/ TurnStart
    \/ Grow
    \/ Submit
    \/ \E outcome \in Outcomes, unhealthy \in BOOLEAN : TurnEnd(outcome, unhealthy)
    \/ \E over \in BOOLEAN, critical \in BOOLEAN : AgentEnd(over, critical)
    \/ \E headroom \in BOOLEAN, stored \in BOOLEAN : PipelineCompact(headroom, stored)

CompactionSteps ==
    \/ FireTimer
    \/ NativeStart
    \/ \E i \in 1..Len(attempts) :
          \/ CompactThrows(i)
          \/ \E drive \in {"summary", "blank", "nothing", "noCut", "throws"},
                piOk \in BOOLEAN : BeforeCompact(i, drive, piOk)
          \/ AppendEntry(i)
          \/ SessionCompact(i)

SessionSteps ==
    \/ \E s \in Sessions : SessionStart(s)
    \/ SessionTree
    \/ SessionShutdown

Next == AgentSteps \/ CompactionSteps \/ SessionSteps \/ Tick

Spec == Init /\ [][Next]_vars
-----------------------------------------------------------------------------
TypeOK ==
    /\ sid \in Sessions
    /\ persisted \in BOOLEAN /\ lengthStop \in BOOLEAN
    /\ grown \in BOOLEAN /\ guarded \in BOOLEAN
    /\ sinceNative \in 0..Cooldown /\ sinceCompact \in 0..Cooldown
    /\ tried \in SUBSET Signatures
    /\ running \in 0..MaxAgents /\ activeAgents \in 0..MaxAgents
    /\ debounceLeft \in 0..Debounce
    /\ nudgeLeft \in 0..NudgeGap
    /\ queued \in 0..MaxQueue
    /\ timers \in Seq(Timer) /\ Len(timers) <= MaxTimers
    /\ attempts \in Seq(Attempt) /\ Len(attempts) <= MaxInFlight
    /\ nudges \in [Ages -> Nat]
    /\ recovered \in [Signatures -> 0..2]

\* A step in which a race-guarded handler or callback calls ctx.compact(): any
\* call of the extension but the health mitigation's, which has no guard.
GuardedCall ==
    /\ Len(attempts') = Len(attempts) + 1
    /\ attempts'[Len(attempts')].by \in {"trim", "recovery"}

\* The resume nudges of agent_end and of session_before_compact, which share
\* one deadline across sessions and resets, are never closer than NudgeGap: no
\* window of that length holds two.
NudgesAreSpaced ==
    \A a, b \in Ages : nudges[a] > 0 /\ nudges[b] > 0 => a = b /\ nudges[a] = 1

\* The runtime never believes in more agents than run.  With a phantom agent
\* the count would never reach zero again, and agent_end would neither trim nor
\* nudge for the rest of the session.
NoPhantomAgents == activeAgents <= running

\* Once a session keeps its memory, a compaction recorded in it closes the
\* race: for the whole cooldown no handler and no deferred callback, whenever
\* it was scheduled, starts another one.
RecordedCompactionClosesRace ==
    [][GuardedCall /\ guarded => sinceCompact >= Cooldown]_vars

\* ONE guarded compact per error signature: however often a poisoned turn comes
\* back, whatever handler resets the runtime in between and whatever pi compacts
\* on its own, a session that keeps its checkpoint defers no second one for it.
\* (Before the first checkpoint a reset forgets the signatures, and the count
\* starts anew with it.)
OneCompactPerSignature == \A e \in Signatures : recovered[e] <= 1
=============================================================================
