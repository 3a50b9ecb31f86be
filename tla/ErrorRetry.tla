------------------------------ MODULE ErrorRetry ------------------------------
(***************************************************************************)
(* The retry ladder of failed turns: what turn_end does with an error      *)
(* (mega-events/agent-handlers/turnEndHandler/errorRetry.ts and            *)
(* errorRetry-transient.ts), the outage advisory it sends, the reset of    *)
(* its counters by turn_start and by a new session, and the other messages *)
(* that keep a session going: the resume nudge of agent_end, which also    *)
(* continues an answer cut at the output cap, and that of a compaction.    *)
(* Several agents of a team share the counters of one runtime, and the     *)
(* handler awaits between counting an error and deciding on a retry, so    *)
(* the handler of another agent may run in between.                        *)
(*                                                                         *)
(* Time is what is left of errorRetryUntil and of resumeNudgeUntil.        *)
(* Counters that are only compared with a limit stop just above it.        *)
(* Whether agent_end finds the last agent idle, whether it triggers a      *)
(* durable trim and when a compaction runs, the forced one of an           *)
(* overflowing or poisoned turn included, is CompactionControl's and       *)
(* chosen freely here.                                                     *)
(*                                                                         *)
(* External: pi, which queues the messages the extension sends and starts  *)
(* turns, and the provider, which decides how a turn ends.                 *)
(***************************************************************************)
EXTENDS Integers, FiniteSets

CONSTANTS
    Agents,          \* agents that share the runtime
    Texts,           \* normalized error texts
    Retryable,       \* those with a known-retryable marker
    NoText,          \* an error without a text
    SessionMaxes,    \* values of errorRetrySessionMax, 0: no cap
    TransientMax,    \* autoRetryTransientMax
    PermanentMax,    \* autoRetryPermanentMax
    MaxConsecutive,  \* maxConsecutiveErrors
    AdviseAt,        \* providerOutageAdviseThreshold
    PoisonRepeat,    \* poisonedContextRepeatThreshold
    Base,            \* errorRetryBackoffMs
    HardStop,        \* errorRetryHardStop
    AdvisoryChannel, \* advisories go to the dashboard only
    AutoCompact,     \* config.auto
    AutoContinue,    \* config.autoContinueLengthStop
    NudgeGap,        \* the 30 s between two resume nudges
    MaxQueue         \* bound: messages queued when the user prompts or a
                     \* resume nudge is queued

ASSUME RetryAssumption ==
    /\ IsFiniteSet(Agents)
    /\ Retryable \subseteq Texts
    /\ NoText \notin Texts
    /\ SessionMaxes \subseteq Nat
    /\ TransientMax \in Nat /\ PermanentMax \in Nat
    /\ MaxConsecutive \in Nat \ {0}
    /\ AdviseAt \in Nat
    /\ PoisonRepeat \in Nat \ {0}
    /\ Base \in Nat
    /\ HardStop \in BOOLEAN /\ AdvisoryChannel \in BOOLEAN
    /\ AutoCompact \in BOOLEAN /\ AutoContinue \in BOOLEAN
    /\ NudgeGap \in Nat \ {0}
    /\ MaxQueue \in Nat

VARIABLES
    sessionMax,  \* config.errorRetrySessionMax, read once
    phase,       \* of each agent: "idle", "turn", the category whose
                 \* advisory its handler awaits, or "ended": the turn is
                 \* over, agent_end or another turn to come
    count,       \* errorRetryCount
    consecutive, \* consecutiveErrors
    pending,     \* retryNudgePending
    wait,        \* what is left of errorRetryUntil
    session,     \* errorRetrySessionCount, while there is a cap
    advised,     \* providerOutageAdvised
    lastText,    \* lastErrorText
    repeats,     \* errorTextRepeatCount
    lengthStop,  \* lengthStopPending
    gap,         \* what is left of resumeNudgeUntil
    queue,       \* messages pi has queued as follow-ups
    lost,        \* history: the last nudge was never queued
    sent,        \* history: nudges sent since the counters were new
    burst        \* history: nudges sent since consecutive was last 0

counters == <<count, consecutive, pending>>
tracker == <<lastText, repeats>>
history == <<lost, sent, burst>>
vars == <<sessionMax, phase, counters, wait, session, advised, tracker,
          lengthStop, gap, queue, history>>

Categories == {"transient", "permanent"}
Reasons == Texts \cup {NoText}

\* What classifyErrorDetailed can make of a message.  A text with a marker is
\* never taken for a poisoned context or a permanent error.
Outcome ==
    [kind : {"success", "noop", "cancelled", "overflow", "length"},
     text : {NoText}]
    \cup [kind : {"transient"}, text : Reasons]
    \cup [kind : {"permanent"}, text : Reasons \ Retryable]
    \cup [kind : {"poisoned"}, text : Texts \ Retryable]

\* One more, as far as a comparison with limit can tell.
Bump(n, limit) == IF n > limit THEN n ELSE n + 1
ErrorLimit == IF AdviseAt > MaxConsecutive THEN AdviseAt ELSE MaxConsecutive

CategoryMax(category) ==
    IF category = "transient" THEN TransientMax ELSE PermanentMax

\* errorRetryBackoffMs
Backoff(n) == CASE n = 1 -> Base
                [] n = 2 -> 2 * Base
                [] n = 3 -> 4 * Base
                [] OTHER -> 6 * Base
-----------------------------------------------------------------------------
(* turn_start *)

TurnStartKeepsPending(a) ==
    /\ phase[a] \in {"idle", "ended"}
    /\ phase' = [phase EXCEPT ![a] = "turn"]
    /\ count' = 0 /\ lengthStop' = FALSE
    /\ UNCHANGED <<sessionMax, consecutive, pending, wait, session, advised,
                   tracker, gap, sent, burst>>

TurnStart(a) ==
    /\ phase[a] \in {"idle", "ended"}
    /\ phase' = [phase EXCEPT ![a] = "turn"]
    /\ count' = 0 /\ lengthStop' = FALSE
    /\ pending' = FALSE
    /\ UNCHANGED <<sessionMax, consecutive, wait, session, advised, tracker,
                   gap, sent, burst>>

\* The user prompts, or the agent goes on after a tool call.
Prompt(a) ==
    /\ queue <= MaxQueue
    /\ TurnStart(a)
    /\ UNCHANGED <<queue, lost>>

FollowUpOfNothing(a) == TurnStart(a) /\ queue' = queue - 1 /\ UNCHANGED lost

\* pi dispatches a queued follow-up, to an idle agent or before its agent_end.
FollowUp(a) ==
    /\ queue > 0
    /\ TurnStart(a)
    /\ queue' = queue - 1
    /\ UNCHANGED lost
-----------------------------------------------------------------------------
(* turn_end *)

\* The tracker of repeated texts after an outcome.
Track(o) ==
    CASE o.kind \notin {"transient", "poisoned"} ->
           lastText' = NoText /\ repeats' = 0
      [] o.kind \in {"transient", "poisoned"} /\ o.text = NoText ->
           UNCHANGED tracker
      [] OTHER ->
           /\ lastText' = o.text
           /\ repeats' = IF o.text = lastText
                         THEN Bump(repeats, PoisonRepeat) ELSE 1

\* R3 and R7: a transient error whose unmarked text keeps coming back is one
\* that retrying does not cure.
Effective(o) ==
    IF /\ o.kind = "transient" /\ o.text # NoText
       /\ repeats' >= PoisonRepeat
       /\ o.text \notin Retryable
    THEN "poisoned" ELSE o.kind

\* safeSendInvisibleMessage: pi queues the message, or the call fails.
Sends(n) == queue' \in queue..(queue + n)

\* The outcomes after which a burst of errors is over.
Settled(a, kind) ==
    /\ phase' = [phase EXCEPT ![a] = "ended"]
    /\ count' = 0 /\ consecutive' = 0 /\ pending' = FALSE
    /\ advised' = IF kind = "success" THEN FALSE ELSE advised
    /\ burst' = 0
    /\ UNCHANGED <<queue, sent, lost>>

PoisonedSettles(a) ==
    /\ phase' = [phase EXCEPT ![a] = "ended"]
    /\ count' = 0 /\ consecutive' = 0
    /\ UNCHANGED <<queue, pending, advised, sent, burst, lost>>

Poisoned(a) ==
    /\ phase' = [phase EXCEPT ![a] = "ended"]
    /\ count' = 0
    /\ consecutive' = Bump(consecutive, ErrorLimit)
    /\ IF AdvisoryChannel
       THEN UNCHANGED queue
       ELSE Sends(1)
    /\ UNCHANGED <<pending, advised, sent, burst, lost>>

Advisable(category) ==
    /\ category = "transient"
    /\ AdviseAt > 0 /\ ~advised
    /\ consecutive' >= AdviseAt

\* errorRetryHardStop: no error is counted.
Stop(a) ==
    /\ phase' = [phase EXCEPT ![a] = "ended"]
    /\ count' = 0
    /\ UNCHANGED <<consecutive, pending, advised, queue, history>>

\* transientRetry up to its first await.
CountError(a, category) ==
    /\ phase' = [phase EXCEPT ![a] = category]
    /\ consecutive' = Bump(consecutive, ErrorLimit)
    /\ advised' = (advised \/ Advisable(category))
    /\ IF Advisable(category) /\ ~AdvisoryChannel
       THEN Sends(1) ELSE UNCHANGED queue
    /\ UNCHANGED <<count, pending, sent, burst, lost>>

TurnEnd(a) ==
    /\ phase[a] = "turn"
    /\ \E o \in Outcome :
         \/ /\ o.kind = "length"
            /\ phase' = [phase EXCEPT ![a] = "ended"]
            /\ lengthStop' = (lengthStop \/ AutoContinue)
            /\ UNCHANGED <<counters, advised, tracker, queue, history>>
         \/ /\ o.kind # "length"
            /\ Track(o) /\ UNCHANGED lengthStop
            /\ \/ /\ Effective(o) \notin Categories \cup {"poisoned"}
                  /\ Settled(a, o.kind)
               \/ Effective(o) = "poisoned" /\ Poisoned(a)
               \/ /\ Effective(o) \in Categories
                  /\ IF HardStop THEN Stop(a) ELSE CountError(a, Effective(o))
    /\ UNCHANGED <<sessionMax, wait, session, gap>>

BreakerOpenByBurst == count > MaxConsecutive

BreakerOpen == consecutive > MaxConsecutive

CapReachedLate == sessionMax > 0 /\ session > sessionMax

CapReached == sessionMax > 0 /\ session >= sessionMax

\* The retry is sent: every counter is set before the message is.
Nudge(n) ==
    /\ count' = n
    /\ pending' = TRUE
    /\ wait' = Backoff(n)
    /\ session' = IF session < sessionMax THEN session + 1 ELSE session
    /\ Sends(1)
    /\ lost' = (queue' = queue)
    /\ sent' = Bump(sent, sessionMax)
    /\ burst' = Bump(burst, MaxConsecutive + Cardinality(Agents))

NoNudge == UNCHANGED <<pending, wait, session, queue, lost, sent, burst>>

\* transientRetry after the await of the advisory.
Decide(a) ==
    /\ phase[a] \in Categories
    /\ phase' = [phase EXCEPT ![a] = "ended"]
    /\ LET max == CategoryMax(phase[a])
           n == count + 1
       IN  \/ BreakerOpen /\ NoNudge /\ UNCHANGED count
           \/ /\ ~BreakerOpen
              /\ n > max \/ CapReached
              /\ NoNudge /\ count' = 0
           \/ /\ ~BreakerOpen /\ n <= max /\ ~CapReached
              /\ IF pending \/ wait > 0
                 THEN NoNudge /\ count' = n
                 ELSE Nudge(n)
    /\ UNCHANGED <<sessionMax, consecutive, advised, tracker, lengthStop, gap>>
-----------------------------------------------------------------------------
(* agent_end and compactions *)

\* A resume nudge: at most one in 30 s, and no other limit.
Resume ==
    /\ gap = 0 /\ gap' = NudgeGap
    /\ IF queue <= MaxQueue THEN Sends(1) ELSE UNCHANGED queue

\* The agent goes on after a durable trim, for queued work, or where an answer
\* was cut at the output cap.
AgentEnd(a) ==
    /\ phase[a] = "ended"
    /\ phase' = [phase EXCEPT ![a] = "idle"]
    /\ \E lastIdle, trims \in BOOLEAN :
         LET wanted == /\ lastIdle
                       /\ \/ AutoCompact /\ (trims \/ queue > 0)
                          \/ AutoContinue /\ lengthStop
         IN  \/ wanted /\ Resume /\ lengthStop' = FALSE
             \/ ~(wanted /\ gap = 0) /\ UNCHANGED <<lengthStop, gap, queue>>
    /\ UNCHANGED <<sessionMax, counters, wait, session, advised, tracker,
                   history>>

\* nudgeResume, after the extension supplied a compaction.
CompactionNudge ==
    /\ AutoCompact /\ Resume
    /\ UNCHANGED <<sessionMax, phase, counters, wait, session, advised, tracker,
                   lengthStop, history>>
-----------------------------------------------------------------------------
(* Time and sessions *)

\* Date.now passes one deadline or the other.
Elapse ==
    /\ \/ wait > 0 /\ wait' = wait - 1 /\ UNCHANGED gap
       \/ gap > 0 /\ gap' = gap - 1 /\ UNCHANGED wait
    /\ UNCHANGED <<sessionMax, phase, counters, session, advised, tracker,
                   lengthStop, queue, history>>

\* resetRuntime, for a new session or by a compaction of one that has no
\* checkpoint yet, makes every counter new; resumeNudgeUntil is not among them.
\* A handler that awaits meanwhile goes on with the new ones; pi keeps or drops
\* what it has queued.
Reset ==
    /\ count' = 0 /\ consecutive' = 0 /\ pending' = FALSE
    /\ wait' = 0 /\ session' = 0
    /\ advised' = FALSE
    /\ lastText' = NoText /\ repeats' = 0
    /\ lengthStop' = FALSE
    /\ queue' \in {0, queue}
    /\ lost' = FALSE
    /\ sent' = 0 /\ burst' = 0
    /\ UNCHANGED <<sessionMax, phase, gap>>

Init ==
    /\ sessionMax \in SessionMaxes
    /\ phase = [a \in Agents |-> "idle"]
    /\ count = 0 /\ consecutive = 0 /\ pending = FALSE
    /\ wait = 0 /\ session = 0
    /\ advised = FALSE
    /\ lastText = NoText /\ repeats = 0
    /\ lengthStop = FALSE /\ gap = 0
    /\ queue = 0
    /\ lost = FALSE
    /\ sent = 0 /\ burst = 0

\* What an agent does without the user.
Proceed(a) == FollowUp(a) \/ TurnEnd(a) \/ Decide(a) \/ AgentEnd(a)

Next == \/ \E a \in Agents : Prompt(a) \/ Proceed(a)
        \/ CompactionNudge
        \/ Elapse
        \/ Reset

\* A turn ends, a handler that awaits goes on, pi announces the end of an agent
\* and delivers what it queued.
Spec == Init /\ [][Next]_vars /\ \A a \in Agents : WF_vars(Proceed(a))
-----------------------------------------------------------------------------
(* Properties *)

\* The counters are numbers and an agent is in one phase of its turn.
TypeOK ==
    /\ sessionMax \in SessionMaxes
    /\ phase \in [Agents -> {"idle", "turn", "ended"} \cup Categories]
    /\ count \in Nat /\ consecutive \in Nat /\ wait \in Nat
    /\ session \in Nat /\ repeats \in Nat /\ queue \in Nat
    /\ pending \in BOOLEAN /\ advised \in BOOLEAN
    /\ lastText \in Reasons
    /\ lengthStop \in BOOLEAN /\ gap \in 0..NudgeGap
    /\ lost \in BOOLEAN
    /\ sent \in Nat /\ burst \in Nat

\* errorRetrySessionMax: however many bursts a session has, however they
\* interleave, no more nudges are sent in it than its cap allows.
SessionCapHolds == sessionMax > 0 => sent <= sessionMax

\* maxConsecutiveErrors: between two resets of the breaker no more nudges are
\* sent than it allows, and one for each handler such a reset overtook in its
\* await.
BreakerHolds == burst <= MaxConsecutive + Cardinality(Agents)

\* retryNudgePending never outlives the nudge it stands for, so it cannot
\* hold back the next one for ever.
PendingIsQueued == pending => queue > 0 \/ lost

\* A retry leads to a turn and its error to the next retry.  The retries of a
\* session nobody prompts or resets come to an end by themselves, whatever the
\* provider answers.  Only what agent_end and compactions send for their own
\* reasons, a length stop, queued work or a trim, can start a turn after that:
\* those nudges are spaced and have no cap, so the premise is that they stop.
Resumed == gap' > gap
Unattended ==
    <>[][~(Reset \/ Resumed \/ \E a \in Agents : Prompt(a))]_vars
Quiet == queue = 0 /\ \A a \in Agents : phase[a] = "idle"
LoopEnds == Unattended => <>[]Quiet
=============================================================================
