-------------------------------- MODULE Breaker --------------------------------
(***************************************************************************)
(* The circuit breaker of one subsystem (src/vector-cortex/resilience/     *)
(* breaker-core.ts).  A call runs mode A while the breaker is closed, B    *)
(* once A has tripped and C once B has.  An open breaker probes after a    *)
(* cooldown, and probes A only after a time of healthy residence in B.     *)
(*                                                                         *)
(* Clock readings are ages: of every attempt in the window, of the         *)
(* residence, and what is left of the cooldown.  A latency is within the   *)
(* budget or above it; an attempt carries, as history, which of the two    *)
(* its latency was, while the breaker keeps the latencies in a list of     *)
(* their own.  The retry delay is only reported and left out, and so are   *)
(* the frozen frontier and the reasons of a halt.                          *)
(*                                                                         *)
(* External: the code that runs in a mode, the clock, the administrator.   *)
(***************************************************************************)
EXTENDS Integers, SequencesExt

CONSTANTS
    Window,       \* BREAKER_WINDOW_MS, in ticks
    Cooldown,     \* BREAKER_COOLDOWN_MS
    Residence,    \* BREAKER_MIN_HEALTHY_RESIDENCE_MS
    MinAttempts,  \* BREAKER_MIN_ATTEMPTS
    PerfFailures, \* BREAKER_PERF_FAILURES
    PerfRate,     \* BREAKER_PERF_FAILURE_RATE, in percent
    Hysteresis,   \* BREAKER_HYSTERESIS_FAILURE_RATE, in percent
    SlowRate,     \* percent of the latencies that may be above the budget: 5,
                  \* for a 95th percentile
    ProbeCount,   \* BREAKER_PROBE_COUNT
    MaxAttempts   \* bound: attempts in the window

ASSUME BreakerAssumption ==
    /\ Window \in Nat \ {0} /\ Cooldown \in Nat /\ Residence \in Nat
    /\ MinAttempts \in Nat /\ PerfFailures \in Nat
    /\ PerfRate \in 0..100 /\ Hysteresis \in 0..100
    /\ SlowRate \in 0..100
    /\ ProbeCount \in Nat \ {0}
    /\ MaxAttempts \in Nat

VARIABLES
    tracked,   \* the breaker has an entry for the subsystem
    state,
    attempts,  \* ages and results of the attempts, the oldest first;
               \* history: whether their latency was above the budget
    slow,      \* of each latency, whether it is above the budget
    cooldown,  \* what is left of cooldownUntilMs, or None
    probes,    \* probeCount
    residence, \* age of healthyResidenceSinceMs, or None
    streak,    \* history: calls and probes that succeeded in a row
    calm,      \* history: the age of the last failed call
    flawed     \* history: A gave an invalid output since it was last closed

entry == <<attempts, slow, cooldown, probes, residence>>
history == <<streak, calm, flawed>>
vars == <<tracked, state, entry, history>>

None == -1
States == {"CLOSED_A", "OPEN_B", "OPEN_C", "PROBE_B", "PROBE_A", "MANUAL_HALT"}
Probing == {"PROBE_A", "PROBE_B"}

\* The breaker compares an age with a limit only.
Older(age, limit) == IF age = None \/ age >= limit THEN age ELSE age + 1
AtMost(n, limit) == IF n > limit THEN limit ELSE n
-----------------------------------------------------------------------------
(* The window *)

RecentOrFailed(as) == SelectSeq(as, LAMBDA a : a.failed \/ a.age < Window)

\* pruneWindow.  slice(-0) of the latencies is all of them.
Prune(recent, a) == IF a.age < Window THEN Append(recent, a) ELSE recent

Recent(as) ==
    LET upTo[n \in 0..Len(as)] ==
          IF n = 0 THEN <<>> ELSE Prune(upTo[n - 1], as[n])
    IN  upTo[Len(as)]

LatenciesFirst(n, ls) == IF n = 0 THEN ls ELSE SubSeq(ls, 1, n)

LatenciesOf(n, ls) == IF n = 0 THEN ls ELSE SubSeq(ls, Len(ls) - n + 1, Len(ls))

Failures(as) == Len(SelectSeq(as, LAMBDA a : a.failed))

\* percentile(latencies, 95) <= BREAKER_HYSTERESIS_BUDGET_P95_MS
P95Within(ls) ==
    Len(SelectSeq(ls, LAMBDA above : above)) <= (SlowRate * Len(ls)) \div 100

CanPromote(as, ls) ==
    /\ as # <<>> => 100 * Failures(as) < Hysteresis * Len(as)
    /\ as = <<>> => Hysteresis > 0
    /\ P95Within(ls)
-----------------------------------------------------------------------------
(* Transitions; cd, pc and res are the cooldown, the probe count and the      *)
(* residence they leave.                                                      *)

Becomes(s, cd, pc, res) ==
    /\ state' = s /\ cooldown' = cd /\ probes' = pc /\ residence' = res

OpenLonger(s) ==
    Becomes(s, 2 * Cooldown, 0, IF s = "OPEN_B" THEN 0 ELSE residence)

\* openTo
Open(s) == Becomes(s, Cooldown, 0, IF s = "OPEN_B" THEN 0 ELSE residence)

\* maybeProbe
MayProbeEarly ==
    /\ state \in {"OPEN_B", "OPEN_C"}
    /\ cooldown = 0

MayProbe ==
    /\ state \in {"OPEN_B", "OPEN_C"}
    /\ cooldown = 0
    /\ state = "OPEN_B" => (IF residence = None THEN 0 ELSE residence) >= Residence

\* advanceProbe in state s, over the window as and the latencies ls; cd is
\* the cooldown that maybeProbe left.
AdvanceProbe(s, cd, as, ls) ==
    \/ /\ s \notin Probing
       /\ Becomes(s, cd, probes, residence)
    \/ /\ s \in Probing /\ probes + 1 < ProbeCount
       /\ Becomes(s, cd, probes + 1, residence)
    \/ /\ s \in Probing /\ probes + 1 >= ProbeCount
       /\ ~CanPromote(as, ls)
       /\ Becomes(s, cd, 0, residence)
    \/ /\ s \in Probing /\ probes + 1 >= ProbeCount
       /\ CanPromote(as, ls)
       /\ IF s = "PROBE_B"
          THEN Becomes("OPEN_B", Cooldown, 0, 0)
          ELSE Becomes("CLOSED_A", cd, 0, residence)

Succeed(as, ls) ==
    IF MayProbe
    THEN AdvanceProbe(IF state = "OPEN_C" THEN "PROBE_B" ELSE "PROBE_A", None, as, ls)
    ELSE AdvanceProbe(state, cooldown, as, ls)

\* execute: what a failure of mode A does to a closed breaker.
TripsLate(kind, as) ==
    /\ Len(as) >= MinAttempts
    /\ Failures(as) >= PerfFailures \/ 100 * Failures(as) >= PerfRate * Len(as)

Trips(kind, as) ==
    \/ kind = "invalid"
    \/ 100 * Failures(as) < PerfRate * Len(as)
    \/ /\ Len(as) >= MinAttempts
       /\ \/ Failures(as) >= PerfFailures
          \/ 100 * Failures(as) >= PerfRate * Len(as)

\* execute, when the mode it ran failed.  A failure of C changes nothing.
Fail(kind, as) ==
    \/ state = "PROBE_A" /\ Open("OPEN_B")
    \/ state \in {"PROBE_B", "OPEN_B"} /\ Open("OPEN_C")
    \/ state = "CLOSED_A" /\ Trips(kind, as) /\ Open("OPEN_B")
    \/ /\ \/ state = "CLOSED_A" /\ ~Trips(kind, as)
          \/ state \in {"OPEN_C", "MANUAL_HALT"}
       /\ Becomes(state, cooldown, probes, residence)
-----------------------------------------------------------------------------
(* Operations *)

\* execute, with the result of the mode it runs.
Call(result) ==
    LET before == Recent(attempts)
        as == Append(before, [age |-> 0, failed |-> result \in {"invalid", "threw"},
                               late |-> result = "slow"])
        ls == Append(LatenciesOf(Len(before), slow), result = "slow")
    IN  /\ Len(before) < MaxAttempts
        /\ tracked' = TRUE
        /\ attempts' = as
        /\ slow' = LatenciesOf(Len(as), ls)
        /\ IF result \in {"ok", "slow"}
           THEN /\ Succeed(as, ls)
                /\ streak' = AtMost(streak + 1, ProbeCount)
                /\ flawed' = (flawed /\ state' # "CLOSED_A")
                /\ UNCHANGED calm
           ELSE /\ Fail(result, as)
                /\ streak' = 0
                /\ calm' = 0
                /\ flawed' = (flawed \/ (state = "CLOSED_A" /\ result = "invalid"))

\* recordProbe: a probe that succeeded elsewhere.
RecordProbe ==
    /\ tracked' = TRUE
    /\ Succeed(attempts, slow)
    /\ attempts' = Recent(attempts)
    /\ slow' = LatenciesOf(Len(Recent(attempts)), slow)
    /\ streak' = AtMost(streak + 1, ProbeCount)
    /\ flawed' = (flawed /\ state' # "CLOSED_A")
    /\ UNCHANGED calm

Pruned ==
    /\ attempts' = Recent(attempts)
    /\ slow' = LatenciesOf(Len(Recent(attempts)), slow)

\* modeFor and snapshot make the entry and prune it.
Look ==
    /\ tracked' = TRUE
    /\ Pruned
    /\ UNCHANGED <<state, cooldown, probes, residence, history>>

\* manualHalt reaches the subsystems that have an entry.
ManualHalt ==
    /\ tracked
    /\ Pruned
    /\ Becomes("MANUAL_HALT", None, 0, residence)
    /\ UNCHANGED <<tracked, history>>

\* reset
Reset ==
    /\ tracked' = TRUE
    /\ Pruned
    /\ Becomes(IF state = "MANUAL_HALT" THEN "OPEN_B" ELSE state, None, 0, residence)
    /\ UNCHANGED history

Tick ==
    /\ attempts' = [i \in DOMAIN attempts |->
                     [attempts[i] EXCEPT !.age = Older(@, Window)]]
    /\ cooldown' = IF cooldown > 0 THEN cooldown - 1 ELSE cooldown
    /\ residence' = Older(residence, Residence)
    /\ calm' = Older(calm, Residence)
    /\ UNCHANGED <<tracked, state, slow, probes, streak, flawed>>

Init ==
    /\ tracked = FALSE
    /\ state = "CLOSED_A"
    /\ attempts = <<>> /\ slow = <<>>
    /\ cooldown = None /\ probes = 0 /\ residence = None
    /\ streak = 0 /\ calm = Residence /\ flawed = FALSE

Good == Call("ok")
Bad == Call("slow") \/ Call("invalid") \/ Call("threw")

Next == Good \/ Bad \/ RecordProbe \/ Look \/ ManualHalt \/ Reset \/ Tick

\* The subsystem keeps being called, and time passes.
Spec == Init /\ [][Next]_vars /\ WF_vars(Good \/ Bad) /\ WF_vars(Tick)
-----------------------------------------------------------------------------
(* Properties *)

Attempt == [age : 0..Window, failed : BOOLEAN, late : BOOLEAN]

\* The entry of a subsystem: its ages, probe count and cooldown within their
\* limits.
TypeOK ==
    /\ tracked \in BOOLEAN
    /\ state \in States
    /\ attempts \in Seq(Attempt)
    /\ slow \in Seq(BOOLEAN)
    /\ cooldown \in None..Cooldown
    /\ probes \in 0..(ProbeCount - 1)
    /\ residence \in None..Residence
    /\ streak \in 0..ProbeCount /\ calm \in 0..Residence /\ flawed \in BOOLEAN

\* BREAKER_MIN_HEALTHY_RESIDENCE_MS and BREAKER_PROBE_COUNT: however calls,
\* probes, halts and resets follow one another, A is closed again only after
\* the residence has passed without a failed call, and that many successes.
PromotionIsEarned ==
    [][state # "CLOSED_A" /\ state' = "CLOSED_A"
         => calm >= Residence /\ streak' >= ProbeCount]_vars

\* An invalid output of A is zero-tolerance: A is not run again before it is
\* promoted.  Of B this does not hold: an invalid output of a probe of A opens to
\* OPEN_B, which runs B.
FlawedIsOpen == flawed => state # "CLOSED_A"

\* A step that promotes to A, or from C to B.
Promotes == \/ state # "CLOSED_A" /\ state' = "CLOSED_A"
            \/ state \in {"OPEN_C", "PROBE_B"} /\ state' = "OPEN_B"

\* The attempts it judges: those recordProbe finds, or the window with the call.
Judged == IF RecordProbe THEN attempts ELSE attempts'

\* What canPromote should see of them: their failures and their latencies.
Allows(as) == CanPromote(as, [i \in DOMAIN as |-> as[i].late])

\* It found the window empty, with the latencies of an earlier one left.
Emptied == IF RecordProbe THEN attempts = <<>> ELSE Len(attempts') = 1

\* The latencies are kept apart from the attempts and cut to their number.
\* However attempts slide out of the window, a promotion is decided on the
\* failures and the latencies of the same attempts.  Not so the first call after
\* a pause that emptied the window: PausedPromotionIsOnWindow.
PromotionIsOnWindow == [][Promotes /\ ~Emptied => Allows(Judged)]_vars

\* canPromote's comment: a recovery probe that passes but with a poor window must
\* not promote.
PausedPromotionIsOnWindow == [][Promotes => Allows(Judged)]_vars

\* A subsystem that stops failing is served by A again in the end, once it is
\* not halted, and unless a reset has cleared the cooldown of an open breaker.
Healed == <>[][~(ManualHalt \/ Reset \/ Bad)]_vars /\ <>[](state # "MANUAL_HALT")
CooldownKept == [](state \in {"OPEN_B", "OPEN_C"} => cooldown # None)
Recovers == Healed /\ CooldownKept => <>[](state = "CLOSED_A")
=============================================================================
