------------------------------- MODULE LiveTrim -------------------------------
(***************************************************************************)
(* The `context` event (src/extensions/mega-events/context-handler.ts):    *)
(* before every model call pi asks for the view of the branch that the     *)
(* model will see.  The handler sends the branch as it is, replays a       *)
(* cached trim, or runs the checkpoint pipeline and builds a new trim, in  *)
(* which a summary of the region 1..compactedFrom stands for the messages  *)
(* 1..cut.  The cached cut is an index into the branch, and the branch     *)
(* changes under it: pi appends, compacts, navigates and changes sessions. *)
(* The thrash guard refuses a pipeline run after one that did not shrink   *)
(* the window.                                                             *)
(*                                                                         *)
(* The handler awaits once, between the pipeline and the new view          *)
(* (StartRun, FinishRun).  pi waits for it before it touches the branch,   *)
(* but a slash command runs at once.                                       *)
(*                                                                         *)
(* Tokens are levels, reported anew by the provider at every event, with 0 *)
(* for a mark that is not set; percent and token basis of the gate are     *)
(* alike.  The cut is any index up to compactedFrom (TrimBoundary models   *)
(* which one), the tail cap is TrimBoundary's, and checkpoint ids are the  *)
(* numbers in which a session's store hands them out.  config.auto and     *)
(* config.threeWayFailback are on, config.legacyDurableTrim is off.        *)
(***************************************************************************)
EXTENDS Integers, Sequences

CONSTANTS
    Messages,       \* messages of a transcript
    MaxLen,         \* bound: length of a branch
    MaxCheckpoints, \* bound: checkpoints of one session's store
    MaxTokens,      \* bound: token levels
    FireAt,         \* the fire point of the gate
    HeadroomAt,     \* from here on the model's output no longer fits
    GrowthDelta,    \* growth after which a cached view is regenerated
    Reduction,      \* the least drop that counts as a shrink
    Rearm,          \* growth the armed guard asks for
    Preserves       \* recent messages the pipeline leaves, by pressure; at
                    \* least one

ASSUME LiveTrimAssumption ==
    /\ MaxLen \in Nat /\ MaxCheckpoints \in Nat /\ MaxTokens \in Nat
    /\ FireAt \in Nat /\ HeadroomAt \in Nat
    /\ GrowthDelta \in Nat /\ Reduction \in Nat \ {0} /\ Rearm \in Nat
    /\ Preserves \subseteq Nat \ {0}

VARIABLES
    branch,       \* the messages pi passes to the event
    long,         \* the session's entries hold two messages or more
    \* runtime.rt
    persisted,    \* rt.persistedThisSession
    last,         \* rt.lastCheckpointId
    forced,       \* rt.forceCompactNextGate
    \* the rest of MegaRuntime
    cache,        \* runtime.trimCache, with the region its summary stands for
    debounced,    \* Date.now() < runtime.debounceUntil
    run,          \* a pipeline run whose handler is at its await
    \* the thrash guard
    liveBefore,   \* sessionBefore: tokens at the last pipeline run
    armedOn,      \* armedOnEvent: tokens at the event that armed the guard
    blockedUntil, \* thrasguard.blocked_until in the repository's store
    \* the store
    checkpoints,  \* checkpoints of the session
    \* history
    seen,         \* what the last event found and did
    moved         \* the user moved on the tree since the cache was built

rt == <<persisted, last, forced>>
guard == <<liveBefore, armedOn, blockedUntil>>
session == <<branch, long>>
history == <<seen, moved>>
vars == <<session, rt, cache, debounced, run, guard, checkpoints, history>>

Tokens == 1..MaxTokens
Ids == 1..MaxCheckpoints
Cached == [key : Ids \cup {0}, cut : Nat, region : Seq(Messages), tokens : Nat]
NoCache == [key |-> 0, cut |-> 0, region |-> <<>>, tokens |-> 0]
Run == [id : Ids \cup {0}, keepFrom : Nat, tokens : Nat]
NoRun == [id |-> 0, keepFrom |-> 0, tokens |-> 0]
Awaiting == run # NoRun

In(s) == {s[i] : i \in 1..Len(s)}
-----------------------------------------------------------------------------
(* The runtime reset: rt and the cache survive only in a session that has  *)
(* persisted a checkpoint.                                                 *)

LastKept(keeps) == IF keeps THEN last ELSE 0

CacheKept(keeps) == IF keeps THEN cache ELSE NoCache
-----------------------------------------------------------------------------
(* The gate and the cached view *)

\* gate.headroomExceeded: the forced trip returns before the headroom check.
HeadroomExceeded(t) == ~forced /\ t >= HeadroomAt

Passes(t) == forced \/ t >= HeadroomAt \/ t >= FireAt

\* A cached view belongs to this epoch and is no longer than the branch.
Fits(c, id) == c.key # 0 /\ c.key = id /\ c.cut <= Len(branch)

Replays(t) == Fits(cache, last) /\ t - cache.tokens < GrowthDelta
-----------------------------------------------------------------------------
(* The thrash guard *)

\* evaluatePendingReduction judges the last pipeline run by this event's
\* tokens: an ineffective one arms the guard, an effective one disarms it.
Ineffective(t) == liveBefore # 0 /\ liveBefore - t < Reduction
Effective(t) == liveBefore # 0 /\ liveBefore - t >= Reduction

BlockedUntil(t) ==
    IF Ineffective(t) THEN t + Rearm
    ELSE IF Effective(t) THEN 0 ELSE blockedUntil

ArmedOn(t) == IF Ineffective(t) THEN t ELSE armedOn

\* isThrashBlockedFor, with the one reading it exempts.
Blocked(t) == t < BlockedUntil(t)
Exempt(t) == Blocked(t) /\ t = ArmedOn(t)
Refused(t) == ~HeadroomExceeded(t) /\ Blocked(t) /\ ~Exempt(t)

\* Every event judges; one that reaches the guard also uses its exemption up.
Judge(t) ==
    /\ liveBefore' = 0
    /\ blockedUntil' = BlockedUntil(t)
    /\ armedOn' = ArmedOn(t)

JudgeAndConsult(t) ==
    /\ liveBefore' = 0
    /\ blockedUntil' = BlockedUntil(t)
    /\ armedOn' = IF ~HeadroomExceeded(t) /\ Exempt(t) THEN 0 ELSE ArmedOn(t)

\* What an event found, and what it did.
Outcomes == {"none", "sent", "refused", "debounced", "acted"}
Saw(t, did) == seen' = [over |-> t >= HeadroomAt, forced |-> forced, did |-> did]
-----------------------------------------------------------------------------
(* The event *)

\* The gate does not pass: the branch is sent as it is.
BelowGate(t) ==
    /\ ~Awaiting
    /\ ~Passes(t)
    /\ Judge(t)
    /\ Saw(t, "sent")
    /\ UNCHANGED <<session, rt, cache, debounced, run, checkpoints, moved>>

\* The cached view is replayed, behind the branch's messages from the cut on.
Replay(t) ==
    /\ ~Awaiting
    /\ Passes(t)
    /\ Replays(t)
    /\ forced' = FALSE
    /\ Judge(t)
    /\ Saw(t, "acted")
    /\ UNCHANGED <<session, persisted, last, cache, debounced, run, checkpoints, moved>>

\* A compaction is due but the guard refuses it.
Refuse(t) ==
    /\ ~Awaiting
    /\ Passes(t) /\ ~Replays(t)
    /\ Refused(t)
    /\ forced' = FALSE
    /\ JudgeAndConsult(t)
    /\ Saw(t, "refused")
    /\ UNCHANGED <<session, persisted, last, cache, debounced, run, checkpoints, moved>>

Due(t) == Passes(t) /\ ~Replays(t) /\ ~Refused(t)

\* Mutant: an event over the headroom is debounced like any other.
DebounceHoldsAlways(t) == debounced

\* A debounced event waits, unless it is over the headroom.
DebounceHolds(t) == debounced /\ ~HeadroomExceeded(t)

Debounce(t) ==
    /\ ~Awaiting
    /\ Due(t)
    /\ DebounceHolds(t)
    /\ forced' = FALSE
    /\ JudgeAndConsult(t)
    /\ Saw(t, "debounced")
    /\ UNCHANGED <<session, persisted, last, cache, debounced, run, checkpoints, moved>>
-----------------------------------------------------------------------------
(* The pipeline *)

\* Mutant: a branch shorter than the preserve is not clamped.
KeepFromsUnclamped == {Len(branch) - p : p \in Preserves}

\* keepFrom: all but the preserved messages, or all but the last one of a
\* branch that short.
KeepFroms ==
    {Len(branch) - p : p \in {q \in Preserves : q < Len(branch)}}
        \cup {k \in {Len(branch) - 1} : k > 0 /\ \E p \in Preserves : p >= Len(branch)}

NothingToCompact == Len(branch) <= 1 /\ \E p \in Preserves : p >= Len(branch)

\* store.add matches a checkpoint of the session or writes the next one.
Stores(id, deduped) ==
    /\ id \in Ids
    /\ IF deduped THEN id <= checkpoints ELSE id = checkpoints + 1
    /\ checkpoints' = IF deduped THEN checkpoints ELSE id

\* runCompact: the runtime is reset, the region stored and its checkpoint, be
\* it matched or written, recorded as the one behind this epoch.
RunCompact(id, deduped) ==
    /\ Stores(id, deduped)
    /\ persisted' = (persisted \/ ~deduped)
    /\ last' = id
    /\ cache' = CacheKept(persisted)

\* Nothing to compact: the reset stays, and a cache that survives it is
\* replayed.
SkippedRun(t) ==
    /\ ~Awaiting
    /\ Due(t) /\ ~DebounceHolds(t)
    /\ NothingToCompact
    /\ debounced' = TRUE
    /\ forced' = FALSE
    /\ last' = LastKept(persisted)
    /\ cache' = CacheKept(persisted)
    /\ JudgeAndConsult(t)
    /\ Saw(t, "acted")
    /\ UNCHANGED <<session, persisted, run, checkpoints, moved>>

\* The handler up to its await.
StartRun(t) ==
    /\ ~Awaiting
    /\ Due(t) /\ ~DebounceHolds(t)
    /\ debounced' = TRUE
    /\ forced' = FALSE
    /\ \E id \in Ids, deduped \in BOOLEAN, k \in KeepFroms :
           /\ RunCompact(id, deduped)
           /\ run' = [id |-> id, keepFrom |-> k, tokens |-> t]
    /\ JudgeAndConsult(t)
    /\ Saw(t, "acted")
    /\ UNCHANGED <<session, moved>>

\* Mutant: the cache is keyed by the run's own checkpoint.
KeyOfRun == run.id

\* The epoch's checkpoint, read after the await.
Key == IF last = 0 THEN run.id ELSE last

\* After the await: the run is marked for the guard, and a view is built and
\* cached unless no cut is safe.
FinishRun ==
    /\ Awaiting
    /\ liveBefore' = run.tokens
    /\ \/ UNCHANGED <<cache, moved>>
       \/ /\ \E c \in 1..run.keepFrom :
                 cache' = [key |-> Key, cut |-> c, tokens |-> run.tokens,
                           region |-> SubSeq(branch, 1, run.keepFrom)]
          /\ moved' = FALSE
    /\ run' = NoRun
    /\ UNCHANGED <<session, rt, debounced, armedOn, blockedUntil, checkpoints,
                   seen>>

ContextEvent ==
    \E t \in Tokens : \/ BelowGate(t) \/ Replay(t) \/ Refuse(t)
                      \/ Debounce(t) \/ SkippedRun(t) \/ StartRun(t)
-----------------------------------------------------------------------------
(* Other handlers and commands *)

\* /mega-compact: the pipeline over all of the session's entries, those pi has
\* compacted or left on another branch too, at any time.
CompactCommand ==
    /\ long
    /\ \E id \in Ids, deduped \in BOOLEAN : RunCompact(id, deduped)
    /\ forced' = (persisted /\ forced)
    /\ UNCHANGED <<session, debounced, run, guard, history>>

CompactCommandSkips ==
    /\ ~long
    /\ last' = LastKept(persisted)
    /\ cache' = CacheKept(persisted)
    /\ forced' = (persisted /\ forced)
    /\ UNCHANGED <<session, persisted, debounced, run, guard, checkpoints, history>>

\* turn_end, lengthStop: a truncated answer forces the next gate.
LengthStop ==
    /\ ~Awaiting
    /\ forced' = TRUE
    /\ UNCHANGED <<session, persisted, last, cache, debounced, run, guard,
                   checkpoints, history>>

\* turn_end, contextHealth: a poisoned prefix is broken.
BreakPrefix ==
    /\ ~Awaiting
    /\ cache' = NoCache
    /\ UNCHANGED <<session, rt, debounced, run, guard, checkpoints, history>>

\* agent_end claims the shared debounce for a durable trim.
AgentEndTrim ==
    /\ ~Awaiting
    /\ ~debounced
    /\ debounced' = TRUE
    /\ UNCHANGED <<session, rt, cache, run, guard, checkpoints, history>>

\* Two seconds pass.
Elapse ==
    /\ debounced
    /\ debounced' = FALSE
    /\ UNCHANGED <<session, rt, cache, run, guard, checkpoints, history>>

\* session_before_compact resets the runtime, and the driver may store a
\* checkpoint, matched or new.
BeforeCompact ==
    /\ last' = LastKept(persisted)
    /\ forced' = (persisted /\ forced)
    /\ \/ UNCHANGED <<persisted, checkpoints>>
       \/ /\ persisted' = TRUE
          /\ \E id \in Ids, deduped \in BOOLEAN : Stores(id, deduped)

\* Mutant: session_compact leaves the cache.
CacheAfterTruncation == CacheKept(persisted)

\* session_compact drops the cached view.
CacheAfterCompact == NoCache

\* A durable compaction: pi replaces a prefix of the branch by a summary.
DurableCompact ==
    /\ ~Awaiting
    /\ BeforeCompact
    /\ \E k \in 1..Len(branch), s \in Messages \ In(branch) :
           branch' = <<s>> \o SubSeq(branch, k + 1, Len(branch))
    /\ long' = TRUE
    /\ cache' = CacheAfterCompact
    /\ UNCHANGED <<debounced, run, guard, history>>

\* A durable compaction that fails behind the handler.
DurableCompactFails ==
    /\ ~Awaiting
    /\ BeforeCompact
    /\ cache' = CacheKept(persisted)
    /\ UNCHANGED <<session, debounced, run, guard, history>>

\* pi appends a message to the branch, one neither on it nor summarised.
AppendMessage ==
    /\ ~Awaiting
    /\ Len(branch) < MaxLen
    /\ \E m \in Messages \ (In(branch) \cup In(cache.region)) :
           branch' = Append(branch, m)
    /\ long' = (long \/ branch # <<>>)
    /\ UNCHANGED <<rt, cache, debounced, run, guard, checkpoints, history>>

\* session_start in the same process, which disarms the guard's store.
SessionStart ==
    /\ ~Awaiting
    /\ \/ /\ \E n \in 0..Len(branch) :      \* a new session, or a fork of this one
                 branch' = SubSeq(branch, 1, n) /\ long' = (n > 1)
          /\ checkpoints' \in 0..MaxCheckpoints
          /\ persisted' = FALSE /\ last' = 0 /\ forced' = FALSE
          /\ cache' = CacheKept(FALSE)
       \/ /\ UNCHANGED <<session, persisted, checkpoints>>     \* the same again
          /\ last' = LastKept(persisted)
          /\ forced' = (persisted /\ forced)
          /\ cache' = CacheKept(persisted)
    /\ blockedUntil' = 0
    /\ UNCHANGED <<debounced, run, liveBefore, armedOn, seen, moved>>

\* session_tree: pi moves back on the branch, and the runtime is reset.
SessionTree ==
    /\ ~Awaiting
    /\ \E n \in 0..(Len(branch) - 1) : branch' = SubSeq(branch, 1, n)
    /\ last' = LastKept(persisted)
    /\ forced' = (persisted /\ forced)
    /\ cache' = CacheKept(persisted)
    /\ moved' = TRUE
    /\ UNCHANGED <<long, persisted, debounced, run, guard, checkpoints, seen>>

\* The process ends, at an await too, and another one resumes the session.
Restart ==
    /\ persisted' = FALSE /\ last' = 0 /\ forced' = FALSE
    /\ cache' = NoCache /\ debounced' = FALSE /\ run' = NoRun
    /\ liveBefore' = 0 /\ armedOn' = 0 /\ blockedUntil' = 0
    /\ UNCHANGED <<session, checkpoints, seen, moved>>

Init ==
    /\ branch = <<>> /\ long = FALSE /\ moved = FALSE
    /\ checkpoints \in 0..MaxCheckpoints
    /\ persisted = FALSE /\ last = 0 /\ forced = FALSE
    /\ cache = NoCache /\ debounced = FALSE /\ run = NoRun
    /\ liveBefore = 0 /\ armedOn = 0 /\ blockedUntil = 0
    /\ seen = [over |-> FALSE, forced |-> FALSE, did |-> "none"]

Next ==
    \/ ContextEvent \/ FinishRun
    \/ CompactCommand \/ CompactCommandSkips
    \/ LengthStop \/ BreakPrefix \/ AgentEndTrim \/ Elapse
    \/ DurableCompact \/ DurableCompactFails
    \/ AppendMessage \/ SessionStart \/ SessionTree \/ Restart

Spec == Init /\ [][Next]_vars
-----------------------------------------------------------------------------
(* Properties *)

TypeOK ==
    /\ branch \in Seq(Messages)
    /\ long \in BOOLEAN /\ moved \in BOOLEAN
    /\ persisted \in BOOLEAN /\ forced \in BOOLEAN /\ debounced \in BOOLEAN
    /\ last \in Ids \cup {0}
    /\ cache \in Cached
    /\ run \in Run
    /\ liveBefore \in Nat /\ armedOn \in Nat /\ blockedUntil \in Nat
    /\ checkpoints \in 0..MaxCheckpoints
    /\ seen \in [over : BOOLEAN, forced : BOOLEAN, did : Outcomes]

IsPrefix(s, t) == Len(s) <= Len(t) /\ \A i \in 1..Len(s) : s[i] = t[i]

StandsFor(c, b) == c.cut <= Len(c.region) /\ IsPrefix(c.region, b)

\* A view that would be replayed belongs to the branch it would be replayed
\* on: what it leaves out is what its summary stands for, and the summary
\* tells of nothing but the head of this branch.  Appends, compactions,
\* commands, resets and session changes all move the branch, the epoch or the
\* cache (context-handler.ts:229-245); navigation is the exception below.
ReplayStandsForBranch == Fits(cache, last) /\ ~moved => StandsFor(cache, branch)

\* The same after navigation (context-handler.ts:229-232, session-handlers.ts:
\* 124): false, since the reset keeps the cache of a session that has persisted
\* a checkpoint (reset-runtime.ts:51) and a cut that still fits is replayed.
NavigatedReplayStandsForBranch == Fits(cache, last) => StandsFor(cache, branch)

\* An event over the output headroom is never sent as it is: it gets a cached
\* view or a pipeline run, whatever the debounce and the guard say, unless the
\* gate was forced (gateCheck.ts:150-152, context-handler.ts:288-297).
HeadroomIsActedOn == seen.over /\ ~seen.forced => seen.did = "acted"

\* A view that has just been built can be replayed by the next event, whatever
\* a command has recorded while the handler was waiting and whether its region
\* was written or matched (compact/run.ts:112-125, liveTrim.ts:205-224).
BuiltViewsReplay ==
    [][Awaiting /\ cache' # cache /\ cache' # NoCache => Fits(cache', last')]_vars
=============================================================================
