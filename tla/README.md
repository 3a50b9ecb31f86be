# A formal model of pi-mega-compact

pi-mega-compact is an extension of the pi coding agent. It watches the
transcript of a session and, when the model's context fills up, replaces old
messages by a summary: for one model call (the *live trim* of the `context`
hook) or for good (a *durable compaction* through `ctx.compact()`). What it
removes goes to a local store, from which it is deduplicated, clustered and
recalled. A second body of code, the vector cortex, records the same events in
a ledger behind a circuit breaker and a durable spool.

This directory holds TLA+ models of that code, the TLC configurations that check
them and the proofs that TLAPS checks. `PROJECT.json` is the index: which
definition stands for which lines, which run checks which property, which
mutated definition breaks it, and which hazard of the code it is about.

1. [Inventory](#1-inventory): the parts of the system
2. [The modules](#2-the-modules): what is modelled and how it maps to the code
3. [The runs](#3-the-runs): what is checked, with which bounds
4. [The proofs](#4-the-proofs): what is proved, from what, along which argument
5. [What the models found](#5-what-the-models-found)
6. [What is not modelled](#6-what-is-not-modelled)
7. [Plan](#7-plan)

Paths are relative to the repository.

## 1. Inventory

`extensions/` is the pi extension: it registers handlers for pi's events, all of
which share one `MegaRuntime`. `src/` is the engine, which knows nothing of pi.
Everything runs in one Node process; there is no thread, and what makes the code
concurrent is that handlers `await`, that two of them defer work by `setTimeout`,
that pi calls back in the middle of a compaction the extension has started, and
that several agents (subagents) share one runtime.

| Part | State it keeps | Operations | Talks to |
|---|---|---|---|
| **Trim boundaries** `src/boundary.ts`, `extensions/mega-trim.ts`, `context-handler/headroom.ts` | none (pure) | `computeDropRange`, `computeLiveTrimCut`, `applyTailCap`, `resolveOutputReserve` | called by the context event, the adapter and the pipeline |
| **Compaction control** `mega-events/agent-handlers*`, `compact-handlers.ts`, `mega-runtime/reset-runtime.ts` | `runtime.rt` (session id, persisted flag, timestamp of the last compaction, compacted error signatures), agent count, debounce and nudge deadlines, pending timers | agent and turn events, durable trim, overflow and poison recovery, health mitigation, `session_before_compact`, `session_compact`, `resetRuntime` | pi (`ctx.compact`, its queue and its events), the pipeline, the race guard |
| **Context event** `mega-events/context-handler.ts` and directory | `trimCache` (cut, epoch, summary), thrash-guard counters | gate, pipeline, live trim, cached replay, tail cap | the pipeline (`await`), the boundaries, the runtime |
| **Checkpoint pipeline** `mega-pipeline*`, `mega-compact-driver.ts` | checkpoints in the store, debounce | `runCompact`, `driveNativeCompaction`, `runRecall` | the engine, the store, `resetRuntime` |
| **Session events** `session-handlers.ts` | bindings of the runtime | `session_start`, `session_tree`, `session_shutdown` | `resetRuntime`, the store |
| **Error retry, outage advisor** `errorRetry.ts`, `errorRetry-transient.ts`, `outage-advisor.ts` | retry counters, backoff, session cap, outage flag, dedup flag | classify, count, await, back off, retry, give up | pi's queue, the compactions it forces |
| **Mirror** `mirror-append.ts`, `src/mirror/dedup.ts`, `src/store/sqlite/{raw-transcript,context-hwm,dedup-mirror,maintenance}.ts` | `raw_transcript`, `context_hwm`, `dedup_mirror` | append the tail of the transcript, deduplicate what was compacted, prune, reconcile | the context event, the durable compaction, other sessions through shared hashes |
| **Durable spool** `src/vector-cortex/resilience/spool-core.ts` | one append-only file per session, queue of frames, acknowledged high-water | open, append, drain, acknowledge | the authority (the ledger) through a callback |
| **Breaker** `breaker-core.ts` | per subsystem: state, window, cooldown, probe count, residence | `execute`, `recordProbe`, `modeFor`, `manualHalt`, `reset` | the three modes A, B, C |
| **Ledger and compat journal** `src/vector-cortex/ledger`, `vector-cortex-ledger.ts`, migration M2 | `occurrence_v2`, `ledger_high_water`, `compat_journal_v1` and its phase | append in a savepoint, journal, export, validate, switch | the context event, a migrating process |
| **Vector store, dedup cascade, RAPTOR** `src/vectorStore*`, `src/dedup` | vectors, hashes, signatures, summary tree | add, dedup tiers, promote, serve | the store, embedders |
| **Turn store, checkpoint database, memories, topics, wiki** `src/store`, `src/memory*`, `src/topics`, `src/wiki` | SQLite or in-memory tables | CRUD, migrations | commands, recall |
| **Cortex controllers** `rollout`, `heal`, `controller`, `outcomes` | ladders, proofs, consent | promote, repair, record | the ledger |
| **Data plane, dashboard, commands, game, scripts** | display or pure data | encode, render, serve | all of the above |

What makes each part correct, and what is hard about it:

* **Boundaries.** No cut separates a tool result from its call (the provider
  rejects the request with a 400), enough recent user messages stay, the capped
  view fits the window. Hard: off-by-one at the ends of three index searches,
  two implementations of one algorithm, and fallbacks that overlap.
* **Compaction control.** A compaction is started once, not twice; a running turn
  is not aborted; the agent restarts after a trim exactly once; the count of
  running agents is right. Hard: 500 ms between decision and call, three
  handlers that share two deadlines and a timestamp, and a reset that replaces
  what another handler is about to read.
* **Context event.** The replayed view belongs to the transcript it is replayed
  on. Hard: the transcript or the session changes during the pipeline's `await`.
* **Pipeline.** A region leaves the transcript only once it is stored.
* **Error retry.** Retries end, the session cap is a cap, and the flag that keeps
  two retries from being queued never wedges. Hard: counters reset by one event
  and read by another, behind an await, by the agents of a team.
* **Mirror.** Incremental appends add up to what one pass over the transcript
  would have stored, and what was compacted is deduplicated. Hard: statements
  that fail one by one and are swallowed, row numbers that drift from positions,
  and maintenance of another process between two statements.
* **Spool.** An event accepted as SPOOLED reaches the authority in order, once,
  after any crash; the high-water never runs ahead. Hard: every write can stop
  halfway, and memory and file disagree after a failure.
* **Breaker.** It opens on the first correctness failure, never promotes without
  probes and residence, and can always recover. Hard: timing and admin resets.
* **Ledger.** Sequence numbers are contiguous, an append is idempotent, journal
  and database agree after a crash, and no export takes over that was not
  validated. Hard: the position in a list that is rewound and compacted is used
  as a sequence number, and journal failures are swallowed.
* **Stores.** Two implementations of one contract behave alike; migrations are
  idempotent.

## 2. The modules

| Module | Models | Kind |
|---|---|---|
| `TrimBoundary` | the three cut algorithms over every transcript pi may build | pure operators over a growing transcript |
| `CompactionControl` | who starts a durable compaction, and when | state machine, time in ticks |
| `LiveTrim` | the `context` event: gate, guard, debounce, pipeline run, cached view | state machine |
| `MCControl` | symmetry of `CompactionControl` | model-checking module |
| `MCLiveTrim` | symmetry and instances of `LiveTrim` | model-checking module |
| `DurableFrontier` | what a durable spool promises | abstract specification |
| `Spool` | `spool-core.ts` with crashes and failing writes | state machine, implements `DurableFrontier` |
| `MCSpool` | instances of `Spool` for TLC | model-checking module |
| `ErrorRetry` | `turn_end` on a failed turn, its counters and its await | state machine with fairness |
| `Breaker` | `breaker-core.ts` for one subsystem | state machine, time in ticks, fairness |
| `OccurrenceLog` | what the ledger promises readers in other processes | abstract specification |
| `Ledger` | the occurrence ledger, its feed, its journal and migration M2 | state machine with failing writes and crashes, implements `OccurrenceLog` |
| `MCLedger` | the calls of `Ledger` for TLC | model-checking module |
| `Mirror` | the mirror of the transcript, deduplication and maintenance | state machine, one SQL statement a step |
| `TrimBoundary_proofs`, `CompactionControl_proofs`, `LiveTrim_proofs`, `Spool_proofs`, `ErrorRetry_proofs`, `Breaker_proofs`, `Ledger_proofs`, `Mirror_proofs` | theorems | proofs |

**TrimBoundary.** A message is its engine role and its token count. The code's
loops are set expressions: a loop that walks an index down until a predicate
holds is the maximum of the indices that satisfy it; the tokens of a tail are
added up from its end, as the code does, by a recursive function. `DropEnd` is
`computeDropRange`, `LiveTrimCut` is `computeLiveTrimCut` (with its walk, the
branch `cut > 1` and the critical-over hatch in the code's order), `TailStart`
is `applyTailCap`, with the reserve and the margin rounded up as `Math.ceil`
does, and `HeadroomTrips` the price the gate puts on the same request. The transcript grows one message at a time, results behind their calls, so
every reachable transcript is one pi can hand to the hook.

**CompactionControl.** `runtime.rt`, the counters and deadlines of
`MegaRuntime`, the pending `setTimeout` callbacks, and of pi what the handlers
can see: running agents, queued messages, whether the branch holds anything to
compact, and the compactions in progress. A tick is 500 ms; a deadline is the
ticks left to it. Each handler is one action, because it runs to its end without
an `await` on the paths modelled: `AgentEnd` makes all decisions of
`handleAgentEnd` (count, durable trim, timer or direct call, nudge, length
stop), `BeforeCompact` all of `session_before_compact`, including the reset that
runs first. `SessionShutdown` zeroes the count of agents, as the handler does
whether or not agents still run. A compaction takes three steps of pi (`session_before_compact`, the
entry appended, `session_compact`), between which anything else may happen.

**LiveTrim.** `branch` is what pi passes to the event, a sequence of messages
that are all different, so that a prefix can be told from another one. An event
arrives with a token level; `BelowGate`, `Replay`, `Refuse`, `Debounce`,
`SkippedRun` and `StartRun` are the returns of `context-handler.ts` in its
order, and each judges the last pipeline run first, as `evaluatePendingReduction`
does at the top of the handler. The handler awaits once, between the pipeline
and the new view: `StartRun` is all before the await and `FinishRun` all behind
it. pi itself waits for the handler, so of the other actions only the slash
commands, the passage of time and the death of the process happen in between.

The cached view keeps what the code's `trimCache` does (`key`, the epoch's
checkpoint; `cut`; `tokens`) and, as history, `region`: the messages its summary
was made from. `rt` is the part of `runtime.rt` the handler reads. The durable
compaction, `session_start`, `session_tree` and `/mega-compact` are actions with
the reset each of them makes; what they do beyond the event's state is
`CompactionControl`'s. The cut is any index up to `keepFrom`, a superset of what
`TrimBoundary` computes, and the tail cap, which changes the view and not the
cache, is left to that module. `long` is the guard of `/mega-compact`, which
counts the entries of the session and not those of the branch. `seen` and
`moved` are history: what the last event found and did, and whether the user
navigated since the cache was built.

**Spool.** The file is a header and a sequence of entries; a write that fails
leaves nothing, a torn entry or the whole entry, and nothing behind a torn entry
can be parsed (its length prefix swallows what follows, the digest fails).
Frames in memory are positions in the file. `drain` is split where the process
can die: `DrainBegin`, one `DrainInsert` for each frame, `DrainHalt`, `DrainAck`
(which clears the queue, writes and moves the high-water). The authority is a
set of rows with other writers. A digest stands for its payload. When a file
with a torn header holds a newline further on, the constructor may throw: that
is a spool that stays closed, the states in which `Open` is not taken.

`stored` and `spooled` are history: the highest sequence number the authority
has accepted and the positions `append` returned SPOOLED for. `Frontier` maps
the spool to `DurableFrontier` by `frontier <- acked`, `up <- pc # "down"`.

**ErrorRetry.** The counters of `runtime.rt` and of each agent the phase of its
turn. `TurnEnd` is all of `errorRetry` up to the await of the outage advisory in
`transientRetry`, `Decide` all behind it, so the handlers of two agents overlap.
What `classifyErrorDetailed` can make of a message is the set `Outcome`; the text
tracker (`Track`, `Effective`) then turns a repeated text into a poisoned context.
An agent whose turn has ended goes on with its tool calls (`Prompt`, which also
stands for the user's message) or with a queued message (`FollowUp`), or reaches
`AgentEnd`, which sends the resume nudge (`Resume`): after a durable trim, with
messages waiting, or to continue an answer cut at the output cap (the outcome
`length`). `CompactionNudge` is the nudge of
`session_before_compact`, the one that follows an overflow's forced compaction
among them; when a compaction runs is `CompactionControl`'s and free here. The
nudges share one deadline and have no cap. `queue` is what pi has queued; a sent
message may be dropped. Counters stop just above the limit they are compared
with. `sent` and `burst` are history: the retries of the session and those since
the breaker was last reset.

**Breaker.** One subsystem. `Call` is `execute` with the outcome of the mode it
runs, in the code's order: prune, record, then either `maybeProbe` and
`advanceProbe` or the trip rules. Timestamps are ages in ticks, latencies are
within the budget or above it, and a percentile is a share of them
(`SlowRate`, 5 of 100 in the code). The latencies are a list of their own, cut to
the number of the attempts, so each attempt carries as history whether it was
`late`. `streak`, `calm` and `flawed` are history, too.

**Ledger.** A context event starts over the whole list
(`ContextEvent`); `AppendNext` offers one message, at its position in the list,
`Accepts` is the ledger's decision on it and `Returned` and `Recorded` are what
it acknowledges and what the savepoint leaves in the journal. `AppendThrows` is
the rolled-back transaction. The migration is a second process: prepare, copy, export
(in its memory), compare, validate, switch. Both may die between any two steps.
A tool result names its calls through the constant `CallOf`; the live feed sets
no call id yet, which is the instance of `ledger_repeat`. `Readers` maps the
database to `OccurrenceLog`: `recorded` is the sequence of the rows in the order
of their numbers, `copied` the journal, `exported` the export.

**Mirror.** A step is one SQL statement or one transaction: reading and dropping
the mark, each append, each mark update, the two statements of deduplication
for each row, `pruneOldRows` and `reconcileDedupMirror`. Each may fail. Other
sessions are what they share, the hashes their rows refer to. `ref_count` is left
out because no statement that changes rows reads it.

## 3. The runs

| Run | Instance | Shows |
|---|---|---|
| `trim` | transcripts of up to 5 messages, sizes 1 and 3, floors 0..2, two windows, three output limits | cuts keep tool pairs and the floor, critical pressure only relaxes, where the two algorithms agree and where they part, the cap fits and drops only what it must, gate and cap price a request alike |
| `control` | two sessions, two agents, one poisoned signature, length stops, strict guard, one timer, two compactions in progress | nudges are spaced, no phantom agents, a signature is compacted for once, a recorded compaction closes the race |
| `live_trim` | branches of up to three of four messages, three token levels, two checkpoints, preserves 1 and 2 | a cached view stands for the branch it would be replayed on, headroom overrules debounce and guard, a view just built can be replayed |
| `spool` | three frames (a duplicate sequence number, a conflicting event id, a payload with a NUL byte), five entries | acknowledgements are backed, nothing is lost while the file is whole, the spool implements its promise |
| `retry` | two agents, one retryable and one other text, session caps of none and 2, one retry for each category, a breaker of 2, length stops and resume nudges | the cap and the breaker hold, the dedup flag stands for a message, without the user and without resume nudges the retries end |
| `breaker` | windows of up to four attempts, cooldown 1, window 2, residence 3, two probes | an invalid output of A opens, a promotion is earned and decided on the failures and latencies of the same attempts, a healed subsystem recovers |
| `ledger` | transcripts of up to three of a call, its result, a user's message and a summary | rows are contiguous, results stand behind calls, the journal catches up, a switch is earned, readers see an append-only log |
| `mirror` | transcripts of up to three messages of two contents, one shared with other sessions, or empty; three row numbers | incremental passes equal one full pass, compacted messages are deduplicated, no reference dangles |
| `live_branch`, `spool_torn`, `breaker_pause`, `ledger_repeat` | small instances | the disagreements of section 5 |

**Bounds.** Five messages hold a call, two results, a user message and a cut on
either side of each; the proofs cover every length. Cooldown 3, debounce 2, defer
1 and nudge gap 2 keep the order defer < debounce < cooldown of the code's
constants (500 ms, 2 s, 30 s) with the fewest ticks in which a timer fires
inside, on the edge of and after each of the others; a nudge gap of one tick
would make every nudge free. Two agents are the fewest with which handlers race
and two compactions in progress the fewest with which one races another: one
pending timer and a compaction of pi are the pair of the guard, and two sessions are needed for a reset that forgets. No action tells one
session from another, so they are symmetric (`MCControl`); the properties of
that run are safety ones. The health mitigation is off, as its compactions are
not guarded; the theorems hold with it as well. Three messages are a head, the end
of a region and a preserved tail, and a fourth is one the branch has lost or
will gain. Three token levels put an event below the fire point, at it and at
the headroom; growth and reduction of 1 make every change of level count, and
`Rearm` 2 leaves a level between the reading that armed the guard and the one
that releases it. Two checkpoints are an epoch and its successor. Five file entries are two
appends, an ack, a torn write and one append more, and two sequence numbers make
a gap and a duplicate. Two agents are also the fewest whose retry handlers overlap, and with a breaker of
2 a cap of 2 is met in the middle of a second burst. In the breaker the residence outlasts window and cooldown, so a
window may empty before a promotion; four attempts hold a failure among
successes on either side of every rate and two attempts that slide out before
two that stay; a share of one half, for the code's 5 of 100, lets a window of
four hold both a tolerated slow call and one too many. Three messages of the ledger are a call,
its result and one more to stand before, between or behind them, or to be said
twice; of the mirror, a mark and a tail of two in which an append can fail. The
third row number is one that pruning has left unused.

`MaxAgents`, `MaxQueue`, `MaxTimers`, `MaxInFlight`, `MaxAttempts`, `MaxSeq`,
`MaxLen`, `MaxCheckpoints`, `MaxTokens` and `MaxDisk` bound what the code leaves unbounded, each in the guard
of the action that would pass it; pi's queue drops the message that would.

**Deadlock** is checked for the control runs, where time always passes, and for the
live-trim runs, where an event or a command can always come. The
transcript stops at `MaxLen` and the file at `MaxDisk`, so those runs do not
check it.

**Fairness.** Two specifications assume it. `ErrorRetry` has
`WF_vars(Proceed(a))` for each agent: a turn that runs ends, a handler that
awaits goes on (the awaited send resolves or rejects), pi announces the end of an
agent and delivers what it has queued. The user's prompts, tool calls, resets and
the passing of time are not fair. `LoopEnds` then says that the retries, each of
which starts the turn whose error sends the next, come to an end, once nobody
prompts, no reset makes the counters new (`resetRuntime` runs in every compaction
before the first checkpoint) and no resume nudge is sent. The last premise is
needed: a provider that cuts every answer at the output cap makes `agent_end`
send a continue each time, at most one in 30 s and with no cap
(`agentEndHandler.ts:206-231`), and an overflow's forced compaction is followed
by a nudge of the same kind, so a session can go on for ever without the user. `Breaker` has `WF_vars(Good \/ Bad)` and `WF_vars(Tick)`: the subsystem
keeps being called and time passes. `Recovers` says that it is served by mode A
again if from some point on no call fails or is slow, nobody halts or resets, and
no reset has left an open breaker without a cooldown.

The others assume none and are `Init /\ [][Next]_vars`: nothing in that code
schedules itself. A drain runs when its caller calls it, an event when pi sends
it, and a `setTimeout` callback re-checks its conditions and may do nothing.

Each property has a mutant, listed in `PROJECT.json`: a definition changed the
way a bug would change it (a dropped floor, a missing re-check, a deadline not
moved, a conflict acknowledged) for which TLC finds the property violated in the
same run.

## 4. The proofs

TLAPS proves these for every value of the constants, that is for transcripts and
files of any length, any number of agents, timers, sessions and checkpoints, and
any delays, thresholds and limits.

| Theorem | States |
|---|---|
| `TrimBoundary_proofs!LiveTrimNeverSplitsPairs`, `!LiveTrimRespectsFloor`, `!CriticalOverRelaxes` | three properties of the cut |
| `!LiveTrimMatchesDropRange` | the live trim cuts where `computeDropRange` does, but for the two cases in which it makes no cut |
| `!CappedViewFits`, `!CapIsMinimal`, `!GatePricesLikeCap` | the capped view fits the window; the cap drops only what it must; what the cap shortens trips the gate, what it lets through does so only on an exact fit |
| `CompactionControl_proofs!TypeCorrect` | all counters and timers keep their types |
| `!NudgesSpaced` | no two resume nudges within one gap |
| `!AgentsNeverPhantom` | the count never exceeds the running agents |
| `!RecordedCompactionIsFinal` | no guarded handler or callback compacts in the cooldown of a recorded compaction |
| `!SignatureCompactsOnce` | a checkpointed session defers at most one compaction for an error signature |
| `LiveTrim_proofs!TypeCorrect` | runtime, cached view, pending run and guard keep their types |
| `!ReplayIsFaithful` | a cached view that would be replayed stands for the branch, unless the user has moved on the tree |
| `!HeadroomActs` | with an unforced gate nothing over the headroom is refused, debounced or sent as it is |
| `!BuiltViewsAreReplayed` | a view just built matches the epoch and fits the branch |
| `Spool_proofs!TypeCorrect`, `!AcksBacked`, `!NoLoss` | types, backed acknowledgements, replay of a whole file |
| `!ImplementsFrontier` | the spool implements `DurableFrontier` |
| `ErrorRetry_proofs!TypeCorrect`, `!SessionCap` | types; no session gets more nudges than its cap |
| `!BreakerBounds` | between two resets at most `maxConsecutiveErrors` nudges, and one for each agent a reset overtook |
| `!PendingStands` | a set dedup flag stands for a message that is queued or was lost |
| `!LoopRunsDown` | with the advisories on the dashboard, every step of an agent without the user that sends no resume nudge brings the retry loop closer to its end |
| `Breaker_proofs!TypeCorrect`, `!PromotionJudgesWindow` | types; a promotion is decided on the failures and the latencies of the same attempts, unless the window had emptied before it |
| `!PromotionEarned` | A is closed again only after a whole residence without a failure and `ProbeCount` successes |
| `!FlawedStaysOpen` | after an invalid output A is not run until it is promoted |
| `Ledger_proofs!TypeCorrect`, `!NoGap` | types; rows numbered 1 to the high-water, one to a message |
| `!CallsPrecede`, `!JournalBacked` | a result stands behind its call; journal and exports hold rows only |
| `!EventCatchesUp` | an event without a failed write makes up for all that failed |
| `!SwitchEarned` | only a validated export that is not empty takes over |
| `!ImplementsLog` | the ledger implements `OccurrenceLog` |
| `Mirror_proofs!TypeCorrect`, `!RefsAlwaysResolve` | types; no `content_ref` dangles unless maintenance ran between the two statements |
| `!MirrorIsFullPass` | an event without a failure leaves what one full pass would, or a row for every message where the transcript did more than grow |
| `!CompactedDeduped` | while the transcript only grew, a pass covers every message up to the index it is given |

**Assumptions.** Only the types of the constants, named in each module
(`TrimAssumption`, `ControlAssumption`, `LiveTrimAssumption`, `SpoolAssumption`,
`RetryAssumption`, `BreakerAssumption`, `LedgerAssumption`, `MirrorAssumption`) and evaluated by TLC
in every run. The retry ladder needs that a team is finite. `NudgesSpaced` needs a nudge gap of at least
one tick, and the live trim that the pipeline preserves at least one message,
which is the floor `src/config.ts` puts under the setting.

**Argument.** The four properties of the cut hold in every state for a reason
that is not temporal: `MaxIndex` says that the maximum of a nonempty set of
indices belongs to it and bounds it, so each search returns an index with the
property searched for, and where the two algorithms agree is the antisymmetry
of two maxima; that they agree nowhere else is the case of a walk that stops at
index 1 or finds fewer user messages than the floor. `MaxIndex` follows from the least element of a set of naturals,
which other components need as well; each proof module has its own copy
of the lemma, so that none depends on the proofs of another component.

The tail cap adds up tokens, and a recursive function is what satisfies its
equation only if some function does. `LastTokensDef` shows that one does, by
induction over the length (`NatInduct`, itself from the least element: a set that
holds 0 and the successor of each of its members leaves out no least one).
From the equation follows `TailShrinks`, a shorter tail has no more tokens. The
drop from the front is the longest tail that fits (`FrontDropFits`), and skipping
the tool results it begins with only shortens it (`TailStartSkipsResults`), so the
view fits. That nothing is dropped needlessly needs a fact about transcripts,
that none begins with a tool result (`FirstNeverResult`): otherwise results at
its very start would be skipped with nothing over the budget. Both theorems
speak of every window, reserve, summary and budget, not only of those TLC tries.

`NudgesAreSpaced` is not inductive: it says nothing of the deadline. The
strengthening ties the two together, `nudgeLeft` being at least the gap minus
the age of any nudge, so a nudge is sent only when none is young enough.
`NoPhantomAgents` needs the type invariant only; every reset and a shutdown set
the count to zero and every `agent_start` raises both. `OneCompactPerSignature`
holds because a signature is recorded in the same step as its deferral, and a
reset forgets both or, in a session that keeps its checkpoint, neither. `RecordedCompactionClosesRace` needs
that the runtime's timestamp and the history agree whenever the last compaction
was recorded in a session that keeps its memory: the session is still
checkpointed, and `sinceNative` is no older than `sinceCompact`. Each of the
call sites then fails its guard; the health mitigation has none, and the property
leaves its calls out (`GuardedCall`).

`ReplayStandsForBranch` speaks of a cache that fits the current epoch, and an
epoch comes back when a deduplicated run matches an old checkpoint. The
invariant therefore asks it of every cache, whatever the epoch (`CacheStands`).
To establish that in `FinishRun` the region of a run must still be the head of
the branch behind the await, which is `RunFits`: nothing that may happen there
changes the branch, and a command that happens there leaves a checkpoint
recorded, because the entries it counts are at least those of the branch the run
started from (`LongEnough`). Without that a skipped command would clear the
epoch of a session not yet persisted and the view would be keyed by a run that
is no longer the epoch's. `HeadroomActs` needs no strengthening beyond the types:
each return of the handler before the pipeline asks `HeadroomExceeded`, which an
unforced gate reports truly.

For the spool the invariant adds to the types and `AcksAreBacked` that a drain
works between the high-water and what the authority has reached
(`acked <= committed <= stored`), that it leaves no remaining frames behind, and
that what was SPOOLED is a frame. The first is what makes the ack of
`DrainAck` backed; the last, with a high-water that is either zero or an ack of
the file (`RecoveredIsBacked`), gives `NothingIsLost`. The refinement follows
step by step: `Open` is `Reopen`, a death is `Close`, a frame the authority takes
for the first time is `Store` (its number is `committed + 1`, at most
`stored + 1`), `DrainAck` is `Advance` and everything else stutters. That the
least frame of a drain exists at all is `FirstExists`.

For the retry ladder `SessionCapHolds` needs that a nudge sent is a nudge
counted (`SentIsCounted`), which holds because `Nudge` counts before it sends.
`BreakerHolds` is subtler: a handler counts its error, awaits and then decides,
and another agent's success may set the count to zero meanwhile. `BurstIsCounted`
charges every nudge of a burst to an error counted in it or to one of the agents
that were in their await at the reset: nudges sent plus handlers deciding never
exceed errors counted plus agents. `PendingIsQueued` is inductive.

`LoopRunsDown` is the part of `LoopEnds` that is not about fairness. `Underway`
counts what is queued, in a turn or in a handler. Without the user a message
leads to one turn and a turn, however it ends, to at most one retry, so it never
grows but by a resume nudge. `StepsLeft` weighs each of these by the steps to its
end, an `agent_end` to come included, and adds to it for every error the breaker
still tolerates; a step that keeps `Underway` lowers it, since another round has
to count an error first. An outcome that resets the breaker sends nothing and
lowers `Underway` instead. Both are natural numbers, so there are finitely many
such steps, and fairness takes them until nothing is under way and no `agent_end`
is to come. The hypothesis is `AdvisoryChannel`: with the advisories in the
conversation a poisoned turn sends one whenever it fails, and the loop does not
end. A step that sends a resume nudge is excluded, because the code puts no
bound on their number.

For the breaker the invariant ties the residence and the probe count to what
really happened. Probes are only counted while probing and each was a success
(`ProbesCount`). In `OPEN_B` with a cooldown the residence is no older than
`calm`, and a breaker that probes A has been calm for a whole residence
(`ResidenceCounts`). A halt or a reset may leave an old residence, but it takes
the cooldown with it, and without a cooldown the breaker does not probe.
`PromotionIsOnWindow` and the types rest on what the recursion over the attempts
computes: that it has a solution (`RecentComputed`), and that the window is an
end of the attempts, because these are in the order of their ages (`AgesFall`,
`RecentWindow`). The invariant is that the latencies of a window that is not
empty are those of its attempts, one by one (`LatenciesMatch`): slices of equal
length from the end of both keep it (`PrunedWindow`), and a call that joins a
window brings its own latency (`CallWindow`). An emptied window keeps the
latencies of the one before, the code's `slice(-0)`, so the call that follows is
judged on them; the cut after it restores the invariant. That promotion is the
one the theorem leaves out and `breaker_pause` shows.

For the ledger `LogInv` (types, contiguity, calls before results, journal within
the rows, and the migration's step matching the durable phase) is inductive and
gives all but `CaughtUp`. That one speaks of an event that has ended, so its
invariant follows the event's progress (`PassInv`): the rows of a transcript that
only grew stand at their positions (`RowsInPlace`), and for the messages offered
so far every row is in the journal and the high-water has been reached (`SeenTo`).
The refinement rests on contiguity, which makes the rows a sequence
(`RowsRecorded`): an append that is accepted puts its message behind the others
(`AcceptedIsAppended`), one that finds its message known adds at most that row to
the journal (`JournalAdds`), and whatever else happens, rewinds, rejections,
rollbacks and crashes, is a stutter or an export. The promise holds the backing of
the journal and of the export as well, which `JournalBacked` states by itself.

For the mirror `RefsResolve` says nothing of the moment between the two
statements that store a hash and refer to it. `HalfIsStored` does, for the pass
and for other sessions, and `ListedIsRow` keeps the row a pass listed the row it
will change: rows are only appended when no pass runs. `CompactedIsDeduped` rests
on a relation between numbers and indices. While the transcript has only grown
and nothing was pruned, the rows are those of its first *k* messages and none has
a number above the index of a message it stands for (`Covers`), the mark and the
event lie within those *k*, and after a clean event *k* is the whole transcript
(`Grown`). A range up to an index then lists the row of every message up to it,
and a pass refers to each or still has it listed (`PassCovers`).

`SameAsFullPass` compares the rows with those of one pass over the whole
transcript, which numbers the first occurrences of what is said. The invariant
says so of every prefix an event has reached: the rows, without their references,
are the first occurrences among the first *k* messages, each with the number of
those up to it, and the last of these numbers is the greatest (`Numbers`). An append
then either finds its message among them or adds the next number. The other half
of the property holds of transcripts that were rewound or pruned, too, and has an
invariant of its own: the messages up to a mark that is not stale have a row, as
have those an event has passed (`Behind`).

**Only model-checked.** `LoopEnds` and `Recovers`, which are liveness under
fairness: their proofs need `ENABLED`, which the prover does not support. Of
`LoopEnds` the measure that decreases is proved, as above. The violations are
TLC's counterexamples.

## 5. What the models found

Each of these is a run of its own, in which TLC shows the code doing something
other than the comment beside it says.

* `live_branch`: `session_tree` resets the runtime, but the reset returns at once
  in a session that has persisted a checkpoint, so the cached view and the epoch
  stay. On the other branch a cut that still fits is replayed with the summary of
  messages that are not there.
* `spool_torn`: after a write that failed halfway the spool keeps appending behind
  the torn entry; those frames are SPOOLED and never read again. A torn header
  and a payload with a NUL byte (`spool-core.ts:400` ends the payload at the
  first one) have the same effect on everything behind them.
* `breaker_pause`: when every attempt has left the window, `slice(-0)` keeps all
  latencies of the earlier one (`breaker-core.ts:160`), so a slow call, the only
  attempt of its window, is promoted if enough of those were fast (nineteen, for
  the 95th percentile). The comment at 258-260 says a probe with a poor window must
  not promote. The error goes the other way as well: a fast call is refused on
  slow latencies nobody remembers.
* `ledger_repeat`: a message without an id is known by the digest of its text, so
  saying the same thing twice is acknowledged as the first time. The high-water
  stays, and the message behind it, at the position after, is rejected, as is
  every later one in every later event.

Observations without a run, the first of them disagreements with a comment that
follow from an action and its guard:

* Control. Under the strict guard `agent_end` sends its nudge first and compacts
  500 ms later without asking whether the agent runs again
  (`agentEndHandler.ts:179`), so the compaction aborts the agent the nudge
  restarted, which the comment at 93-96 excludes; the nudge that would restart it
  is then debounced and it stays idle. `session_before_compact` resets the runtime
  and then reads the cooldown's timestamp, which the reset has cleared if the
  session has not persisted a checkpoint, so the skip promised at
  `compact-handlers.ts:115-123` does not happen. The health mitigation compacts
  without looking at the cooldown (`contextHealth.ts:32-35`). A reset of an
  unpersisted session forgets its compacted signatures and zeroes the count of
  agents that still run (`reset-runtime.ts:89`), so a later `agent_end` may settle
  early. An overflow sets the debounce to now, which lets the `agent_end` behind it
  schedule a second compaction (`errorRetry.ts:172`).
* Live trim. The thrash guard exempts "the single event that armed the guard"
  (`thrashGuard.ts:195-201`). The run this event starts is judged by the next
  event, which arms the guard again if nothing shrank and is then exempt in its
  turn, so runs that shrink nothing are never refused for as long as each event
  comes with one. A length stop forces the gate, whose one-shot trip returns before
  the headroom is looked at (`gateCheck.ts:129`); the guard, not told that the
  window overflows, refuses what the comment at 151-153 says it never refuses. The
  one-shot flag is used up at the gate even if the replay, the guard or the
  debounce then keeps the event from compacting (`gateCheck.ts:127`).
  `session_start` disarms the guard's store but not its two maps, so a run of one
  session is judged by the first event of the next (`thrashGuard.ts:177`).
  `/mega-compact` summarises the entries of all branches (`dataCommands.ts:27-31`).
* Retry. The resume nudges of `agent_end` and `session_before_compact` have a spacing
  and no cap, so answers that are cut each time, or overflows whose compaction
  helps nothing, keep a session going without the user. `poisonedAdviseSent` is set at `errorRetry.ts:229` and read nowhere. With
  `advisoryChannel` off every poisoned turn sends the advice again, as a message
  that starts the next turn, so `LoopEnds` fails with that setting; the comment
  promises one advice per session. The tracker of repeated texts is shared by a
  team: two agents that fail in turn with different texts keep resetting it and
  neither is taken for poisoned (`errorRetry.ts:66`).
* Breaker. `reset` clears the cooldown, and `maybeProbe` returns at once without
  one (`breaker-core.ts:245`), so after a reset an open breaker, or one halted
  before, does not probe again until a failure of mode B arms a cooldown; the
  comment at 430 says a halt "unwires to a probe of B". Hence the premise
  `CooldownKept` of `Recovers`. A failure of mode C arms none.
  `cache/breaker.ts:117-121` maps PROBE_A to C and PROBE_B to B, the other way round
  than `modeFor`. A first throw among so many successes that the rate stays below
  the limit trips as a correctness failure, whatever the number of attempts, while
  one without successes waits for the minimum, against 378-383, which calls only an
  invalid output a correctness failure. An invalid output of a probe of A opens to
  `OPEN_B`, which runs B, the mode that gave it, again.
* Ledger. `prepare` takes a journal that was switched back to "prepared", and nothing
  becomes read-only by the switch. The export is only in the memory of the
  migrating process. A journal insert that fails is swallowed inside the savepoint
  (`compat-journal.ts:154`), so a row may commit without its entry although the
  comments call the two atomic; the next event makes up for it (`CaughtUp`).
  After a rewind, rows of two branches stand behind one another. Of two migrations
  at once, one can switch from a phase the other has validated.
  `migrateOccurrenceV2` has no caller outside tests.
* Mirror. A rewind and regrowth between two events, with the same message at the
  mark, hides the changed messages in front of it (excluded by `stale`). The two
  statements of a dedup pass race with pruning and reconciliation of another
  process, and the reference left dangling is not repaired, since only empty ones
  are backfilled (excluded by `raced`); the bytes stay inline, so nothing is lost.
  `reconcileDedupMirror` recounts before it backfills, so the counts are too low
  afterwards and a second call changes them, against "Idempotent" at
  `maintenance.ts:240`; every dedup of the same range counts again. An event whose
  list has the length of the mark reprocesses everything and inserts pruned
  messages at the end of the order. `recall/sync.ts:67` names a
  `reconstructFromMirror` that does not exist. The mirror is off by default.
* Boundaries. `mega-trim.ts:79` looks at the floor again only if the walked cut is
  greater than 1, so a walk that ends at cut 1 with the floor met returns `null`
  and the view is sent untrimmed, where `computeDropRange` drops the first message;
  the comment at 63-67 says `null` is only for a view that cannot satisfy the
  floor. A transcript with fewer user messages than the floor switches the floor of
  `computeDropRange` off and gives no live cut. `headroom.ts:219` stops skipping
  tool results at the last message, so a capped view that is only a tool result
  starts on an orphan. The replay gate compares with `>=` what the cap fits with
  `<=` (`gateCheck.ts:169`), so a capped view that fits exactly trips the gate
  again.
* Spool. `drain` clears its queue before the ack is written (`spool-core.ts:284`), so
  a failed ack drops the tail that 252-255 promises to keep. A halt, too, keeps only
  the frames beyond the last committed one while the high-water stays behind
  them, so that process sees a gap at every later drain until the spool is
  reopened. `writeSync`'s count is not looked at (`spool-core.ts:240`).

## 6. What is not modelled

`PROJECT.json` lists every component with its reason. In short: the dashboard, the
commands, the game and the widgets are presentation; encoders, embedders,
clustering and recall scoring are numeric; extraction and rendering are text.
SQLite is a library with its own guarantees, and a statement or transaction of it
is one step. Of the components modelled in part, the context event lacks the token
correction, the recall block and the legacy durable trim, and its token counts are
levels; the control loop lacks the health score; the spool lacks the flag
`frontierFrozen`, which is only reported; the ledger lacks its readers and
digests supplied by a caller; of the database, the mirror's three tables are
modelled and the rest are independent statements; the failback floor and its
tiers choose among read paths.

Most of the repository's lines are of those kinds: fixtures and harnesses under
`scripts` and `conformance`, the dashboard, encoders and renderers. The models
cover the parts whose correctness depends on order, failure or time.

## 7. Plan

1. `TrimBoundary`, `CompactionControl`, `Spool` with `DurableFrontier`, `LiveTrim`,
   `ErrorRetry`, `Breaker`, `Ledger`, `Mirror`: done, with proofs.
2. Every safety, action and refinement property of the passing runs is proved.
   Left is the measure behind the breaker's `Recovers`, which has to follow the
   window until old failures and slow calls have slid out of it.
3. `LiveTrim`'s abstract specification (a view is the branch with some prefix
   replaced by that prefix's summary) and its composition with
   `CompactionControl`, whose gate and reset it shares.
4. The ledger as the authority of `Spool`: nothing in the code joins the two yet.
5. `TurnStore`: one abstract specification, the memory and the SQLite
   implementation as refinements of it.
6. The rollout ladder and the heal loop.

The runs that show a disagreement are kept small and few: a component that joins
the project takes a passing run first, and a disagreement may be stated as an
observation.
