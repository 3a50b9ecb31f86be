---------------------------- MODULE TrimBoundary ----------------------------
(***************************************************************************)
(* The pure cut algorithms of the live trim: where a transcript may be cut *)
(* (src/src/boundary.ts), which cut the `context` hook takes               *)
(* (src/extensions/mega-trim.ts), how the kept tail is capped to the       *)
(* window (headroom.ts of mega-events/context-handler) and the gate that   *)
(* prices the next request by the same reserve (gateCheck.ts there).       *)
(*                                                                         *)
(* Indices.  The code counts from 0 and cuts at `dropEnd`, the first index *)
(* KEPT.  A cut c here drops the first c messages and keeps                *)
(* ms[c+1 .. Len(ms)], so c is the code's dropEnd.                         *)
(*                                                                         *)
(* Data.  A message is its engine role and its token count.  The role      *)
(* "call" is an assistant message carrying a tool call (hasToolUse) and    *)
(* "result" a tool message with a tool name (isToolResult).                *)
(***************************************************************************)
EXTENDS Integers, Sequences, FiniteSets, FiniteSetsExt

CONSTANTS
    MaxLen,     \* bound on the transcript length
    Toks,       \* token counts a message may have
    MaxAnchor,  \* bound on anchorUserMessages
    Windows,    \* context windows of the models in use
    OutputMax,  \* declared maxTokens of those models, plausible or not
    ReservePct, \* config.outputReservePct, in percent
    MarginPct   \* safetyMarginPct of the model

ASSUME TrimAssumption ==
    /\ MaxLen \in Nat
    /\ Toks \subseteq Nat
    /\ MaxAnchor \in Nat
    /\ Windows \subseteq Nat
    /\ OutputMax \subseteq Nat
    /\ ReservePct \in Nat
    /\ MarginPct \in 0..100

Roles == {"user", "assistant", "call", "result", "custom"}
Message == [role : Roles, tok : Toks]

\* The absence of a cut (`null` in computeLiveTrimCut): no trim on this call.
NoCut == -1

VARIABLE msgs   \* the transcript, as the engine view sees it

vars == <<msgs>>
-----------------------------------------------------------------------------
(* boundary.ts *)

IsUser(m)     == m.role = "user"
HasToolUse(m) == m.role = "call"
IsToolResult(m) == m.role = "result"

Kept(ms, c) == (c + 1)..Len(ms)

\* Every preserved tool result has its nearest preceding call preserved too.
IsPairSafe(ms, c) ==
    \/ c <= 0
    \/ c >= Len(ms)
    \/ \A r \in Kept(ms, c) :
          IsToolResult(ms[r]) => \E o \in (c + 1)..(r - 1) : HasToolUse(ms[o])

UsersKept(ms, c) == Cardinality({i \in Kept(ms, c) : IsUser(ms[i])})

\* The anchor floor as computeDropRange applies it: inactive when the
\* transcript holds fewer users than the floor asks for.
AnchorAllows(ms, c, anchor) ==
    \/ anchor = 0
    \/ UsersKept(ms, 0) < anchor
    \/ UsersKept(ms, c) >= anchor

\* The drop end: the largest pair-safe cut the caller and the floor allow.
DropEnd(ms, keepFrom, anchor) ==
    IF keepFrom <= 0 \/ keepFrom >= Len(ms)
    THEN 0
    ELSE Max({0} \cup {c \in 1..keepFrom :
                     AnchorAllows(ms, c, anchor) /\ IsPairSafe(ms, c)})
-----------------------------------------------------------------------------
(* mega-trim.ts *)

\* Mutant: the pipeline's index is used as it comes, without the snap.
SnapCutAsGiven(ms, from) == from

\* Snap the pipeline's compactedFrom back to a pair-safe index.
SnapCut(ms, from) == Max({0} \cup {c \in 1..from : IsPairSafe(ms, c)})

\* Mutant: the walk asks for one user message more than the floor.
WalkCutsStrict(ms, snap, anchor) ==
    {c \in 1..(snap - 1) : IsPairSafe(ms, c) /\ UsersKept(ms, c) > anchor}

\* The cuts the backward walk would accept below `snap`.
WalkCuts(ms, snap, anchor) ==
    {c \in 1..(snap - 1) : IsPairSafe(ms, c) /\ UsersKept(ms, c) >= anchor}

\* Mutant: the snapped cut is taken without looking at the floor.
LiveTrimCutNoFloor(ms, from, anchor, criticalOver) ==
    IF SnapCut(ms, from) = 0 THEN NoCut ELSE SnapCut(ms, from)

\* Mutant: the hatch is tried before the walk.
LiveTrimCutHatchFirst(ms, from, anchor, criticalOver) ==
    LET snap == SnapCut(ms, from)
        walk == WalkCuts(ms, snap, anchor)
        cut  == IF walk = {} THEN snap ELSE Max(walk)
    IN  IF snap = 0 THEN NoCut
        ELSE IF criticalOver \/ UsersKept(ms, snap) >= anchor THEN snap
        ELSE IF cut > 1 /\ UsersKept(ms, cut) >= anchor THEN cut ELSE NoCut

\* computeLiveTrimCut for a non-blank summary.  The branch `if (cut > 1)`
\* decides whether the floor is looked at again after the walk.
LiveTrimCut(ms, from, anchor, criticalOver) ==
    LET snap == SnapCut(ms, from)
        walk == WalkCuts(ms, snap, anchor)
        cut  == IF walk = {} THEN snap ELSE Max(walk)
    IN  IF snap = 0 THEN NoCut
        ELSE IF UsersKept(ms, snap) >= anchor THEN snap
        ELSE IF cut > 1 /\ UsersKept(ms, cut) >= anchor THEN cut
        ELSE IF criticalOver THEN cut ELSE NoCut
-----------------------------------------------------------------------------
(* headroom.ts *)

\* applyTailCap's loop counts from the last message back: the tokens of the
\* last n messages, for each n.
LastTokens(ms) ==
    LET sum[n \in 0..Len(ms)] ==
            IF n = 0 THEN 0 ELSE ms[Len(ms) - n + 1].tok + sum[n - 1]
    IN  sum

\* Tokens of the tail ms[start+1 ..].
TailTokens(ms, start) == LastTokens(ms)[Len(ms) - start]

\* resolveOutputReserve: the declared output budget when plausible (at most
\* 95% of the window), else a clamped percentage of the window.
OutputReserve(window, maxTokens, pct) ==
    LET clamped == IF pct > 95 THEN 95 ELSE IF pct < 10 THEN 10 ELSE pct
    IN  IF window <= 0 THEN 0
        ELSE IF maxTokens > 0 /\ maxTokens * 100 <= window * 95 THEN maxTokens
        ELSE (window * clamped + 99) \div 100

Margin(window, marginPct) == (window * marginPct + 99) \div 100

\* Mutant: the summary that is put before the tail is not paid for.
TailBudgetNoSummary(window, maxTokens, pct, marginPct, summaryTokens, overhead) ==
    LET left == window - OutputReserve(window, maxTokens, pct)
                  - Margin(window, marginPct) - overhead
    IN  IF left < 1 THEN 1 ELSE left

\* The budget of the tail, floored at 1 so that the cap stays active.
TailBudget(window, maxTokens, pct, marginPct, summaryTokens, overhead) ==
    LET left == window - OutputReserve(window, maxTokens, pct)
                  - Margin(window, marginPct) - summaryTokens - overhead
    IN  IF left < 1 THEN 1 ELSE left

\* Mutant: an exact fit is not a fit.
FrontDropStrict(ms, budget) ==
    LET fits == {s \in 0..(Len(ms) - 1) : TailTokens(ms, s) < budget}
    IN  IF fits = {} THEN Len(ms) - 1 ELSE Min(fits)

\* The front-drop before the pair adjustment: the longest suffix that fits,
\* never less than the final message.
FrontDrop(ms, budget) ==
    LET fits == {s \in 0..(Len(ms) - 1) : TailTokens(ms, s) <= budget}
    IN  IF fits = {} THEN Len(ms) - 1 ELSE Min(fits)

\* applyTailCap's start index: skip leading tool results, keep the last message.
TailStart(ms, budget) ==
    IF Len(ms) <= 1 THEN 0
    ELSE Min({s \in FrontDrop(ms, budget)..(Len(ms) - 1) :
                 s = Len(ms) - 1 \/ ~IsToolResult(ms[s + 1])})
-----------------------------------------------------------------------------
(* gateCheck.ts *)

\* Mutant: the gate judges the input alone, as the percent gates do.
HeadroomTripsOnInput(window, maxTokens, pct, marginPct, tokens) ==
    window > 0 /\ tokens > 0 /\ tokens >= window

\* The output-headroom gate: input, output reserve and margin reach the window.
HeadroomTrips(window, maxTokens, pct, marginPct, tokens) ==
    /\ window > 0 /\ tokens > 0
    /\ tokens + OutputReserve(window, maxTokens, pct) + Margin(window, marginPct)
          >= window
-----------------------------------------------------------------------------
(* The transcript grows one message at a time, as pi appends it: a tool    *)
(* result follows its call, with nothing but results and bookkeeping       *)
(* messages in between.                                                    *)

CallPending(ms) ==
    \E o \in 1..Len(ms) :
        /\ HasToolUse(ms[o])
        /\ \A j \in (o + 1)..Len(ms) : ms[j].role \in {"result", "custom"}

Init == msgs = <<>>

AppendMessage(m) ==
    /\ Len(msgs) < MaxLen
    /\ IsToolResult(m) => CallPending(msgs)
    /\ msgs' = Append(msgs, m)

Next == \E m \in Message : AppendMessage(m)

Spec == Init /\ [][Next]_vars
-----------------------------------------------------------------------------
\* The transcript is a sequence of messages no longer than the bound.
TypeOK == msgs \in Seq(Message) /\ Len(msgs) <= MaxLen

\* Every cut the live trim takes keeps tool pairs whole, whatever index the
\* pipeline compacted from, the floor and the pressure (PREVENT-PI-002).
LiveTrimCutPairSafe ==
    \A from \in 1..(Len(msgs) - 1), anchor \in 0..MaxAnchor, crit \in BOOLEAN :
        LET c == LiveTrimCut(msgs, from, anchor, crit)
        IN  c # NoCut => c \in 1..from /\ IsPairSafe(msgs, c)

\* Short of the critical-over hatch, a trim never leaves fewer recent user
\* messages than the anchor floor asks for (PREVENT-PI-001).
LiveTrimKeepsAnchor ==
    \A from \in 1..(Len(msgs) - 1), anchor \in 0..MaxAnchor :
        LET c == LiveTrimCut(msgs, from, anchor, FALSE)
        IN  c # NoCut => UsersKept(msgs, c) >= anchor

\* The hatch only ever adds cuts: where the calm path finds a cut it changes
\* nothing, and where any pair-safe cut exists it yields one.
CriticalOverOnlyRelaxes ==
    \A from \in 1..(Len(msgs) - 1), anchor \in 0..MaxAnchor :
        LET calm == LiveTrimCut(msgs, from, anchor, FALSE)
            crit == LiveTrimCut(msgs, from, anchor, TRUE)
        IN  /\ calm # NoCut => crit = calm
            /\ (\E c \in 1..from : IsPairSafe(msgs, c)) => crit # NoCut

\* The two boundary algorithms of the repository agree: without pressure the
\* live trim cuts exactly where computeDropRange would, so the view the model
\* sees and the range the adapter drops are the same region.  They part in two
\* cases, where the live trim makes no cut: the transcript has fewer user
\* messages than the floor asks for, which switches computeDropRange's floor
\* off, and the walk meets the floor only at index 1, which the code's
\* `cut > 1` rejects.
LiveTrimAgreesWithDropRange ==
    \A from \in 1..(Len(msgs) - 1), anchor \in 0..MaxAnchor :
        LET d == DropEnd(msgs, from, anchor)
            fewUsers == UsersKept(msgs, 0) < anchor
            walkedToOne == d = 1 /\ UsersKept(msgs, SnapCut(msgs, from)) < anchor
        IN  LiveTrimCut(msgs, from, anchor, FALSE)
                = IF d = 0 \/ fewUsers \/ walkedToOne THEN NoCut ELSE d

\* What the model is asked to hold when the capped tail is sent: the tail,
\* the summary before it, the reserve for its answer and the safety margin.
\* The pair says whether the cap could do better than the final message alone.
RequestSize(w, out, summary, overhead, s) ==
    TailTokens(msgs, s) + summary + overhead
        + OutputReserve(w, out, ReservePct) + Margin(w, MarginPct)

CappedAtLast(w, out, summary, overhead) ==
    TailStart(msgs, TailBudget(w, out, ReservePct, MarginPct, summary, overhead))

CapFits(w, out, summary, overhead) ==
    LET s == CappedAtLast(w, out, summary, overhead)
    IN  \/ s = Len(msgs) - 1
        \/ TailTokens(msgs, s) <= 1    \* the budget floor
        \/ RequestSize(w, out, summary, overhead, s) <= w

\* A view the cap lets through never overflows the window it was capped to:
\* either only the final message is left, or tail, summary, overhead, output
\* reserve and margin fit together, whatever maxTokens the model declares.
CappedViewFitsWindow ==
    Len(msgs) > 1 =>
        \A w \in Windows, out \in OutputMax, summary \in {0, 2}, overhead \in {0, 1} :
            CapFits(w, out, summary, overhead)

\* A request as the gate counts it on the next call, before the reserve.
Sent(summary, overhead, s) == TailTokens(msgs, s) + summary + overhead

GateMatchesCap(w, out, summary, overhead) ==
    LET s == CappedAtLast(w, out, summary, overhead)
        trips(start) == HeadroomTrips(w, out, ReservePct, MarginPct,
                                      Sent(summary, overhead, start))
    IN  /\ s > 0 => trips(0)
        /\ trips(s) => \/ s = Len(msgs) - 1
                       \/ TailTokens(msgs, s) <= 1
                       \/ RequestSize(w, out, summary, overhead, s) = w

\* The gate and the cap price a request alike: whatever the cap has to shorten
\* trips the gate, and what the cap lets through trips it again on the next
\* call only on an exact fit (the gate's >= against the cap's <=), or where
\* the cap had come down to the final message or the budget's floor.
GateAgreesWithCap ==
    Len(msgs) > 1 =>
        \A w \in Windows \ {0}, out \in OutputMax, summary \in {0, 2}, overhead \in {0, 1} :
            GateMatchesCap(w, out, summary, overhead)

CapIsTight(budget) ==
    LET s == TailStart(msgs, budget)
    IN  s > 0 => \E t \in 1..s :
                    /\ TailTokens(msgs, t - 1) > budget
                    /\ \A r \in (t + 1)..s : IsToolResult(msgs[r])

\* The cap drops nothing needlessly: the tail starts where the budget ran out
\* or right after the run of tool results that starts there.
CapDropsOnlyWhatItMust ==
    Len(msgs) > 1 => \A budget \in 1..MaxLen : CapIsTight(budget)
=============================================================================
