---------------------------- MODULE LiveTrim_proofs ----------------------------
(***************************************************************************)
(* Proofs about the context event, for transcripts of every length, every   *)
(* number of checkpoints and every placing of the gate's thresholds.        *)
(***************************************************************************)
EXTENDS LiveTrim, TLAPS, SequenceTheorems

USE DEF vars, rt, guard, session, history

\* What the theorems rest on beside the types.  A handler at its await has
\* recorded a checkpoint, and its region is the head of the branch; the cached
\* view stands for the branch until the user moves on the tree.
LongEnough == Len(branch) > 1 => long

RunFits ==
    Awaiting => /\ long
                /\ last # 0
                /\ run.keepFrom <= Len(branch)

CacheStands == cache.key # 0 /\ ~moved => StandsFor(cache, branch)

IInv == TypeOK /\ LongEnough /\ RunFits /\ CacheStands
-----------------------------------------------------------------------------
(* Lemmas about the operators *)

LEMMA Constants ==
    /\ Ids \subseteq Nat \ {0} /\ Tokens \subseteq Nat \ {0}
    /\ MaxCheckpoints \in Nat /\ Rearm \in Nat
    /\ NoCache \in Cached /\ NoRun \in Run
    BY LiveTrimAssumption, EmptySeq DEF Ids, Tokens, NoCache, Cached, NoRun, Run

\* A head of the branch.
LEMMA HeadOfBranch ==
    ASSUME TypeOK, NEW n \in 0..Len(branch)
    PROVE  /\ SubSeq(branch, 1, n) \in Seq(Messages)
           /\ Len(SubSeq(branch, 1, n)) = n
           /\ IsPrefix(SubSeq(branch, 1, n), branch)
<1>1. Len(branch) \in Nat /\ \A i \in 1..n : branch[i] \in Messages
    BY LenProperties, ElementOfSeq DEF TypeOK
<1>2. SubSeq(branch, 1, n) \in Seq(Messages)
    BY <1>1, SubSeqProperties
<1>3. Len(SubSeq(branch, 1, n)) = n
    BY <1>1, SubSeqProperties
<1>4. \A i \in 1..n : SubSeq(branch, 1, n)[i] = branch[i]
    BY <1>1, SubSeqProperties
<1> QED
    BY <1>1, <1>2, <1>3, <1>4 DEF IsPrefix

\* A summary put before the rest of the branch.
LEMMA SummaryAndTail ==
    ASSUME TypeOK, NEW k \in 1..Len(branch), NEW s \in Messages
    PROVE  <<s>> \o SubSeq(branch, k + 1, Len(branch)) \in Seq(Messages)
<1>1. Len(branch) \in Nat /\ \A i \in (k + 1)..Len(branch) : branch[i] \in Messages
    BY LenProperties, ElementOfSeq DEF TypeOK
<1>2. SubSeq(branch, k + 1, Len(branch)) \in Seq(Messages)
    BY <1>1, SubSeqProperties
<1> QED
    BY <1>2, ConcatProperties

\* One more message leaves every prefix a prefix.
LEMMA AppendKeepsPrefix ==
    ASSUME TypeOK, NEW m \in Messages
    PROVE  /\ Append(branch, m) \in Seq(Messages)
           /\ Len(Append(branch, m)) = Len(branch) + 1
           /\ \A s \in Seq(Messages) :
                 IsPrefix(s, branch) => IsPrefix(s, Append(branch, m))
<1>1. /\ Append(branch, m) \in Seq(Messages)
      /\ Len(Append(branch, m)) = Len(branch) + 1
      /\ \A i \in 1..Len(branch) : Append(branch, m)[i] = branch[i]
      /\ Len(branch) \in Nat
    BY AppendProperties, LenProperties DEF TypeOK
<1>2. ASSUME NEW s \in Seq(Messages), IsPrefix(s, branch)
      PROVE  IsPrefix(s, Append(branch, m))
    BY <1>1, <1>2, LenProperties DEF IsPrefix
<1> QED
    BY <1>1, <1>2

\* A region ends inside the branch, and only a long branch has one.
LEMMA RegionInBranch ==
    ASSUME TypeOK, LongEnough, NEW k \in KeepFroms
    PROVE  k \in 1..Len(branch) /\ long
<1>1. Len(branch) \in Nat
    BY LenProperties DEF TypeOK
<1>2. \A p \in Preserves : p \in Nat \ {0}
    BY LiveTrimAssumption
<1> QED
    BY <1>1, <1>2 DEF KeepFroms, LongEnough

\* The reset keeps the runtime's types.
LEMMA ResetTyped ==
    ASSUME TypeOK, NEW keeps \in BOOLEAN
    PROVE  /\ LastKept(keeps) \in Ids \cup {0}
           /\ CacheKept(keeps) \in {cache, NoCache}
           /\ CacheKept(keeps) \in Cached
    BY Constants DEF LastKept, CacheKept, TypeOK

LEMMA GuardTyped ==
    ASSUME TypeOK, NEW t \in Tokens, Judge(t) \/ JudgeAndConsult(t)
    PROVE  liveBefore' \in Nat /\ armedOn' \in Nat /\ blockedUntil' \in Nat
<1>1. t \in Nat /\ t + Rearm \in Nat
    BY Constants
<1>2. BlockedUntil(t) \in Nat /\ ArmedOn(t) \in Nat
    BY <1>1 DEF BlockedUntil, ArmedOn, TypeOK
<1> QED
    BY <1>2 DEF Judge, JudgeAndConsult

LEMMA SawTyped ==
    ASSUME TypeOK, NEW t \in Tokens, NEW did \in Outcomes, Saw(t, did)
    PROVE  seen' \in [over : BOOLEAN, forced : BOOLEAN, did : Outcomes]
    BY DEF Saw, TypeOK

\* A pipeline run records a checkpoint, and leaves or drops the cache.
LEMMA RunCompactTyped ==
    ASSUME TypeOK, NEW id \in Ids, NEW deduped \in BOOLEAN, RunCompact(id, deduped)
    PROVE  /\ persisted' \in BOOLEAN
           /\ last' \in Ids /\ last' # 0
           /\ cache' \in Cached /\ cache' \in {cache, NoCache}
           /\ checkpoints' \in 0..MaxCheckpoints
<1>1. checkpoints' \in 0..MaxCheckpoints
    BY Constants DEF RunCompact, Stores, TypeOK, Ids
<1>2. last' \in Ids /\ last' # 0
    BY Constants DEF RunCompact
<1>3. cache' \in Cached /\ cache' \in {cache, NoCache}
    BY ResetTyped DEF RunCompact, TypeOK
<1>4. persisted' \in BOOLEAN
    BY DEF RunCompact, TypeOK
<1> QED
    BY <1>1, <1>2, <1>3, <1>4

LEMMA BeforeCompactTyped ==
    ASSUME TypeOK, BeforeCompact
    PROVE  /\ persisted' \in BOOLEAN /\ forced' \in BOOLEAN
           /\ last' \in Ids \cup {0}
           /\ checkpoints' \in 0..MaxCheckpoints
<1>1. last' \in Ids \cup {0} /\ forced' \in BOOLEAN
    BY ResetTyped DEF BeforeCompact, TypeOK
<1>2. CASE UNCHANGED <<persisted, checkpoints>>
    BY <1>1, <1>2 DEF TypeOK
<1>3. CASE persisted' = TRUE /\ \E id \in Ids, deduped \in BOOLEAN : Stores(id, deduped)
    BY <1>1, <1>3, Constants DEF Stores, Ids, TypeOK
<1> QED
    BY <1>1, <1>2, <1>3 DEF BeforeCompact

\* A view FinishRun builds.
LEMMA BuiltView ==
    ASSUME TypeOK, RunFits, Awaiting, NEW c \in 1..run.keepFrom,
           cache' = [key |-> Key, cut |-> c, tokens |-> run.tokens,
                     region |-> SubSeq(branch, 1, run.keepFrom)]
    PROVE  /\ cache' \in Cached
           /\ cache'.key = last /\ last # 0
           /\ cache'.cut <= Len(branch)
           /\ StandsFor(cache', branch)
<1>1. run.keepFrom \in Nat /\ run.tokens \in Nat /\ run.keepFrom <= Len(branch)
      /\ last # 0 /\ last \in Ids \cup {0} /\ Len(branch) \in Nat
    BY LenProperties DEF RunFits, TypeOK, Run
<1>2. /\ SubSeq(branch, 1, run.keepFrom) \in Seq(Messages)
      /\ Len(SubSeq(branch, 1, run.keepFrom)) = run.keepFrom
      /\ IsPrefix(SubSeq(branch, 1, run.keepFrom), branch)
    BY <1>1, HeadOfBranch
<1>3. Key = last /\ c \in Nat /\ c <= run.keepFrom
    BY <1>1 DEF Key
<1> QED
    BY <1>1, <1>2, <1>3 DEF Cached, StandsFor
-----------------------------------------------------------------------------
(* The invariant *)

LEMMA InitInvariant == Init => IInv
<1> SUFFICES ASSUME Init PROVE IInv
    OBVIOUS
<1>1. branch \in Seq(Messages) /\ Len(branch) = 0
    BY EmptySeq DEF Init
<1>2. TypeOK
    <2>1. /\ long \in BOOLEAN /\ moved \in BOOLEAN /\ persisted \in BOOLEAN
          /\ forced \in BOOLEAN /\ debounced \in BOOLEAN
        BY DEF Init
    <2>2. seen \in [over : BOOLEAN, forced : BOOLEAN, did : Outcomes]
        BY DEF Init, Outcomes
    <2>3. /\ last \in Ids \cup {0} /\ cache \in Cached /\ run \in Run
          /\ liveBefore \in Nat /\ armedOn \in Nat /\ blockedUntil \in Nat
          /\ checkpoints \in 0..MaxCheckpoints
        BY Constants DEF Init
    <2> QED
        BY <1>1, <2>1, <2>2, <2>3 DEF TypeOK
<1>3. LongEnough /\ RunFits /\ CacheStands
    BY <1>1 DEF Init, LongEnough, RunFits, Awaiting, CacheStands, NoCache
<1> QED
    BY <1>2, <1>3 DEF IInv

\* What an event or a handler that leaves the branch alone has to show.
LEMMA BranchUntouched ==
    ASSUME IInv, UNCHANGED <<session, moved>>, TypeOK',
           cache' \in {cache, NoCache},
           run' \in {run, NoRun} \/ RunFits',
           run' = run => last' = last \/ last' # 0 \/ ~Awaiting
    PROVE  IInv'
<1>1. LongEnough' /\ RunFits'
    BY DEF IInv, LongEnough, RunFits, Awaiting
<1>2. CacheStands'
    BY DEF IInv, CacheStands, NoCache, StandsFor
<1> QED
    BY <1>1, <1>2 DEF IInv

\* The branches of an event that do not start a run.
LEMMA QuietEvent ==
    ASSUME IInv, NEW t \in Tokens,
           BelowGate(t) \/ Replay(t) \/ Refuse(t) \/ Debounce(t) \/ SkippedRun(t)
    PROVE  IInv'
<1>1. TypeOK /\ ~Awaiting
    BY DEF IInv, BelowGate, Replay, Refuse, Debounce, SkippedRun
<1>2. Judge(t) \/ JudgeAndConsult(t)
    BY DEF BelowGate, Replay, Refuse, Debounce, SkippedRun
<1>3. \E did \in Outcomes : Saw(t, did)
    BY DEF BelowGate, Replay, Refuse, Debounce, SkippedRun, Outcomes
<1>4. forced' \in BOOLEAN /\ debounced' \in BOOLEAN
    BY <1>1 DEF BelowGate, Replay, Refuse, Debounce, SkippedRun, TypeOK
<1>5. UNCHANGED <<session, persisted, run, checkpoints, moved>>
    BY DEF BelowGate, Replay, Refuse, Debounce, SkippedRun
<1>6. last' \in Ids \cup {0} /\ cache' \in Cached /\ cache' \in {cache, NoCache}
    <2>1. CASE SkippedRun(t)
        BY <1>1, <2>1, ResetTyped DEF SkippedRun, TypeOK
    <2>2. CASE UNCHANGED <<last, cache>>
        BY <1>1, <2>2 DEF TypeOK
    <2> QED
        BY <2>1, <2>2 DEF BelowGate, Replay, Refuse, Debounce
<1>7. TypeOK'
    <2>1. liveBefore' \in Nat /\ armedOn' \in Nat /\ blockedUntil' \in Nat
        BY <1>1, <1>2, GuardTyped
    <2>2. seen' \in [over : BOOLEAN, forced : BOOLEAN, did : Outcomes]
        BY <1>1, <1>3, SawTyped
    <2> QED
        BY <1>1, <1>4, <1>5, <1>6, <2>1, <2>2 DEF TypeOK
<1> QED
    BY <1>1, <1>5, <1>6, <1>7, BranchUntouched

LEMMA StartedRun ==
    ASSUME IInv, NEW t \in Tokens, StartRun(t)
    PROVE  IInv'
<1>1. TypeOK /\ LongEnough /\ UNCHANGED <<session, moved>>
    BY DEF IInv, StartRun
<1>2. PICK id \in Ids, deduped \in BOOLEAN, k \in KeepFroms :
          /\ RunCompact(id, deduped)
          /\ run' = [id |-> id, keepFrom |-> k, tokens |-> t]
    BY DEF StartRun
<1>3. k \in 1..Len(branch) /\ long /\ Len(branch) \in Nat
    BY <1>1, RegionInBranch, LenProperties DEF TypeOK
<1>4. /\ persisted' \in BOOLEAN
      /\ last' \in Ids /\ last' # 0
      /\ cache' \in Cached /\ cache' \in {cache, NoCache}
      /\ checkpoints' \in 0..MaxCheckpoints
    BY <1>1, <1>2, RunCompactTyped
<1>5. run' \in Run
    BY <1>2, <1>3, Constants DEF Run
<1>6. RunFits'
    BY <1>1, <1>2, <1>3, <1>4 DEF RunFits
<1>7. TypeOK'
    <2>1. liveBefore' \in Nat /\ armedOn' \in Nat /\ blockedUntil' \in Nat
        BY <1>1, GuardTyped DEF StartRun
    <2>2. seen' \in [over : BOOLEAN, forced : BOOLEAN, did : Outcomes]
        BY <1>1, SawTyped DEF StartRun, Outcomes
    <2>3. debounced' \in BOOLEAN /\ forced' \in BOOLEAN
        BY DEF StartRun
    <2> QED
        BY <1>1, <1>4, <1>5, <2>1, <2>2, <2>3 DEF TypeOK
<1> QED
    BY <1>1, <1>4, <1>6, <1>7, BranchUntouched

LEMMA FinishedRun ==
    ASSUME IInv, FinishRun
    PROVE  IInv'
<1>1. TypeOK /\ RunFits /\ Awaiting /\ run' = NoRun
      /\ UNCHANGED <<session, rt, debounced, armedOn, blockedUntil, checkpoints,
                     seen>>
      /\ liveBefore' \in Nat
    BY DEF IInv, FinishRun, TypeOK, Run
<1>2. CASE UNCHANGED <<cache, moved>>
    <2>1. TypeOK'
        BY <1>1, <1>2, Constants DEF TypeOK
    <2> QED
        BY <1>1, <1>2, <2>1, BranchUntouched
<1>3. CASE /\ \E c \in 1..run.keepFrom :
                 cache' = [key |-> Key, cut |-> c, tokens |-> run.tokens,
                           region |-> SubSeq(branch, 1, run.keepFrom)]
           /\ moved' = FALSE
    <2>1. cache' \in Cached /\ StandsFor(cache', branch)
        BY <1>1, <1>3, BuiltView
    <2>2. TypeOK'
        BY <1>1, <1>3, <2>1, Constants DEF TypeOK
    <2>3. LongEnough' /\ RunFits'
        BY <1>1 DEF IInv, LongEnough, RunFits, Awaiting
    <2>4. CacheStands'
        BY <1>1, <2>1 DEF CacheStands, StandsFor
    <2> QED
        BY <2>2, <2>3, <2>4 DEF IInv
<1> QED
    BY <1>2, <1>3 DEF FinishRun

\* A slash command may run at the await of the handler.
LEMMA Commanded ==
    ASSUME IInv, CompactCommand \/ CompactCommandSkips
    PROVE  IInv'
<1>1. TypeOK /\ RunFits /\ UNCHANGED <<session, debounced, run, guard, history>>
    BY DEF IInv, CompactCommand, CompactCommandSkips
<1>2. forced' \in BOOLEAN
    BY <1>1 DEF CompactCommand, CompactCommandSkips, TypeOK
<1>3. CASE CompactCommand
    <2>1. PICK id \in Ids, deduped \in BOOLEAN : RunCompact(id, deduped)
        BY <1>3 DEF CompactCommand
    <2>2. /\ persisted' \in BOOLEAN
          /\ last' \in Ids /\ last' # 0
          /\ cache' \in Cached /\ cache' \in {cache, NoCache}
          /\ checkpoints' \in 0..MaxCheckpoints
        BY <1>1, <2>1, RunCompactTyped
    <2>3. TypeOK'
        BY <1>1, <1>2, <2>2 DEF TypeOK
    <2> QED
        BY <1>1, <2>2, <2>3, BranchUntouched
<1>4. CASE CompactCommandSkips
    <2>1. last' \in Ids \cup {0} /\ cache' \in Cached /\ cache' \in {cache, NoCache}
        BY <1>1, <1>4, ResetTyped DEF CompactCommandSkips, TypeOK
    <2>2. TypeOK'
        BY <1>1, <1>2, <1>4, <2>1 DEF CompactCommandSkips, TypeOK
    <2>3. ~Awaiting
        BY <1>1, <1>4 DEF CompactCommandSkips, RunFits
    <2> QED
        BY <1>1, <2>1, <2>2, <2>3, BranchUntouched
<1> QED
    BY <1>3, <1>4

\* The handlers that change a flag, or drop the cached view.
LEMMA FlagHandlers ==
    ASSUME IInv, LengthStop \/ BreakPrefix \/ AgentEndTrim \/ Elapse
    PROVE  IInv'
<1>1. /\ TypeOK
      /\ UNCHANGED <<session, persisted, last, run, guard, checkpoints, history>>
    BY DEF IInv, LengthStop, BreakPrefix, AgentEndTrim, Elapse
<1>2. /\ forced' \in BOOLEAN /\ debounced' \in BOOLEAN
      /\ cache' \in {cache, NoCache} /\ cache' \in Cached
    BY <1>1, Constants DEF LengthStop, BreakPrefix, AgentEndTrim, Elapse, TypeOK
<1>3. TypeOK'
    BY <1>1, <1>2 DEF TypeOK
<1> QED
    BY <1>1, <1>2, <1>3, BranchUntouched

LEMMA DurableCompaction ==
    ASSUME IInv, DurableCompact \/ DurableCompactFails
    PROVE  IInv'
<1>1. /\ TypeOK /\ ~Awaiting /\ BeforeCompact
      /\ UNCHANGED <<debounced, run, guard, history>>
    BY DEF IInv, DurableCompact, DurableCompactFails
<1>2. /\ persisted' \in BOOLEAN /\ forced' \in BOOLEAN
      /\ last' \in Ids \cup {0}
      /\ checkpoints' \in 0..MaxCheckpoints
    BY <1>1, BeforeCompactTyped
<1>3. CASE DurableCompact
    <2>1. branch' \in Seq(Messages) /\ long' = TRUE /\ cache' = NoCache
        BY <1>1, <1>3, SummaryAndTail DEF DurableCompact, CacheAfterCompact
    <2>2. TypeOK'
        BY <1>1, <1>2, <2>1, Constants DEF TypeOK
    <2>3. LongEnough' /\ RunFits' /\ CacheStands'
        BY <1>1, <2>1 DEF LongEnough, RunFits, Awaiting, CacheStands, NoCache
    <2> QED
        BY <2>2, <2>3 DEF IInv
<1>4. CASE DurableCompactFails
    <2>1. cache' \in Cached /\ cache' \in {cache, NoCache} /\ UNCHANGED session
        BY <1>1, <1>4, ResetTyped DEF DurableCompactFails, TypeOK
    <2>2. TypeOK'
        BY <1>1, <1>2, <2>1 DEF TypeOK
    <2> QED
        BY <1>1, <2>1, <2>2, BranchUntouched
<1> QED
    BY <1>3, <1>4

\* The cached view's region stays the head of a branch that grows.
LEMMA Appended ==
    ASSUME IInv, AppendMessage
    PROVE  IInv'
<1>1. /\ TypeOK /\ CacheStands /\ ~Awaiting
      /\ UNCHANGED <<rt, cache, debounced, run, guard, checkpoints, history>>
    BY DEF IInv, AppendMessage
<1>2. PICK m \in Messages : branch' = Append(branch, m)
    BY DEF AppendMessage
<1>3. /\ branch' \in Seq(Messages) /\ Len(branch') = Len(branch) + 1
      /\ \A s \in Seq(Messages) : IsPrefix(s, branch) => IsPrefix(s, branch')
    BY <1>1, <1>2, AppendKeepsPrefix
<1>4. long' \in BOOLEAN /\ (branch # <<>> => long')
    BY <1>1 DEF AppendMessage, TypeOK
<1>5. TypeOK'
    BY <1>1, <1>3, <1>4 DEF TypeOK
<1>6. LongEnough'
    <2>1. branch = <<>> => Len(branch) = 0
        BY EmptySeq
    <2> QED
        BY <1>3, <1>4, <2>1 DEF LongEnough
<1>7. CacheStands'
    BY <1>1, <1>3 DEF CacheStands, StandsFor, TypeOK, Cached
<1>8. RunFits'
    BY <1>1 DEF RunFits, Awaiting
<1> QED
    BY <1>5, <1>6, <1>7, <1>8 DEF IInv

LEMMA StartedSession ==
    ASSUME IInv, SessionStart
    PROVE  IInv'
<1>1. /\ TypeOK /\ ~Awaiting
      /\ UNCHANGED <<debounced, run, liveBefore, armedOn, seen, moved>>
      /\ blockedUntil' = 0
    BY DEF IInv, SessionStart
<1>2. CASE /\ \E n \in 0..Len(branch) :
                 branch' = SubSeq(branch, 1, n) /\ long' = (n > 1)
           /\ checkpoints' \in 0..MaxCheckpoints
           /\ persisted' = FALSE /\ last' = 0 /\ forced' = FALSE
           /\ cache' = CacheKept(FALSE)
    <2>1. cache' = NoCache
        BY <1>2 DEF CacheKept
    <2>2. branch' \in Seq(Messages) /\ long' \in BOOLEAN /\ LongEnough'
        <3>1. PICK n \in 0..Len(branch) :
                 branch' = SubSeq(branch, 1, n) /\ long' = (n > 1)
            BY <1>2
        <3>2. branch' \in Seq(Messages) /\ Len(branch') = n
            BY <1>1, <3>1, HeadOfBranch
        <3>3. CASE n > 1
            BY <3>1, <3>2, <3>3 DEF LongEnough
        <3>4. CASE ~(n > 1)
            <4>1. (n > 1) = FALSE
                BY <3>4
            <4>2. long' = FALSE
                BY <3>1, <4>1
            <4> QED
                BY <3>2, <3>4, <4>2 DEF LongEnough
        <3> QED
            BY <3>3, <3>4
    <2>3. TypeOK'
        <3>1. persisted' \in BOOLEAN /\ forced' \in BOOLEAN
            BY <1>2
        <3>2. last' \in Ids \cup {0} /\ cache' \in Cached
            BY <1>2, <2>1, Constants
        <3>3. blockedUntil' \in Nat
            BY <1>1
        <3>4. checkpoints' \in 0..MaxCheckpoints
            BY <1>2
        <3> QED
            BY <1>1, <2>2, <3>1, <3>2, <3>3, <3>4 DEF TypeOK
    <2>4. RunFits' /\ CacheStands'
        BY <1>1, <2>1 DEF RunFits, Awaiting, CacheStands, NoCache
    <2> QED
        BY <2>2, <2>3, <2>4 DEF IInv
<1>3. CASE /\ UNCHANGED <<session, persisted, checkpoints>>
           /\ last' = LastKept(persisted)
           /\ forced' = (persisted /\ forced)
           /\ cache' = CacheKept(persisted)
    <2>1. /\ last' \in Ids \cup {0} /\ forced' \in BOOLEAN
          /\ cache' \in Cached /\ cache' \in {cache, NoCache}
        BY <1>1, <1>3, ResetTyped DEF TypeOK
    <2>2. TypeOK'
        BY <1>1, <1>3, <2>1 DEF TypeOK
    <2> QED
        BY <1>1, <1>3, <2>1, <2>2, BranchUntouched
<1> QED
    BY <1>2, <1>3 DEF SessionStart

LEMMA MovedOnTree ==
    ASSUME IInv, SessionTree
    PROVE  IInv'
<1>1. /\ TypeOK /\ LongEnough /\ ~Awaiting /\ moved' = TRUE
      /\ UNCHANGED <<long, persisted, debounced, run, guard, checkpoints, seen>>
    BY DEF IInv, SessionTree
<1>2. PICK n \in 0..(Len(branch) - 1) : branch' = SubSeq(branch, 1, n)
    BY DEF SessionTree
<1>3. n \in 0..Len(branch) /\ n < Len(branch)
    BY <1>1, LenProperties DEF TypeOK
<1>4. branch' \in Seq(Messages) /\ Len(branch') < Len(branch) /\ Len(branch') = n
    BY <1>1, <1>2, <1>3, HeadOfBranch
<1>5. /\ last' \in Ids \cup {0} /\ forced' \in BOOLEAN /\ cache' \in Cached
    BY <1>1, ResetTyped DEF SessionTree, TypeOK
<1>6. TypeOK'
    BY <1>1, <1>4, <1>5 DEF TypeOK
<1>7. LongEnough'
    BY <1>1, <1>3, <1>4, LenProperties DEF LongEnough, TypeOK
<1>8. RunFits' /\ CacheStands'
    BY <1>1 DEF RunFits, Awaiting, CacheStands
<1> QED
    BY <1>6, <1>7, <1>8 DEF IInv

LEMMA Restarted ==
    ASSUME IInv, Restart
    PROVE  IInv'
<1>1. TypeOK'
    <2>1. persisted' \in BOOLEAN /\ forced' \in BOOLEAN /\ debounced' \in BOOLEAN
        BY DEF Restart
    <2>2. /\ last' \in Ids \cup {0} /\ cache' \in Cached /\ run' \in Run
          /\ liveBefore' \in Nat /\ armedOn' \in Nat /\ blockedUntil' \in Nat
        BY Constants DEF Restart
    <2>3. TypeOK /\ UNCHANGED <<session, checkpoints, seen, moved>>
        BY DEF IInv, Restart
    <2> QED
        BY <2>1, <2>2, <2>3 DEF TypeOK
<1>2. LongEnough' /\ RunFits' /\ CacheStands'
    BY DEF IInv, Restart, LongEnough, RunFits, Awaiting, CacheStands, NoCache
<1> QED
    BY <1>1, <1>2 DEF IInv

LEMMA StepInvariant == IInv /\ [Next]_vars => IInv'
<1> SUFFICES ASSUME IInv, [Next]_vars PROVE IInv'
    OBVIOUS
<1>1. CASE ContextEvent
    <2>1. PICK t \in Tokens : \/ BelowGate(t) \/ Replay(t) \/ Refuse(t)
                              \/ Debounce(t) \/ SkippedRun(t) \/ StartRun(t)
        BY <1>1 DEF ContextEvent
    <2> QED
        BY <2>1, QuietEvent, StartedRun
<1>2. CASE UNCHANGED vars
    BY <1>2 DEF IInv, TypeOK, LongEnough, RunFits, Awaiting, CacheStands, StandsFor,
                IsPrefix
<1> QED
    BY <1>1, <1>2, FinishedRun, Commanded, FlagHandlers, DurableCompaction, Appended,
       StartedSession, MovedOnTree, Restarted DEF Next

LEMMA Invariant == Spec => []IInv
<1>1. Init => IInv
    BY InitInvariant
<1>2. IInv /\ [Next]_vars => IInv'
    BY StepInvariant
<1> QED
    BY <1>1, <1>2, PTL DEF Spec
-----------------------------------------------------------------------------
(* The theorems *)

\* Every runtime field, the cached view, the pending run and the guard keep
\* their types, for a branch of any length (context-handler.ts:193-330).
THEOREM TypeCorrect == Spec => []TypeOK
<1>1. IInv => TypeOK
    BY DEF IInv
<1> QED
    BY <1>1, Invariant, PTL

\* A replayed view stands for the branch it is replayed on, unless the user has
\* moved on the tree since it was built (context-handler.ts:229-245).
THEOREM ReplayIsFaithful == Spec => []ReplayStandsForBranch
<1>1. IInv => ReplayStandsForBranch
    BY DEF IInv, CacheStands, ReplayStandsForBranch, Fits
<1> QED
    BY <1>1, Invariant, PTL

\* An event over the headroom is neither debounced nor refused nor let through,
\* unless the gate was forced (gateCheck.ts:151-153, context-handler.ts:288-300).
THEOREM HeadroomActs == Spec => []HeadroomIsActedOn
<1>1. Init => HeadroomIsActedOn
    BY DEF Init, HeadroomIsActedOn
<1>2. HeadroomIsActedOn /\ [Next]_vars => HeadroomIsActedOn'
    <2> SUFFICES ASSUME HeadroomIsActedOn, [Next]_vars PROVE HeadroomIsActedOn'
        OBVIOUS
    <2>1. ASSUME NEW t \in Tokens, BelowGate(t)
          PROVE  HeadroomIsActedOn'
        BY <2>1 DEF BelowGate, Passes, Saw, HeadroomIsActedOn
    <2>2. ASSUME NEW t \in Tokens, Refuse(t)
          PROVE  HeadroomIsActedOn'
        BY <2>2 DEF Refuse, Refused, HeadroomExceeded, Saw, HeadroomIsActedOn
    <2>3. ASSUME NEW t \in Tokens, Debounce(t)
          PROVE  HeadroomIsActedOn'
        BY <2>3 DEF Debounce, DebounceHolds, HeadroomExceeded, Saw, HeadroomIsActedOn
    <2>4. ASSUME NEW t \in Tokens, Replay(t) \/ SkippedRun(t) \/ StartRun(t)
          PROVE  HeadroomIsActedOn'
        BY <2>4 DEF Replay, SkippedRun, StartRun, Saw, HeadroomIsActedOn
    <2>5. CASE UNCHANGED seen
        BY <2>5 DEF HeadroomIsActedOn
    <2> QED
        BY <2>1, <2>2, <2>3, <2>4, <2>5
        DEF Next, ContextEvent, FinishRun, CompactCommand, CompactCommandSkips,
            LengthStop, BreakPrefix, AgentEndTrim, Elapse, DurableCompact,
            DurableCompactFails, AppendMessage, SessionStart, SessionTree, Restart
<1> QED
    BY <1>1, <1>2, PTL DEF Spec

\* A view that has just been built is keyed and cut so that the next event can
\* replay it (compact/run.ts:112-125, liveTrim.ts:205-224).
THEOREM BuiltViewsAreReplayed == Spec => BuiltViewsReplay
<1>1. IInv /\ [Next]_vars /\ Awaiting /\ cache' # cache /\ cache' # NoCache
          => Fits(cache', last')
    <2> SUFFICES ASSUME IInv, Next, Awaiting, cache' # cache, cache' # NoCache
                 PROVE  Fits(cache', last')
        OBVIOUS
    <2>1. CASE FinishRun
        <3>1. TypeOK /\ RunFits /\ UNCHANGED last
            BY <2>1 DEF IInv, FinishRun
        <3>2. PICK c \in 1..run.keepFrom :
                 cache' = [key |-> Key, cut |-> c, tokens |-> run.tokens,
                           region |-> SubSeq(branch, 1, run.keepFrom)]
            BY <2>1 DEF FinishRun
        <3> QED
            BY <3>1, <3>2, BuiltView DEF Fits
    <2>2. CASE CompactCommand \/ CompactCommandSkips \/ Restart
        BY <2>2 DEF CompactCommand, CompactCommandSkips, Restart, RunCompact, CacheKept
    <2>3. CASE Elapse
        BY <2>3 DEF Elapse
    <2> QED
        BY <2>1, <2>2, <2>3
        DEF Next, ContextEvent, BelowGate, Replay, Refuse, Debounce, SkippedRun,
            StartRun, LengthStop, BreakPrefix, AgentEndTrim, DurableCompact,
            DurableCompactFails, AppendMessage, SessionStart, SessionTree
<1>2. IInv /\ [Next]_vars
          => [Awaiting /\ cache' # cache /\ cache' # NoCache => Fits(cache', last')]_vars
    BY <1>1
<1> QED
    BY <1>2, Invariant, PTL DEF Spec, BuiltViewsReplay
=============================================================================
