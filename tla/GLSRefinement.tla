---------------------------- MODULE GLSRefinement ----------------------------
(***************************************************************************)
(* The refinement mapping from the span stack with lazy unlinking           *)
(* (GLSSpanStack) to the sets of candidates it promises (ImplicitParent).   *)
(***************************************************************************)
EXTENDS GLSSpanStack

\* A goroutine exists from the moment newproc1 has filled in its context.
Alive == {g \in Goroutines : pc[g] \notin {"absent", "spawning"}}

\* A span starts, as seen from outside, when its parent has been chosen; that
\* the SDK records it a step later (StartWithParent) is not seen.
Choosing(s) == \E g \in Goroutines : pc[g] = "startTail" /\ arg[g] = s

AbstractPhase ==
    [s \in Spans |-> IF phase[s] # "creating" THEN phase[s]
                     ELSE IF Choosing(s) THEN "unborn" ELSE "started"]

\* The span that a goroutine has chosen a parent for and not yet pushed.
Pending ==
    [g \in Goroutines |->
        IF pc[g] \in {"startUse", "add", "compact", "track"} THEN arg[g] ELSE NoSpan]

\* What a lookup may return, on a goroutine that exists.
Candidates == [g \in Goroutines |-> IF g \in Alive THEN LiveEntries(g) ELSE {}]

Abstract == INSTANCE ImplicitParent WITH
    alive <- Alive,
    pending <- Pending,
    cand <- Candidates,
    tracked <- states,
    phase <- AbstractPhase,
    parent <- found

\* Lazy unlinking by tail, compact and del, with flags shared by the clones,
\* behaves as if End and eviction emptied every goroutine's stack at once.
ImplementsImplicitParent == Abstract!Spec

=============================================================================
