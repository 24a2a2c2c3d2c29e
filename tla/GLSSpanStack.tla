---------------------------- MODULE GLSSpanStack ----------------------------
(***************************************************************************)
(* The goroutine-local span stack that otelc injects into the OpenTelemetry *)
(* SDK (otelc/sdktrace/gls.go), the GLS fields and the newproc1 propagation *)
(* it injects into the Go runtime (otelc/runtime), and the SpanFromContext  *)
(* fallback (otelc/oteltrace) that consults the stack.                      *)
(*                                                                         *)
(* A goroutine runs hooks one after the other; a hook is split into one     *)
(* step per access to what goroutines share: the spanStates mutex and the   *)
(* atomic ended flags.  Everything else a hook touches belongs to the       *)
(* goroutine that runs it.                                                  *)
(***************************************************************************)
EXTENDS Integers, Sequences, FiniteSets, SequencesExt

CONSTANTS Goroutines,     \* descriptors (runtime g structs); they are reused
          Main,           \* the goroutine that runs main.main
          Spans,          \* spans the SDK may create, each at most once
          MaxSpans,       \* otelGLSMaxSpans
          MaxSpanStates,  \* maxSpanStates
          NoSpan,         \* nil
          CtxSpan         \* a valid span carried by the caller's context

ASSUME GLSAssumption ==
    /\ Main \in Goroutines
    /\ IsFiniteSet(Spans)
    /\ MaxSpans \in Nat \ {0}        \* positiveIntEnv accepts no other value
    /\ MaxSpanStates \in Nat \ {0}
    /\ NoSpan \notin Spans
    /\ CtxSpan \notin Spans
    /\ NoSpan # CtxSpan

VARIABLES
    pc,       \* where each goroutine is; "run" is application code
    arg,      \* the span the running hook works on
    child,    \* the goroutine a running newproc1 is about to start
    hasTC,    \* g.otel_trace_context # nil
    stack,    \* traceContext.sw and its prev chain: bottom first, top last
    n,        \* traceContext.n
    lcs,      \* traceContext.lcs
    cursor,   \* position of compact() in the chain
    ended,    \* the spans whose shared ended flag is set
    states,   \* the keys of spanStates.states
    order,    \* spanStates.order: oldest first
    phase,    \* what the application did with each span
    found,    \* what SpanContextFromContext returned to each span's Start
    parent,   \* the parent the SDK recorded for each span
    birth,    \* history: position of each span in the order of tracking
    past,     \* history: the spans that were over when a span's lookup began
    crowded   \* history: the stack held MaxSpans live spans when add began

tcVars == <<hasTC, stack, n, lcs>>
sharedVars == <<ended, states, order>>
historyVars == <<birth, past, crowded>>
vars == <<pc, arg, child, tcVars, cursor, sharedVars, phase, found, parent, historyVars>>

TailPc == {"startTail", "forkTail", "readTail"}
Pc == TailPc \cup
    {"absent", "spawning", "run", "startUse", "add", "compact", "track", "del"}
Phase == {"unborn", "creating", "live", "done"}

Empty == <<>>

\* The entries of g's stack that a lookup may still return.
LiveEntries(g) == {s \in Range(stack[g]) : s \notin ended}

\* The entry with no prev.
Bottom(seq) == IF seq = Empty THEN NoSpan ELSE seq[1]

localRootSpan(g) == IF n[g] = 0 THEN NoSpan ELSE lcs[g]

-----------------------------------------------------------------------------
Init ==
    /\ pc = [g \in Goroutines |-> IF g = Main THEN "run" ELSE "absent"]
    /\ arg = [g \in Goroutines |-> NoSpan]
    /\ child = [g \in Goroutines |-> g]
    /\ hasTC = [g \in Goroutines |-> FALSE]
    /\ stack = [g \in Goroutines |-> Empty]
    /\ n = [g \in Goroutines |-> 0]
    /\ lcs = [g \in Goroutines |-> NoSpan]
    /\ cursor = [g \in Goroutines |-> 0]
    /\ ended = {}
    /\ states = {}
    /\ order = Empty
    /\ phase = [s \in Spans |-> "unborn"]
    /\ found = [s \in Spans |-> NoSpan]
    /\ parent = [s \in Spans |-> NoSpan]
    /\ birth = [s \in Spans |-> 0]
    /\ past = [s \in Spans |-> {}]
    /\ crowded = [g \in Goroutines |-> FALSE]

-----------------------------------------------------------------------------
(* tracer.Start, first half: SpanContextFromContext picks the parent.  A    *)
(* context with a valid span wins; otherwise the goroutine's stack is read. *)

StartWithContextSpan(g, s) ==
    /\ pc[g] = "run"
    /\ phase[s] = "unborn"
    /\ phase' = [phase EXCEPT ![s] = "creating"]
    /\ found' = [found EXCEPT ![s] = CtxSpan]
    /\ parent' = [parent EXCEPT ![s] = CtxSpan]
    /\ arg' = [arg EXCEPT ![g] = s]
    /\ pc' = [pc EXCEPT ![g] = "add"]
    /\ UNCHANGED <<child, tcVars, cursor, sharedVars, historyVars>>

\* The spans that have ended or have been evicted.
Over == {t \in Spans : phase[t] = "done" \/ (birth[t] > 0 /\ t \notin states)}

StartWithoutContextSpan(g, s) ==
    /\ pc[g] = "run"
    /\ phase[s] = "unborn"
    /\ phase' = [phase EXCEPT ![s] = "creating"]
    /\ past' = [past EXCEPT ![s] = Over]
    /\ arg' = [arg EXCEPT ![g] = s]
    /\ pc' = [pc EXCEPT ![g] = IF hasTC[g] THEN "startTail" ELSE "add"]
    /\ UNCHANGED <<child, tcVars, cursor, sharedVars, found, parent, birth, crowded>>

\* Mutant: tail() forgets n--.
TailPopKeepsCount(g) ==
    /\ pc[g] \in TailPc
    /\ stack[g] # Empty
    /\ Last(stack[g]) \in ended
    /\ stack' = [stack EXCEPT ![g] = Front(@)]
    /\ UNCHANGED <<pc, arg, child, hasTC, n, lcs, cursor, sharedVars, phase, found,
                   parent, historyVars>>

\* One iteration of tail()'s loop: an ended top is unlinked.
TailPop(g) ==
    /\ pc[g] \in TailPc
    /\ stack[g] # Empty
    /\ Last(stack[g]) \in ended
    /\ stack' = [stack EXCEPT ![g] = Front(@)]
    /\ n' = [n EXCEPT ![g] = @ - 1]
    /\ UNCHANGED <<pc, arg, child, hasTC, lcs, cursor, sharedVars, phase, found,
                   parent, historyVars>>

\* Mutant: tail() returns the top without looking at its flag.
TailStopsAtOnce(g) == g \in Goroutines

\* tail()'s loop is over: the stack is empty or its top is live.
TailStops(g) == stack[g] # Empty => Last(stack[g]) \notin ended

TailResult(g) == IF stack[g] = Empty THEN NoSpan ELSE Last(stack[g])

TailLcs(g) == IF stack[g] = Empty THEN NoSpan ELSE lcs[g]

\* tail()'s last look at the flag, and what follows on the goroutine's own stack.
StartTailReturn(g) ==
    /\ pc[g] = "startTail"
    /\ TailStops(g)
    /\ lcs' = [lcs EXCEPT ![g] = TailLcs(g)]
    /\ found' = [found EXCEPT ![arg[g]] = TailResult(g)]
    /\ pc' = [pc EXCEPT ![g] = "startUse"]
    /\ UNCHANGED <<arg, child, hasTC, stack, n, cursor, sharedVars, phase, parent,
                   historyVars>>

\* SpanFromContext returns the tail and the SDK makes it the parent, whatever
\* other goroutines have done to it since.
StartWithParent(g) ==
    /\ pc[g] = "startUse"
    /\ parent' = [parent EXCEPT ![arg[g]] = found[arg[g]]]
    /\ past' = [past EXCEPT ![arg[g]] = {}]
    /\ pc' = [pc EXCEPT ![g] = "add"]
    /\ UNCHANGED <<arg, child, tcVars, cursor, sharedVars, phase, found, birth, crowded>>

-----------------------------------------------------------------------------
(* newRecordingSpan / newNonRecordingSpan: traceContextAddSpan(span).       *)

\* Mutant: add() at the limit does not compact.
AddBeginNoCompact(g) ==
    /\ pc[g] = "add"
    /\ hasTC' = [hasTC EXCEPT ![g] = TRUE]
    /\ IF n[g] >= MaxSpans
       THEN /\ pc' = [pc EXCEPT ![g] = "compact"]
            /\ crowded' = [crowded EXCEPT ![g] =
                              \A i \in 1..Len(stack[g]) : stack[g][i] \notin ended]
       ELSE /\ pc' = [pc EXCEPT ![g] = "track"]
            /\ UNCHANGED crowded
    /\ UNCHANGED <<arg, child, stack, n, lcs, cursor, sharedVars, phase, found,
                   parent, birth, past>>

\* getOrInitTraceContext and add's capacity test.
AddBegin(g) ==
    /\ pc[g] = "add"
    /\ hasTC' = [hasTC EXCEPT ![g] = TRUE]
    /\ IF n[g] >= MaxSpans
       THEN /\ pc' = [pc EXCEPT ![g] = "compact"]
            /\ cursor' = [cursor EXCEPT ![g] = Len(stack[g])]
            /\ crowded' = [crowded EXCEPT ![g] =
                              \A i \in 1..Len(stack[g]) : stack[g][i] \notin ended]
       ELSE /\ pc' = [pc EXCEPT ![g] = "track"]
            /\ UNCHANGED <<cursor, crowded>>
    /\ UNCHANGED <<arg, child, stack, n, lcs, sharedVars, phase, found,
                   parent, birth, past>>

\* Mutant: compact() also skips the entry below one it unlinks.
CompactStepSkips(g) ==
    /\ pc[g] = "compact"
    /\ cursor[g] > 0
    /\ IF stack[g][cursor[g]] \in ended
       THEN /\ stack' = [stack EXCEPT ![g] = RemoveAt(@, cursor[g])]
            /\ n' = [n EXCEPT ![g] = @ - 1]
            /\ cursor' = [cursor EXCEPT ![g] = @ - 2]
       ELSE /\ cursor' = [cursor EXCEPT ![g] = @ - 1]
            /\ UNCHANGED <<stack, n>>
    /\ UNCHANGED <<pc, arg, child, hasTC, lcs, sharedVars, phase, found, parent,
                   historyVars>>

\* Mutant: compact() does not move past a live entry.
CompactStepStuck(g) ==
    /\ pc[g] = "compact"
    /\ cursor[g] > 0
    /\ IF stack[g][cursor[g]] \in ended
       THEN /\ stack' = [stack EXCEPT ![g] = RemoveAt(@, cursor[g])]
            /\ n' = [n EXCEPT ![g] = @ - 1]
            /\ cursor' = [cursor EXCEPT ![g] = @ - 1]
       ELSE UNCHANGED <<stack, n, cursor>>
    /\ UNCHANGED <<pc, arg, child, hasTC, lcs, sharedVars, phase, found, parent,
                   historyVars>>

\* One iteration of compact()'s first loop, which walks from the top down.
CompactStep(g) ==
    /\ pc[g] = "compact"
    /\ cursor[g] > 0
    /\ IF stack[g][cursor[g]] \in ended
       THEN /\ stack' = [stack EXCEPT ![g] = RemoveAt(@, cursor[g])]
            /\ n' = [n EXCEPT ![g] = @ - 1]
       ELSE UNCHANGED <<stack, n>>
    /\ cursor' = [cursor EXCEPT ![g] = @ - 1]
    /\ UNCHANGED <<pc, arg, child, hasTC, lcs, sharedVars, phase, found, parent,
                   historyVars>>

\* compact() recomputes lcs; add() goes on if there is room now.
CompactMadeRoom(g) ==
    /\ pc[g] = "compact"
    /\ cursor[g] = 0
    /\ n[g] < MaxSpans
    /\ lcs' = [lcs EXCEPT ![g] = Bottom(stack[g])]
    /\ pc' = [pc EXCEPT ![g] = "track"]
    /\ UNCHANGED <<arg, child, hasTC, stack, n, cursor, sharedVars, phase, found,
                   parent, historyVars>>

\* Still full: add() returns false and the new span stays off the stack.
AddRefused(g) ==
    /\ pc[g] = "compact"
    /\ cursor[g] = 0
    /\ n[g] >= MaxSpans
    /\ lcs' = [lcs EXCEPT ![g] = Bottom(stack[g])]
    /\ crowded' = [crowded EXCEPT ![g] = FALSE]
    /\ phase' = [phase EXCEPT ![arg[g]] = "live"]
    /\ arg' = [arg EXCEPT ![g] = NoSpan]
    /\ pc' = [pc EXCEPT ![g] = "run"]
    /\ UNCHANGED <<child, hasTC, stack, n, cursor, sharedVars, found, parent, birth,
                   past>>

\* Mutant: eviction starts one span too late.
MustEvictLate == Cardinality(states) > MaxSpanStates /\ order # Empty

\* stateForSpan at the limit: evictOldestLocked flags and drops the front.
MustEvict == Cardinality(states) >= MaxSpanStates /\ order # Empty

\* stateForSpan under the mutex, then the push on the goroutine's own stack.
AddTracked(g) ==
    /\ pc[g] = "track"
    /\ ended' = IF MustEvict THEN ended \cup {Head(order)} ELSE ended
    /\ states' = (IF MustEvict THEN states \ {Head(order)} ELSE states) \cup {arg[g]}
    /\ order' = Append(IF MustEvict THEN Tail(order) ELSE order, arg[g])
    /\ birth' = [birth EXCEPT ![arg[g]] =
                    Cardinality({s \in Spans : birth[s] > 0}) + 1]
    /\ lcs' = [lcs EXCEPT ![g] = IF n[g] = 0 THEN arg[g] ELSE @]
    /\ stack' = [stack EXCEPT ![g] = Append(@, arg[g])]
    /\ n' = [n EXCEPT ![g] = @ + 1]
    /\ phase' = [phase EXCEPT ![arg[g]] = "live"]
    /\ crowded' = [crowded EXCEPT ![g] = FALSE]
    /\ arg' = [arg EXCEPT ![g] = NoSpan]
    /\ pc' = [pc EXCEPT ![g] = "run"]
    /\ UNCHANGED <<child, hasTC, cursor, found, parent, past>>

-----------------------------------------------------------------------------
(* recordingSpan.End / nonRecordingSpan.End: traceContextDelSpan(span), on  *)
(* any goroutine and possibly again for a span that has ended.              *)

\* Mutant: markSpanEnded forgets entry.state.Store(true).
MarkSpanEndedNoFlag(g, s) ==
    /\ pc[g] = "run"
    /\ phase[s] \in {"live", "done"}
    /\ states' = states \ {s}
    /\ order' = SelectSeq(order, LAMBDA t : t # s)
    /\ phase' = [phase EXCEPT ![s] = "done"]
    /\ IF hasTC[g]
       THEN /\ arg' = [arg EXCEPT ![g] = s]
            /\ pc' = [pc EXCEPT ![g] = "del"]
       ELSE UNCHANGED <<arg, pc>>
    /\ UNCHANGED <<child, tcVars, cursor, ended, found, parent, historyVars>>

\* markSpanEnded under the mutex.
MarkSpanEnded(g, s) ==
    /\ pc[g] = "run"
    /\ phase[s] \in {"live", "done"}
    /\ IF s \in states
       THEN /\ ended' = ended \cup {s}
            /\ states' = states \ {s}
            /\ order' = RemoveAt(order, CHOOSE i \in 1..Len(order) : order[i] = s)
       ELSE UNCHANGED sharedVars
    /\ phase' = [phase EXCEPT ![s] = "done"]
    /\ IF hasTC[g]
       THEN /\ arg' = [arg EXCEPT ![g] = s]
            /\ pc' = [pc EXCEPT ![g] = "del"]
       ELSE UNCHANGED <<arg, pc>>
    /\ UNCHANGED <<child, tcVars, cursor, found, parent, historyVars>>

\* Where del() finds its span: the topmost wrapper with the same ids.
IsTopmost(seq, i, s) == seq[i] = s /\ \A j \in (i + 1)..Len(seq) : seq[j] # s

\* Mutant: del() leaves lcs alone.
DelKeepsLcs(g) ==
    /\ pc[g] = "del"
    /\ \/ /\ arg[g] \notin Range(stack[g])
          /\ UNCHANGED <<stack, n, ended>>
       \/ \E i \in 1..Len(stack[g]) :
             /\ IsTopmost(stack[g], i, arg[g])
             /\ ended' = ended \cup {arg[g]}
             /\ stack' = [stack EXCEPT ![g] = RemoveAt(@, i)]
             /\ n' = [n EXCEPT ![g] = @ - 1]
    /\ arg' = [arg EXCEPT ![g] = NoSpan]
    /\ pc' = [pc EXCEPT ![g] = "run"]
    /\ UNCHANGED <<child, hasTC, lcs, cursor, states, order, phase, found, parent,
                   historyVars>>

\* del(): flag and unlink the wrapper; recompute lcs if it was the bottom.
Del(g) ==
    /\ pc[g] = "del"
    /\ \/ /\ arg[g] \notin Range(stack[g])
          /\ UNCHANGED <<stack, n, lcs, ended>>
       \/ \E i \in 1..Len(stack[g]) :
             /\ IsTopmost(stack[g], i, arg[g])
             /\ ended' = ended \cup {arg[g]}
             /\ stack' = [stack EXCEPT ![g] = RemoveAt(@, i)]
             /\ n' = [n EXCEPT ![g] = @ - 1]
             /\ lcs' = [lcs EXCEPT ![g] =
                           IF i = 1 THEN Bottom(RemoveAt(stack[g], i)) ELSE @]
    /\ arg' = [arg EXCEPT ![g] = NoSpan]
    /\ pc' = [pc EXCEPT ![g] = "run"]
    /\ UNCHANGED <<child, hasTC, cursor, states, order, phase, found, parent,
                   historyVars>>

-----------------------------------------------------------------------------
(* The go statement: newproc1 propagates the caller's context.  The new     *)
(* goroutine is put on a run queue only after newproc1 has returned.        *)

\* The caller has no context: the new descriptor's field is reset to nil.
GoWithoutContext(g, h) ==
    /\ pc[g] = "run"
    /\ pc[h] = "absent"
    /\ ~hasTC[g]
    /\ pc' = [pc EXCEPT ![h] = "run"]
    /\ hasTC' = [hasTC EXCEPT ![h] = FALSE]
    /\ stack' = [stack EXCEPT ![h] = Empty]
    /\ n' = [n EXCEPT ![h] = 0]
    /\ lcs' = [lcs EXCEPT ![h] = NoSpan]
    /\ UNCHANGED <<arg, child, cursor, sharedVars, phase, found, parent, historyVars>>

\* The caller has one: propagateOtelContext calls Clone, which calls tail.
GoWithContext(g, h) ==
    /\ pc[g] = "run"
    /\ pc[h] = "absent"
    /\ hasTC[g]
    /\ pc' = [pc EXCEPT ![g] = "forkTail", ![h] = "spawning"]
    /\ child' = [child EXCEPT ![g] = h]
    /\ UNCHANGED <<arg, tcVars, cursor, sharedVars, phase, found, parent, historyVars>>

\* Mutant: Clone copies the whole stack.
CloneReturnAll(g) ==
    LET h == child[g] IN
    /\ pc[g] = "forkTail"
    /\ TailStops(g)
    /\ hasTC' = [hasTC EXCEPT ![h] = TRUE]
    /\ stack' = [stack EXCEPT ![h] = stack[g]]
    /\ n' = [n EXCEPT ![h] = n[g]]
    /\ lcs' = [lcs EXCEPT ![g] = TailLcs(g), ![h] = NoSpan]
    /\ child' = [child EXCEPT ![g] = g]
    /\ pc' = [pc EXCEPT ![g] = "run", ![h] = "run"]
    /\ UNCHANGED <<arg, cursor, sharedVars, phase, found, parent, historyVars>>

\* Clone: a fresh stack holding the live top only; its flag is shared and
\* lcs is left nil.
CloneReturn(g) ==
    LET h == child[g] IN
    /\ pc[g] = "forkTail"
    /\ TailStops(g)
    /\ hasTC' = [hasTC EXCEPT ![h] = TRUE]
    /\ stack' = [stack EXCEPT ![h] =
                    IF stack[g] = Empty THEN Empty ELSE <<Last(stack[g])>>]
    /\ n' = [n EXCEPT ![h] = IF stack[g] = Empty THEN 0 ELSE 1]
    /\ lcs' = [lcs EXCEPT ![g] = TailLcs(g), ![h] = NoSpan]
    /\ child' = [child EXCEPT ![g] = g]
    /\ pc' = [pc EXCEPT ![g] = "run", ![h] = "run"]
    /\ UNCHANGED <<arg, cursor, sharedVars, phase, found, parent, historyVars>>

\* A goroutine returns.  Nothing clears the fields of its descriptor.
Exit(g) ==
    /\ pc[g] = "run"
    /\ g # Main
    /\ pc' = [pc EXCEPT ![g] = "absent"]
    /\ UNCHANGED <<arg, child, tcVars, cursor, sharedVars, phase, found, parent,
                   historyVars>>

-----------------------------------------------------------------------------
(* Lookups by application code and log bridges.                             *)

\* spanFromGLS and GetTraceAndSpanID return at once when there is no context.
SpanFromGLS(g) ==
    /\ pc[g] = "run"
    /\ hasTC[g]
    /\ pc' = [pc EXCEPT ![g] = "readTail"]
    /\ UNCHANGED <<arg, child, tcVars, cursor, sharedVars, phase, found, parent,
                   historyVars>>

\* GetTraceContext creates the context first.
GetTraceContext(g) ==
    /\ pc[g] = "run"
    /\ ~hasTC[g]
    /\ hasTC' = [hasTC EXCEPT ![g] = TRUE]
    /\ pc' = [pc EXCEPT ![g] = "readTail"]
    /\ UNCHANGED <<arg, child, stack, n, lcs, cursor, sharedVars, phase, found,
                   parent, historyVars>>

ReadReturn(g) ==
    /\ pc[g] = "readTail"
    /\ TailStops(g)
    /\ lcs' = [lcs EXCEPT ![g] = TailLcs(g)]
    /\ pc' = [pc EXCEPT ![g] = "run"]
    /\ UNCHANGED <<arg, child, hasTC, stack, n, cursor, sharedVars, phase, found,
                   parent, historyVars>>

\* ClearTraceContext: getOrInitTraceContext().clear().
ClearTraceContext(g) ==
    /\ pc[g] = "run"
    /\ hasTC' = [hasTC EXCEPT ![g] = TRUE]
    /\ stack' = [stack EXCEPT ![g] = Empty]
    /\ n' = [n EXCEPT ![g] = 0]
    /\ lcs' = [lcs EXCEPT ![g] = NoSpan]
    /\ UNCHANGED <<pc, arg, child, cursor, sharedVars, phase, found, parent, historyVars>>

-----------------------------------------------------------------------------
\* What a hook does once application code has called it.
HookStep(g) ==
    \/ TailPop(g)
    \/ StartTailReturn(g)
    \/ StartWithParent(g)
    \/ AddBegin(g)
    \/ CompactStep(g)
    \/ CompactMadeRoom(g)
    \/ AddRefused(g)
    \/ AddTracked(g)
    \/ Del(g)
    \/ CloneReturn(g)
    \/ ReadReturn(g)

\* What application code may call.
AppStep(g) ==
    \/ \E s \in Spans : \/ StartWithContextSpan(g, s)
                        \/ StartWithoutContextSpan(g, s)
                        \/ MarkSpanEnded(g, s)
    \/ \E h \in Goroutines : \/ GoWithoutContext(g, h)
                             \/ GoWithContext(g, h)
    \/ Exit(g)
    \/ SpanFromGLS(g)
    \/ GetTraceContext(g)
    \/ ClearTraceContext(g)

Next == \E g \in Goroutines : HookStep(g) \/ AppStep(g)

Spec == Init /\ [][Next]_vars

\* The Go scheduler runs every runnable goroutine, so a hook goes on.
FairSpec == Spec /\ \A g \in Goroutines : WF_vars(HookStep(g))

-----------------------------------------------------------------------------
(* Properties.                                                              *)

\* Every variable has its type.
TypeOK ==
    /\ pc \in [Goroutines -> Pc]
    /\ arg \in [Goroutines -> Spans \cup {NoSpan}]
    /\ child \in [Goroutines -> Goroutines]
    /\ hasTC \in [Goroutines -> BOOLEAN]
    /\ stack \in [Goroutines -> Seq(Spans)]
    /\ n \in [Goroutines -> Int]
    /\ lcs \in [Goroutines -> Spans \cup {NoSpan}]
    /\ cursor \in [Goroutines -> Nat]
    /\ ended \in SUBSET Spans
    /\ states \in SUBSET Spans
    /\ order \in Seq(Spans)
    /\ phase \in [Spans -> Phase]
    /\ found \in [Spans -> Spans \cup {NoSpan, CtxSpan}]
    /\ parent \in [Spans -> Spans \cup {NoSpan, CtxSpan}]
    /\ birth \in [Spans -> Nat]
    /\ past \in [Spans -> SUBSET Spans]
    /\ crowded \in [Goroutines -> BOOLEAN]

\* Once markSpanEnded(s) has run, on whichever goroutine, no goroutine's
\* lookup can return s any more: an End is seen by every clone of the stack.
EndReachesEveryGoroutine ==
    \A s \in Spans, g \in Goroutines : phase[s] = "done" => s \notin LiveEntries(g)

\* The map and the eviction list of spanStates agree, hold each key once and
\* stay within maxSpanStates; and every entry a lookup may return is tracked,
\* so that its End or its eviction will find the flag to set.
SpanStatesConsistent ==
    /\ states = Range(order)
    /\ IsInjective(order)
    /\ Len(order) <= MaxSpanStates
    /\ \A g \in Goroutines : LiveEntries(g) \subseteq states

\* tc.n is the length of the chain, through every unlinking by tail, compact,
\* del and clear, and never exceeds otelGLSMaxSpans.
CountMatchesChain ==
    \A g \in Goroutines : n[g] = Len(stack[g]) /\ n[g] <= MaxSpans

\* Between hooks, localRootSpan() is the bottom of the chain, or nil (always nil
\* on a fresh clone); it never names a span that has left the chain.
LocalRootIsBottom ==
    \A g \in Goroutines :
        pc[g] = "run" => localRootSpan(g) \in {NoSpan, Bottom(stack[g])}

\* add() turns a span away only if the goroutine already held MaxSpans live
\* spans when add() was entered: ended entries never cost a new span its place.
RefusedOnlyWhenCrowded ==
    \A g \in Goroutines :
        (pc[g] = "compact" /\ cursor[g] = 0 /\ n[g] >= MaxSpans) => crowded[g]

\* The span a lookup decides on was live and tracked at its last look at the
\* flag; and a span that had ended or been evicted before the lookup began never
\* becomes an implicit parent, though it may end between that look and the SDK's
\* use of what SpanFromContext returned.
ParentIsLive ==
    [][\A s \in Spans :
          /\ (found'[s] # found[s] /\ found'[s] \in Spans) =>
                /\ phase[found'[s]] = "live"
                /\ found'[s] \in states
          /\ (parent'[s] # parent[s] /\ parent'[s] \in Spans) =>
                parent'[s] \notin past[s]]_vars

\* A hook always comes back to the application code that called it.
HookReturns ==
    \A g \in Goroutines :
        pc[g] \notin {"run", "absent", "spawning"} ~> pc[g] = "run"

=============================================================================
