--------------------------- MODULE ImplicitParent ---------------------------
(***************************************************************************)
(* What the goroutine-local span stack promises, without lists or flags:    *)
(* every goroutine has a set of candidate spans, a lookup returns the one   *)
(* that was tracked last, and ending or evicting a span takes it out of     *)
(* every goroutine's set at once.                                           *)
(***************************************************************************)
EXTENDS Integers, FiniteSets

CONSTANTS Goroutines, Main, Spans, MaxSpans, MaxSpanStates, NoSpan, CtxSpan

VARIABLES alive,    \* running goroutines
          pending,  \* the span each goroutine is creating, parent already chosen
          cand,     \* the spans a lookup on each goroutine may return
          tracked,  \* spans whose lifecycle is tracked
          phase, parent,
          birth,    \* order of tracking; 0 for a span that never was
          crowded   \* the goroutine was at capacity when it began to add

vars == <<alive, pending, cand, tracked, phase, parent, birth, crowded>>

\* The innermost live span of goroutine g.
Current(g) ==
    IF cand[g] = {} THEN NoSpan
    ELSE CHOOSE s \in cand[g] : \A t \in cand[g] : birth[t] <= birth[s]

Init ==
    /\ alive = {Main}
    /\ pending = [g \in Goroutines |-> NoSpan]
    /\ cand = [g \in Goroutines |-> {}]
    /\ tracked = {}
    /\ phase = [s \in Spans |-> "unborn"]
    /\ parent = [s \in Spans |-> NoSpan]
    /\ birth = [s \in Spans |-> 0]
    /\ crowded = [g \in Goroutines |-> FALSE]

\* A span starts; its parent is the context's span or the innermost live one.
Start(g, s) ==
    /\ g \in alive
    /\ pending[g] = NoSpan
    /\ phase[s] = "unborn"
    /\ phase' = [phase EXCEPT ![s] = "started"]
    /\ \E p \in {CtxSpan, Current(g)} : parent' = [parent EXCEPT ![s] = p]
    /\ pending' = [pending EXCEPT ![g] = s]
    /\ UNCHANGED <<alive, cand, tracked, birth, crowded>>

\* The goroutine finds MaxSpans live spans where the new one should go.
FindCrowded(g) ==
    /\ pending[g] # NoSpan
    /\ Cardinality(cand[g]) >= MaxSpans
    /\ crowded' = [crowded EXCEPT ![g] = TRUE]
    /\ UNCHANGED <<alive, pending, cand, tracked, phase, parent, birth>>

\* The span becomes a candidate; at the tracking limit the span tracked for
\* longest is evicted from every goroutine.
Publish(g) ==
    LET s == pending[g]
        victims == IF Cardinality(tracked) < MaxSpanStates THEN {}
                   ELSE {v \in tracked : \A t \in tracked : birth[v] <= birth[t]}
    IN  /\ s # NoSpan
        /\ Cardinality(cand[g]) < MaxSpans
        /\ tracked' = (tracked \ victims) \cup {s}
        /\ cand' = [h \in Goroutines |->
                       IF h = g THEN (cand[h] \ victims) \cup {s}
                                ELSE cand[h] \ victims]
        /\ birth' = [birth EXCEPT ![s] = Cardinality({t \in Spans : birth[t] > 0}) + 1]
        /\ phase' = [phase EXCEPT ![s] = "live"]
        /\ pending' = [pending EXCEPT ![g] = NoSpan]
        /\ crowded' = [crowded EXCEPT ![g] = FALSE]
        /\ UNCHANGED <<alive, parent>>

\* The span goes unnoticed: only a goroutine found at capacity may do this.
Refuse(g) ==
    /\ pending[g] # NoSpan
    /\ crowded[g]
    /\ phase' = [phase EXCEPT ![pending[g]] = "live"]
    /\ pending' = [pending EXCEPT ![g] = NoSpan]
    /\ crowded' = [crowded EXCEPT ![g] = FALSE]
    /\ UNCHANGED <<alive, cand, tracked, parent, birth>>

\* Somebody ends the span; nobody sees it any more.
End(s) ==
    /\ phase[s] \in {"live", "done"}
    /\ phase' = [phase EXCEPT ![s] = "done"]
    /\ tracked' = tracked \ {s}
    /\ cand' = [g \in Goroutines |-> cand[g] \ {s}]
    /\ UNCHANGED <<alive, pending, parent, birth, crowded>>

\* A new goroutine sees its parent's innermost live span and nothing else.
Go(g, h) ==
    /\ g \in alive
    /\ h \notin alive
    /\ alive' = alive \cup {h}
    /\ cand' = [cand EXCEPT ![h] = {Current(g)} \ {NoSpan}]
    /\ UNCHANGED <<pending, tracked, phase, parent, birth, crowded>>

\* A goroutine returns and its candidates are forgotten.
Exit(g) ==
    /\ g \in alive
    /\ pending[g] = NoSpan
    /\ alive' = alive \ {g}
    /\ cand' = [cand EXCEPT ![g] = {}]
    /\ UNCHANGED <<pending, tracked, phase, parent, birth, crowded>>

\* A goroutine forgets its candidates.
Clear(g) ==
    /\ cand' = [cand EXCEPT ![g] = {}]
    /\ UNCHANGED <<alive, pending, tracked, phase, parent, birth, crowded>>

Next ==
    \/ \E g \in Goroutines :
          \/ \E s \in Spans : Start(g, s)
          \/ FindCrowded(g)
          \/ Publish(g)
          \/ Refuse(g)
          \/ \E h \in Goroutines : Go(g, h)
          \/ Exit(g)
          \/ Clear(g)
    \/ \E s \in Spans : End(s)

Spec == Init /\ [][Next]_vars

=============================================================================
