------------------------------ MODULE SDKSpans ------------------------------
(***************************************************************************)
(* The tracing SDK as the hooks use it, for the spans of one goroutine: a    *)
(* log of spans, oldest first.  The implicit parent is the innermost live    *)
(* span, which is what the span stack promises (ImplicitParent).             *)
(***************************************************************************)
EXTENDS Integers, Sequences

NoParent == 0

Live(log) == {i \in DOMAIN log : ~log[i].ended}

\* SpanFromContext without a span in the context.
Current(log) ==
    IF Live(log) = {} THEN NoParent
    ELSE CHOOSE i \in Live(log) : \A j \in Live(log) : j <= i

\* The span a context gives: its own, or else the innermost live one.
SpanFromContext(log, ctx) == IF ctx # NoParent THEN ctx ELSE Current(log)

\* tracer.Start; `outcome' is what the spanned call came to, as a history.
Start(log, ctx, fn) ==
    Append(log, [fn |-> fn, parent |-> SpanFromContext(log, ctx), ended |-> FALSE,
                 error |-> FALSE, outcome |-> "running"])

\* span.End
EndSpan(log, i) == [log EXCEPT ![i].ended = TRUE]

\* span.SetStatus(codes.Error, ...): a span that has ended is left as it is.
SetError(log, i) == [log EXCEPT ![i].error = @ \/ ~log[i].ended]

\* History: the call of span i came to r.
CameTo(log, i, r) == [log EXCEPT ![i].outcome = r]

=============================================================================
