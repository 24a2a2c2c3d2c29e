------------------------------ MODULE SWContext ------------------------------
(***************************************************************************)
(* The tracing context of skywalking-go (plugins/core/tracing), as the hooks *)
(* under skywalking/plugins use it.  A state t of it is a record: t.log is   *)
(* the log of spans, oldest first, and t.act[g] is the context of goroutine  *)
(* g, the goroutine-local field the runtime hooks add.                       *)
(***************************************************************************)
EXTENDS Integers, Sequences

\* A context holds a span or, with 0, none.  A snapshot of a span is a parent
\* for new spans but never handed out as the span itself.  A goroutine that never
\* had a context, or whose context was cleaned, has none at all.
NoContext == [span |-> 0, snap |-> FALSE]
NoSpan == [span |-> 0, snap |-> TRUE]

Empty(G) == [log |-> <<>>, act |-> [g \in G |-> NoContext]]

ActiveSpan(t, g) == t.act[g].span

\* CreateEntrySpan, CreateExitSpan and CreateLocalSpan.  The active span is
\* handed out again, and has to be ended once more, if it is an entry (exit)
\* span of this goroutine and an entry (exit) span is asked for.
Reuses(t, g, kind) ==
    LET c == t.act[g]
    IN  /\ kind # "local" /\ c.span # 0 /\ ~c.snap
        /\ t.log[c.span].kind = kind

Create(t, g, kind, name) ==
    IF Reuses(t, g, kind)
    THEN [t EXCEPT !.log[t.act[g].span].depth = @ + 1]
    ELSE [log |-> Append(t.log, [kind |-> kind, name |-> name,
                                 parent |-> IF t.act[g] = NoContext THEN NoSpan ELSE t.act[g],
                                 depth |-> 1, async |-> "no"]),
          act |-> [t.act EXCEPT ![g] = [span |-> Len(t.log) + 1, snap |-> FALSE]]]

\* Span.End on goroutine g: the last End makes the span's parent active, unless
\* the context was cleaned meanwhile.
EndSpan(t, g, i) ==
    IF t.log[i].depth > 1
    THEN [t EXCEPT !.log[i].depth = @ - 1]
    ELSE [t EXCEPT !.log[i].depth = 0, !.act[g] = IF @ = NoContext THEN @ ELSE t.log[i].parent]

\* PrepareAsync keeps a span from being reported by End alone; AsyncFinish, on
\* any goroutine, lets it go.
PrepareAsync(t, i) == [t EXCEPT !.log[i].async = "prepared"]
AsyncFinish(t, i) == [t EXCEPT !.log[i].async = "finished"]

\* A segment is sent when the spans in it are reported.
Reported(t, i) == t.log[i].depth = 0 /\ t.log[i].async # "prepared"

\* CaptureContext, ContinueContext and CleanContext.
CaptureContext(t, g) == IF t.act[g] = NoContext THEN NoContext ELSE [t.act[g] EXCEPT !.snap = TRUE]
ContinueContext(t, g, snapshot) == [t EXCEPT !.act[g] = snapshot]
CleanContext(t, g) == [t EXCEPT !.act[g] = NoContext]

\* newproc1: goroutine k, started by g, begins with a snapshot of g's context.
newproc1(t, g, k) == ContinueContext(t, k, CaptureContext(t, g))

=============================================================================
