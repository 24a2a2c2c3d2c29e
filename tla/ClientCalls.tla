----------------------------- MODULE ClientCalls -----------------------------
(***************************************************************************)
(* Calls that nest on one goroutine: linodego's public methods and doRequest *)
(* (otelc/plugins/linodego), elastic's PerformRequest (otelc/plugins/        *)
(* elasticv7) and net/http's RoundTrip underneath (otelc/plugins/nethttp);   *)
(* commands of go-redis (otelc/plugins/redisv9) and queries of gocql         *)
(* (otelc/plugins/gocqlv2); the informers of Kubernetes (otelc/plugins/      *)
(* k8sclientgo, otelc/k8sapi).  A hook starts a span, passes its context     *)
(* inwards, and ends the span in a deferred function.                        *)
(***************************************************************************)
EXTENDS SDKSpans, FiniteSets

CONSTANT MaxLog  \* bound: spans and calls of a behaviour

\* The libraries a program links: HTTP clients, or the others.
HTTP == {"linodego", "elastic", "nethttp"}
Others == {"redis", "gocql", "k8s"}
Processing == {"processDeltas", "processDeltasInBatch"}
HTTPFns == {"publicMethod", "doRequest", "PerformRequest", "RoundTrip"}
Fns == HTTPFns \cup {"ProcessHook", "ObserveQuery", "OnEvent"} \cup Processing

\* How a call can end: well; with an HTTP status below 400, or of 400 and more;
\* with a status the caller asked to ignore, or redis.Nil; with an error without
\* a status.
Results == {"ok", "lowStatus", "status", "ignored", "error"}

VARIABLES linked,   \* the libraries the program uses
          enabled,  \* plugins for which hooksupport.Instrumented is true
          spans,    \* the goroutine's spans
          frames,   \* the instrumented calls under way, outermost first
          header,   \* the span in the trace header of the request being built
          calls     \* calls made so far

vars == <<linked, enabled, spans, frames, header, calls>>

NoFrame == [fn |-> "app", span |-> NoParent, ctx |-> NoParent, quiet |-> FALSE,
            detached |-> FALSE]

Init ==
    /\ linked \in {HTTP, Others}
    /\ enabled \in SUBSET linked
    /\ spans = <<>>
    /\ frames = <<>>
    /\ header = NoParent
    /\ calls = 0

Top == IF frames = <<>> THEN NoFrame ELSE frames[Len(frames)]

Bounded == calls < MaxLog /\ Len(spans) < MaxLog

-----------------------------------------------------------------------------
(* The application's own span around its calls.                             *)

AppSpans == {i \in Live(spans) : spans[i].fn = "app"}

AppStart ==
    /\ frames = <<>>
    /\ AppSpans = {}
    /\ Bounded
    /\ spans' = Start(spans, NoParent, "app")
    /\ UNCHANGED <<linked, enabled, frames, header, calls>>

AppEnd ==
    /\ frames = <<>>
    /\ \E i \in AppSpans : spans' = EndSpan(spans, i)
    /\ UNCHANGED <<linked, enabled, frames, header, calls>>

\* The contexts a caller of fn may pass: the application's, or the one the
\* enclosing hook put in its place.
Contexts(fn) ==
    IF frames = <<>>
    THEN IF fn \in (IF linked = HTTP THEN HTTPFns ELSE {"ProcessHook"})
         THEN {NoParent} \cup AppSpans ELSE {}
    ELSE IF \/ Top.fn = "publicMethod" /\ fn = "doRequest"
            \/ Top.fn \in {"doRequest", "PerformRequest"} /\ fn = "RoundTrip"
         THEN {Top.ctx} ELSE {}

\* The call of fn begins: with a span, and its context inside, or without.
Enter(fn, parentCtx, quiet) ==
    /\ Bounded
    /\ calls' = calls + 1
    /\ spans' = Start(spans, parentCtx, fn)
    /\ frames' = Append(frames, [fn |-> fn, span |-> Len(spans) + 1,
                                 ctx |-> Len(spans) + 1, quiet |-> quiet,
                                 detached |-> FALSE])
    /\ UNCHANGED <<linked, enabled>>

Pass(fn, ctx) ==
    /\ Bounded
    /\ calls' = calls + 1
    /\ frames' = Append(frames, [NoFrame EXCEPT !.fn = fn, !.ctx = ctx, !.quiet = Top.quiet])
    /\ UNCHANGED <<linked, enabled, spans>>

-----------------------------------------------------------------------------
(* linodego                                                                 *)

StartAPICall ==
    \E ctx \in Contexts("publicMethod") :
        /\ IF "linodego" \in enabled THEN Enter("publicMethod", ctx, Top.quiet)
                                     ELSE Pass("publicMethod", ctx)
        /\ UNCHANGED header

\* Each request of a call is built anew, so that its header is empty.
DoRequest ==
    \E ctx \in Contexts("doRequest") :
        /\ IF "linodego" \in enabled THEN Enter("doRequest", ctx, Top.quiet)
                                     ELSE Pass("doRequest", ctx)
        /\ header' = NoParent

\* otelcLinodeFinishSpanWithError and the HTTP status rules it uses.
LinodeError(r) == r \in {"status", "error"}

Pop ==
    /\ frames' = SubSeq(frames, 1, Len(frames) - 1)
    /\ UNCHANGED <<linked, enabled, header, calls>>

\* The span s of a call that came to r is marked if it failed, and ended.
MarkThenEnd(s, failed, r) ==
    IF s = NoParent THEN spans
    ELSE CameTo(EndSpan(IF failed THEN SetError(spans, s) ELSE spans, s), s, r)

EndAPICall(r) ==
    /\ Top.fn = "publicMethod"
    /\ r # "ignored"
    /\ spans' = MarkThenEnd(Top.span, LinodeError(r), r)
    /\ Pop

\* doRequest's deferred function ends the span first and marks it afterwards.
EndDoRequest(r) ==
    /\ Top.fn = "doRequest"
    /\ r # "ignored"
    /\ spans' = IF Top.span = NoParent THEN spans
                ELSE LET log == CameTo(EndSpan(spans, Top.span), Top.span, r)
                     IN  IF LinodeError(r) THEN SetError(log, Top.span) ELSE log
    /\ Pop

-----------------------------------------------------------------------------
(* elastic                                                                  *)

\* Mutant: net/http instrumentation is not suppressed.
PerformRequestLoud ==
    \E ctx \in Contexts("PerformRequest") :
        /\ IF "elastic" \in enabled THEN Enter("PerformRequest", ctx, Top.quiet)
                                    ELSE Pass("PerformRequest", ctx)
        /\ header' = NoParent

\* The context it passes on suppresses net/http client instrumentation.
PerformRequest ==
    \E ctx \in Contexts("PerformRequest") :
        /\ IF "elastic" \in enabled THEN Enter("PerformRequest", ctx, TRUE)
                                    ELSE Pass("PerformRequest", ctx)
        /\ header' = NoParent

EndPerformRequest(r) ==
    /\ Top.fn = "PerformRequest"
    /\ r # "lowStatus"
    /\ spans' = MarkThenEnd(Top.span, r \in {"status", "error"}, r)
    /\ Pop

-----------------------------------------------------------------------------
(* net/http                                                                 *)

\* An exporter's own request is recognised by its User-Agent.
RoundTrip(exporter) ==
    \E ctx \in Contexts("RoundTrip") :
        /\ exporter => frames = <<>>
        /\ IF "nethttp" \in enabled /\ ~Top.quiet /\ ~exporter
           THEN /\ Enter("RoundTrip", ctx, FALSE)
                /\ header' = Len(spans) + 1
           ELSE /\ Pass("RoundTrip", ctx)
                /\ header' = NoParent

\* The same request is sent again: Extract finds the last attempt's span in the
\* header that Inject wrote in place, and prefers it to the context.
Resend ==
    \E ctx \in Contexts("RoundTrip") :
        /\ header # NoParent
        /\ "nethttp" \in enabled
        /\ ~Top.quiet
        /\ Bounded
        /\ calls' = calls + 1
        /\ spans' = Start(spans, header, "RoundTrip")
        /\ frames' = Append(frames, [fn |-> "RoundTrip", span |-> Len(spans) + 1,
                                     ctx |-> Len(spans) + 1, quiet |-> FALSE,
                                     detached |-> TRUE])
        /\ header' = Len(spans) + 1
        /\ UNCHANGED <<linked, enabled>>

\* Mutant: a response of 400 and more is no error.
EndRoundTripLenient(r) ==
    /\ Top.fn = "RoundTrip"
    /\ r # "ignored"
    /\ spans' = MarkThenEnd(Top.span, r = "error", r)
    /\ Pop

EndRoundTrip(r) ==
    /\ Top.fn = "RoundTrip"
    /\ r # "ignored"
    /\ spans' = MarkThenEnd(Top.span, r \in {"status", "error"}, r)
    /\ Pop

-----------------------------------------------------------------------------
(* go-redis: the hook that the constructors add, around a command or a        *)
(* pipeline.  The hook of DialHook only passes the call on.                 *)

ProcessHook ==
    \E ctx \in Contexts("ProcessHook") :
        /\ IF "redis" \in enabled THEN Enter("ProcessHook", ctx, Top.quiet)
                                  ELSE Pass("ProcessHook", ctx)
        /\ UNCHANGED header

EndProcessHook(r) ==
    /\ Top.fn = "ProcessHook"
    /\ r \in {"ok", "ignored", "error"}
    /\ spans' = MarkThenEnd(Top.span, r = "error", r)
    /\ Pop

-----------------------------------------------------------------------------
(* gocql: the observer gets to know of a query, a batch or a connection when  *)
(* it is over, and makes a span of it then; a connection has no context.     *)

ObserveQuery(ctx, r) ==
    /\ "gocql" \in enabled
    /\ frames = <<>> /\ Bounded
    /\ r \in {"ok", "error"}
    /\ spans' = LET log == Start(spans, ctx, "ObserveQuery")
                    i == Len(log)
                IN  CameTo(EndSpan(IF r = "error" THEN SetError(log, i) ELSE log, i), i, r)
    /\ calls' = calls + 1
    /\ UNCHANGED <<linked, enabled, frames, header>>

-----------------------------------------------------------------------------
(* Kubernetes: a batch of deltas is processed as such or delta by delta, and  *)
(* either way wraps the handler.                                            *)

\* The context is context.Background(): only the goroutine's stack gives a parent.
processDeltas(fn) ==
    /\ linked = Others
    /\ frames = <<>> \/ (Top.fn = "processDeltasInBatch" /\ fn = "processDeltas")
    /\ IF "k8s" \in enabled THEN Enter(fn, NoParent, FALSE) ELSE Pass(fn, NoParent)
    /\ UNCHANGED header

EndProcessDeltas(r) ==
    /\ Top.fn \in Processing
    /\ r \in {"ok", "error"}
    /\ spans' = MarkThenEnd(Top.span, r = "error", r)
    /\ Pop

\* The n-th wrapper, counted from the outermost, has the span of the call that made
\* it, the innermost one first.
WrapperContext(n) ==
    LET wrappers == {i \in DOMAIN frames : frames[i].fn \in Processing}
    IN  frames[Cardinality(wrappers) + 1 - n].span

\* OnAdd, OnUpdate and OnDelete of a wrapper, which calls the next one.
OnEvent ==
    LET wrappers == {i \in DOMAIN frames : frames[i].fn \in Processing /\ frames[i].span # NoParent}
        n == 1 + Cardinality({i \in DOMAIN frames : frames[i].fn = "OnEvent"})
    IN  /\ n <= Cardinality(wrappers)
        /\ Bounded
        /\ calls' = calls + 1
        /\ spans' = Start(spans, WrapperContext(n), "OnEvent")
        /\ frames' = Append(frames, [fn |-> "OnEvent", span |-> Len(spans) + 1,
                                     ctx |-> Len(spans) + 1, quiet |-> FALSE,
                                     detached |-> n > 1])
        /\ UNCHANGED <<linked, enabled, header>>

EndOnEvent(r) ==
    /\ Top.fn = "OnEvent"
    /\ r = "ok"
    /\ spans' = MarkThenEnd(Top.span, FALSE, r)
    /\ Pop

-----------------------------------------------------------------------------
Next ==
    \/ AppStart
    \/ AppEnd
    \/ StartAPICall
    \/ DoRequest
    \/ PerformRequest
    \/ \E exporter \in BOOLEAN : RoundTrip(exporter)
    \/ Resend
    \/ ProcessHook
    \/ \E ctx \in {NoParent} \cup AppSpans, r \in Results : ObserveQuery(ctx, r)
    \/ \E fn \in Processing : processDeltas(fn)
    \/ OnEvent
    \/ \E r \in Results : \/ EndProcessHook(r)
                          \/ EndProcessDeltas(r)
                          \/ EndOnEvent(r)
                          \/ EndAPICall(r)
                          \/ EndDoRequest(r)
                          \/ EndPerformRequest(r)
                          \/ EndRoundTrip(r)

Spec == Init /\ [][Next]_vars

-----------------------------------------------------------------------------
(* Properties.                                                              *)

\* The span the call at depth k belongs under: that of the innermost
\* instrumented call around it, or else the application's.
EnclosingSpan(k) ==
    LET outer == {j \in 1..(k - 1) : frames[j].span # NoParent}
    IN  IF outer # {} THEN frames[CHOOSE j \in outer : \A i \in outer : i <= j].span
        ELSE IF AppSpans # {} THEN CHOOSE i \in AppSpans : TRUE
        ELSE NoParent

\* The span tree mirrors the call tree, whether or not the application passed
\* a context with its span and whichever plugins are enabled; the exceptions are
\* a request that is sent again and, in a batch, the second span of an event, which
\* is put beside the first one's parent.  A PerformRequest is one span, without an
\* HTTP span under it, and when the outermost call has returned, none of the spans is
\* left open to become the parent of what the goroutine does next.
TreeMirrorsCalls ==
    /\ \A k \in DOMAIN frames :
          (frames[k].span # NoParent /\ ~frames[k].detached) =>
              spans[frames[k].span].parent = EnclosingSpan(k)
    /\ \A i \in DOMAIN spans :
          LET p == spans[i].parent IN p # NoParent => spans[p].fn # "PerformRequest"
    /\ frames = <<>> => Live(spans) = AppSpans

\* A span is marked as failed exactly if its call failed; true of all hooks but
\* doRequest's.
FailureIsMarked ==
    \A i \in DOMAIN spans :
        (spans[i].fn \in Fns \ {"doRequest"} /\ spans[i].ended) =>
            (spans[i].error <=> spans[i].outcome \in {"status", "error"})

\* The comment on otelcLinodeFinishSpanWithError says that doRequest records
\* its error details on the span, as the public methods do.
DoRequestFailureIsMarked ==
    \A i \in DOMAIN spans :
        (spans[i].fn = "doRequest" /\ spans[i].ended /\ LinodeError(spans[i].outcome))
            => spans[i].error

=============================================================================
