------------------------------- MODULE GinNext -------------------------------
(***************************************************************************)
(* The gin hook on Context.Next (otelc/plugins/gin/gin.go) during one        *)
(* request.  Next nests: the engine calls it once, middlewares call it       *)
(* again.  Two keys of the gin.Context tell the hook how deep it is and      *)
(* whether the route has been put on the span.  A middleware may start a     *)
(* span of its own and replace the request's context; a handler may dispatch *)
(* the request again with Engine.HandleContext, which resets the Context.    *)
(***************************************************************************)
EXTENDS Integers, Sequences, Functions

CONSTANTS MaxDepth,  \* bound: nested calls
          MaxErrors, \* bound: c.Error calls
          MaxSpans   \* bound: spans of the request

NoKey == -100      \* the depth key is not there
NoRoute == "none"  \* FullPath() is empty
Routes == {"/a", "/b", NoRoute}
Server == 1        \* the net/http server span
None == 0          \* no span

VARIABLES
    stack,    \* calls under way, outermost first, each with the span in the
              \* request's context when it began: "next", "handle" for
              \* HandleContext, or "span" for a middleware and the span it started
    depth,    \* otelcGinNextDepthKey
    routeSet, \* otelcGinRouteSetKey
    route,    \* c.FullPath()
    errors,   \* c.Errors
    made,     \* c.Error calls so far
    ctx,      \* the span in c.Request.Context()
    spans,    \* the server span and the middlewares'
    finished, \* the engine's Next has returned
    rerouted  \* history: HandleContext has been called

vars == <<stack, depth, routeSet, route, errors, made, ctx, spans, finished, rerouted>>

NewSpan(sampled) == [sampled |-> sampled, ended |-> FALSE, name |-> NoRoute,
                     recorded |-> [e \in 1..MaxErrors |-> 0]]

IsRecording(s) == spans[s].sampled /\ ~spans[s].ended

Init ==
    /\ stack = <<>>
    /\ depth = NoKey
    /\ routeSet = FALSE
    /\ route \in Routes
    /\ errors = <<>>
    /\ made = 0
    /\ ctx = Server
    /\ spans \in {<<NewSpan(sampled)>> : sampled \in BOOLEAN}
    /\ finished = FALSE
    /\ rerouted = FALSE

Call(kind, started) == [kind |-> kind, ctx |-> ctx, span |-> started]
Push(kind, started) ==
    Len(stack) < MaxDepth /\ stack' = Append(stack, Call(kind, started))
Top == stack[Len(stack)]
Pop == stack' = SubSeq(stack, 1, Len(stack) - 1)

-----------------------------------------------------------------------------
(* The hook.                                                                *)

Deeper(d) == IF d = NoKey THEN 1 ELSE d + 1

\* Mutant: the gate is set before the span is known to be recording.
SetRouteBurnsGate(r, gate) ==
    /\ routeSet' = (gate \/ r # NoRoute)
    /\ spans' = IF r # NoRoute /\ ~gate /\ IsRecording(ctx)
                THEN [spans EXCEPT ![ctx].name = r] ELSE spans

\* The route is put on the request's span, once.
SetRoute(r, gate) ==
    IF r # NoRoute /\ ~gate /\ IsRecording(ctx)
    THEN /\ routeSet' = TRUE
         /\ spans' = [spans EXCEPT ![ctx].name = r]
    ELSE /\ routeSet' = gate
         /\ UNCHANGED spans

\* Next, up to the handlers.
Next_ ==
    /\ ~finished
    /\ (stack # <<>>) => (Top.kind # "handle")
    /\ Push("next", None)
    /\ depth' = Deeper(depth)
    /\ SetRoute(route, routeSet)
    /\ UNCHANGED <<route, errors, made, ctx, finished, rerouted>>

\* RecordError for each error of the Context; "many" stands for every count
\* above one.
Many == 2
Recorded(counts) ==
    [e \in DOMAIN counts |->
        IF e \in Range(errors) /\ counts[e] < Many THEN counts[e] + 1 ELSE counts[e]]

\* Mutant: errors are recorded at every level.
RecordErrorsAlways(d) ==
    IF Len(errors) > 0 /\ IsRecording(ctx)
    THEN [spans EXCEPT ![ctx].recorded = Recorded(@)] ELSE spans

\* At depth d: only the outermost level records the errors.
RecordErrors(d) ==
    IF d <= 0 /\ Len(errors) > 0 /\ IsRecording(ctx)
    THEN [spans EXCEPT ![ctx].recorded = Recorded(@)] ELSE spans

\* The deferred function of Next.
NextReturns ==
    /\ stack # <<>>
    /\ Top.kind = "next"
    /\ depth' = (IF depth = NoKey THEN 0 ELSE depth) - 1
    /\ spans' = RecordErrors(depth')
    /\ Pop
    /\ finished' = (Len(stack) = 1)
    /\ UNCHANGED <<routeSet, route, errors, made, ctx, rerouted>>

-----------------------------------------------------------------------------
(* Handlers and middlewares, all inside the engine's Next.                  *)

InHandler == stack # <<>> /\ Top.kind # "handle"

AddError ==
    /\ InHandler
    /\ made < MaxErrors
    /\ made' = made + 1
    /\ errors' = Append(errors, made + 1)
    /\ UNCHANGED <<stack, depth, routeSet, route, ctx, spans, finished, rerouted>>

\* A middleware starts a span and gives the request a context with it.
StartSpan(sampled) ==
    /\ InHandler
    /\ Len(spans) < MaxSpans
    /\ Push("span", Len(spans) + 1)
    /\ spans' = Append(spans, NewSpan(sampled))
    /\ ctx' = Len(spans) + 1
    /\ UNCHANGED <<depth, routeSet, route, errors, made, finished, rerouted>>

\* It ends its span, and puts the request's context back or not.
EndSpan(restores) ==
    /\ stack # <<>>
    /\ Top.kind = "span"
    /\ spans' = [spans EXCEPT ![Top.span].ended = TRUE]
    /\ ctx' = IF restores THEN Top.ctx ELSE ctx
    /\ Pop
    /\ UNCHANGED <<depth, routeSet, route, errors, made, finished, rerouted>>

\* Engine.HandleContext: the Context's keys and errors are reset and the
\* request is dispatched again, to the route r.
HandleContext(r) ==
    /\ InHandler
    /\ Len(stack) + 1 < MaxDepth
    /\ stack' = stack \o <<Call("handle", None), Call("next", None)>>
    /\ errors' = <<>>
    /\ route' = r
    /\ depth' = Deeper(NoKey)
    /\ SetRoute(r, FALSE)
    /\ rerouted' = TRUE
    /\ UNCHANGED <<made, ctx, finished>>

HandleContextReturns ==
    /\ stack # <<>>
    /\ Top.kind = "handle"
    /\ Pop
    /\ UNCHANGED <<depth, routeSet, route, errors, made, ctx, spans, finished, rerouted>>

Next ==
    \/ Next_
    \/ NextReturns
    \/ AddError
    \/ \E sampled \in BOOLEAN : StartSpan(sampled)
    \/ \E restores \in BOOLEAN : EndSpan(restores)
    \/ \E r \in Routes : HandleContext(r)
    \/ HandleContextReturns

Spec == Init /\ [][Next]_vars

-----------------------------------------------------------------------------
(* Properties.                                                              *)

\* The chain has unwound, and the request has the server's context again.
Unwound == finished /\ ctx = Server /\ spans[Server].sampled

\* "enriches the net/http server span ... and records accumulated c.Error()
\* values when the middleware chain unwinds": however deep Next nests, the
\* server span of a finished request has each error exactly once, if the request
\* has the server's context again by then and was not dispatched twice.
EachErrorOnce ==
    (Unwound /\ ~rerouted) => \A e \in 1..made : spans[Server].recorded[e] = 1

\* HandleContext resets the depth key under the calls of Next still running,
\* which then count from zero down: the errors the Context holds at the end
\* reach the server span all the same, some of them twice.
NoErrorIsLost ==
    Unwound => \A i \in DOMAIN errors : spans[Server].recorded[errors[i]] >= 1

\* Both: the deferred function of the Next hook.
ErrorsReachServerSpan == EachErrorOnce /\ NoErrorIsLost

NextIsCalled == Len(stack') > Len(stack) /\ stack'[Len(stack')].kind = "next"

\* "a non-recording first call would burn the gate and block a later recording
\* span on the same request from being enriched": once Next has been called
\* with a recording span, some span of the request has the current route.
RouteReachesRecordingSpan ==
    [][NextIsCalled /\ IsRecording(ctx) /\ route' # NoRoute
        => \E s \in DOMAIN spans' : spans'[s].name = route']_vars

=============================================================================
