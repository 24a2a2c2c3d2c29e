------------------------------- MODULE SWCalls -------------------------------
(***************************************************************************)
(* The SkyWalking hooks that put a span around one synchronous call, on a    *)
(* goroutine that serves requests one after the other.  The hooks nest: a    *)
(* router inside net/http inside gRPC, a driver on top of an HTTP client.    *)
(* They differ in how they end the span, in what they do when no span could  *)
(* be made, and in where they take the status of a response from.            *)
(***************************************************************************)
EXTENDS SWContext

CONSTANTS MaxRequests, \* bound: requests the goroutine serves
          MaxFrames,   \* bound: nesting
          MaxSpans     \* bound: spans of a behaviour

G == {"g"}
Codes == {200, 500}
OK == 200

\* A hook: the span it makes; whether End is deferred or only reached when the
\* call returns; whether the call is made without a span; the status it tags.
Hook(kind, end, unspanned, status) ==
    [kind |-> kind, end |-> end, unspanned |-> unspanned, status |-> status]

\* Frames of the application: code that recovers from a panic.
Recovering == Hook("none", "deferred", TRUE, "none")

-----------------------------------------------------------------------------
(* Servers.  Status "last": a wrapper keeps the last WriteHeader; "sent":    *)
(* the framework's own record; "first200": a wrapper that nothing updates.   *)

ServeMux_ServeHTTP == Hook("entry", "deferred", TRUE, "last")

gorilla_Router_ServeHTTP == Hook("entry", "deferred", TRUE, "last")

goframe_Server_ServeHTTP == Hook("entry", "deferred", TRUE, "first200")

\* Mutant: End is not deferred.
gin_Context_NextPlain == Hook("entry", "plain", TRUE, "sent")

gin_Context_Next == Hook("entry", "deferred", TRUE, "sent")

iris_HandleRequest == Hook("entry", "deferred", TRUE, "sent")

restful_swFilterInstance == Hook("entry", "deferred", TRUE, "sent")

fiber_App_handler == Hook("entry", "deferred", TRUE, "sent")

fasthttp_Router_Handler == Hook("entry", "deferred", TRUE, "sent")

\* End is a plain statement after next(c); an error of CreateEntrySpan is
\* returned instead of serving the request.
swEchoMiddleware == Hook("entry", "plain", FALSE, "sent")

grpc_handleStream == Hook("entry", "deferred", TRUE, "none")

kratos_swHTTPServerMiddleware == Hook("entry", "deferred", TRUE, "none")

kratos_swGRPCServerMiddleware == Hook("entry", "deferred", TRUE, "none")

dubbo_provider_Invoke == Hook("entry", "deferred", TRUE, "none")

-----------------------------------------------------------------------------
(* Clients.                                                                 *)

Transport_RoundTrip == Hook("exit", "deferred", TRUE, "none")

fasthttp_HostClient_Do == Hook("exit", "deferred", TRUE, "none")

elasticsearch_Perform == Hook("exit", "deferred", TRUE, "none")

dubbo_consumer_Invoke == Hook("exit", "deferred", TRUE, "none")

grpc_Invoke == Hook("exit", "deferred", TRUE, "none")

kratos_swHTTPClientMiddleware == Hook("exit", "deferred", TRUE, "none")

kratos_swGRPCClientMiddleware == Hook("exit", "deferred", TRUE, "none")

kafka_WriteMessages == Hook("exit", "deferred", TRUE, "none")

amqp_Publish == Hook("exit", "deferred", TRUE, "none")

\* One callback before gorm's statement and one after it, on the same Statement;
\* between them nothing is deferred.
gorm_swCallbacks == Hook("exit", "plain", TRUE, "none")

\* These give up the call itself when the exit span cannot be made.
redis_DialHook == Hook("exit", "deferred", FALSE, "none")

redis_ProcessHook == Hook("exit", "deferred", FALSE, "none")

redis_ProcessPipelineHook == Hook("exit", "deferred", FALSE, "none")

micro_Call == Hook("exit", "deferred", FALSE, "none")

micro_Stream == Hook("exit", "deferred", FALSE, "none")

micro_Publish == Hook("exit", "deferred", FALSE, "none")

\* Local spans, which can always be made.
grpc_serverStream_SendMsg == Hook("local", "deferred", TRUE, "none")

grpc_serverStream_RecvMsg == Hook("local", "deferred", TRUE, "none")

Servers ==
    {ServeMux_ServeHTTP, gorilla_Router_ServeHTTP, goframe_Server_ServeHTTP,
     gin_Context_Next, iris_HandleRequest, restful_swFilterInstance, fiber_App_handler,
     fasthttp_Router_Handler, swEchoMiddleware, grpc_handleStream,
     kratos_swHTTPServerMiddleware, kratos_swGRPCServerMiddleware, dubbo_provider_Invoke}

Clients ==
    {Transport_RoundTrip, fasthttp_HostClient_Do, elasticsearch_Perform,
     dubbo_consumer_Invoke, grpc_Invoke, kratos_swHTTPClientMiddleware,
     kratos_swGRPCClientMiddleware, kafka_WriteMessages, amqp_Publish, gorm_swCallbacks,
     redis_DialHook, redis_ProcessHook, redis_ProcessPipelineHook, micro_Call, micro_Stream, micro_Publish}

\* The hooks known to lose their End to a panic.
EndsUndeferred == {swEchoMiddleware, gorm_swCallbacks}

Locals == {grpc_serverStream_SendMsg, grpc_serverStream_RecvMsg}

-----------------------------------------------------------------------------
VARIABLES sw,        \* the tracing context
          frames,    \* the calls in progress, outermost first
          panicking,
          req,       \* the request being served, or the last one: the status sent,
                     \* the tag of its span, whether a tag may be wrong (history)
          spanOf,    \* history: for each span, the request it was made for
          skipped    \* history: a panic went past an End of EndsUndeferred

vars == <<sw, frames, panicking, req, spanOf, skipped>>

Init ==
    /\ sw = Empty(G)
    /\ frames = <<>>
    /\ panicking = FALSE
    /\ req = [n |-> 0, sent |-> 0, tag |-> 0, misled |-> FALSE, inward |-> TRUE]
    /\ spanOf = <<>>
    /\ skipped = FALSE

Push(h, span) == frames' = Append(frames, [hook |-> h, span |-> span, recorded |-> OK])

Spanned(h, n) ==
    /\ Len(frames) < MaxFrames
    /\ Len(sw.log) < MaxSpans
    /\ sw' = Create(sw, "g", h.kind, "call")
    /\ Push(h, ActiveSpan(sw', "g"))
    /\ spanOf' = IF Len(sw'.log) > Len(sw.log) THEN Append(spanOf, n) ELSE spanOf

\* A request arrives; the outermost server hook has a span, or goes on without.
Arrive(h) ==
    /\ frames = <<>> /\ ~panicking
    /\ req.n < MaxRequests
    /\ req' = [n |-> req.n + 1, sent |-> 0, tag |-> 0, misled |-> FALSE, inward |-> TRUE]
    /\ \/ h # Recovering /\ Spanned(h, req.n + 1)
       \/ h = Recovering /\ Push(h, 0) /\ UNCHANGED <<sw, spanOf>>
    /\ UNCHANGED <<panicking, skipped>>

\* A nested call of a hooked function.  A layer of servers calls the next one
\* once.
Enter(h) ==
    /\ frames # <<>> /\ ~panicking
    /\ h.kind = "entry" => req.inward
    /\ Spanned(h, req.n)
    /\ UNCHANGED <<panicking, req, skipped>>

\* No span: a broken header for an entry span, no peer for an exit span.
EnterUnspanned(h) ==
    /\ frames # <<>> /\ ~panicking /\ Len(frames) < MaxFrames
    /\ h.kind # "local" /\ h.unspanned
    /\ h.kind = "entry" => req.inward
    /\ Push(h, 0)
    /\ UNCHANGED <<sw, panicking, req, spanOf, skipped>>

\* ReadMessage of kafka and Receive of pulsar: the span is made and ended in the
\* deferred function, when the message is there.
ReadMessage ==
    /\ frames # <<>> /\ ~panicking /\ Len(sw.log) < MaxSpans
    /\ LET t == Create(sw, "g", "entry", "read")
       IN  /\ sw' = EndSpan(t, "g", ActiveSpan(t, "g"))
           /\ spanOf' = IF Len(t.log) > Len(sw.log) THEN Append(spanOf, req.n) ELSE spanOf
    /\ UNCHANGED <<frames, panicking, req, skipped>>

\* Spans the frames in progress will still end.
Owned == {frames[i].span : i \in DOMAIN frames} \ {0}

\* Frames that will tag a status.
Watching == {i \in DOMAIN frames : frames[i].span # 0 /\ frames[i].hook.status # "none"}

\* The handler writes a status: every wrapper on the way out keeps it, the
\* server sends the first.
WriteHeader(code) ==
    /\ frames # <<>> /\ ~panicking
    /\ frames' = [i \in DOMAIN frames |->
                     IF frames[i].hook.status = "last" THEN [frames[i] EXCEPT !.recorded = code]
                     ELSE frames[i]]
    /\ req' = [req EXCEPT !.sent = IF @ = 0 THEN code ELSE @,
                          !.misled = @ \/ req.sent \notin {0, code} \/ Watching = {}]
    /\ UNCHANGED <<sw, panicking, spanOf, skipped>>

Sent == IF req.sent = 0 THEN OK ELSE req.sent

\* Frame f tags a status, on a span that is the request's own.
TagsRequest(f) ==
    f.span # 0 /\ f.hook.status # "none" /\ sw.log[f.span].parent = NoSpan

\* Mutant: the status is an argument of the deferred call, evaluated before next.
TagEarly(f) ==
    IF ~TagsRequest(f) THEN req.tag
    ELSE IF f.hook.status = "sent" THEN Sent ELSE OK

\* Span.Tag(TagStatusCode) of frame f.
Tag(f) ==
    IF ~TagsRequest(f) THEN req.tag
    ELSE IF f.hook.status = "sent" THEN Sent ELSE f.recorded

\* The epilogue of the innermost hook: tag and End.
Ended(f) ==
    /\ sw' = IF f.span = 0 THEN sw ELSE EndSpan(sw, "g", f.span)
    /\ req' = [req EXCEPT !.tag = Tag(f),
                          !.inward = @ /\ f.hook.kind # "entry",
                          !.misled = @ \/ f.hook.status = "first200"]

Leave ==
    /\ frames # <<>> /\ ~panicking
    /\ Ended(frames[Len(frames)])
    /\ frames' = SubSeq(frames, 1, Len(frames) - 1)
    /\ UNCHANGED <<panicking, spanOf, skipped>>

Panic ==
    /\ frames # <<>> /\ ~panicking
    /\ panicking' = TRUE
    /\ req' = [req EXCEPT !.misled = TRUE]
    /\ UNCHANGED <<sw, frames, spanOf, skipped>>

\* The panic leaves the innermost frame: its deferred function runs.  At the
\* bottom net/http recovers; a new connection has a goroutine of its own.
Unwind ==
    /\ panicking
    /\ LET f == frames[Len(frames)]
       IN  /\ IF f.hook.end = "deferred" THEN Ended(f) ELSE UNCHANGED <<sw, req>>
           /\ skipped' = (skipped \/ (f.hook \in EndsUndeferred /\ f.span # 0))
           /\ panicking' = (f.hook # Recovering /\ Len(frames) > 1)
    /\ frames' = SubSeq(frames, 1, Len(frames) - 1)
    /\ UNCHANGED spanOf

Next ==
    \/ \E h \in Servers \cup {Recovering} : Arrive(h)
    \/ \E h \in Servers \cup Clients \cup Locals : Enter(h) \/ EnterUnspanned(h)
    \/ ReadMessage
    \/ \E code \in Codes : WriteHeader(code)
    \/ Leave
    \/ Panic
    \/ Unwind

Spec == Init /\ [][Next]_vars

-----------------------------------------------------------------------------
(* Properties.                                                              *)

\* However hooks nest, share a span by the reuse rule, or are left by a panic,
\* a span ends with the last call that shares it: it is open as long as one of
\* these calls runs, then it is reported, and the goroutine is left without a
\* span that the next request would be taken into.  Only a panic through echo's
\* middleware or gorm's callbacks, whose End is not deferred, leaves one open.
SpansEndWithTheirCalls ==
    ~skipped =>
        /\ \A i \in DOMAIN sw.log : i \in Owned <=> ~Reported(sw, i)
        /\ frames = <<>> => ActiveSpan(sw, "g") = 0
        /\ \A i \in Owned : spanOf[i] = req.n

\* The status tag of a request's span is the status the client was sent, however
\* many layers wrote to the tag.  Not so when the handler wrote two (a wrapper
\* keeps the last), when one was written outside the span or after a panic, or
\* when goframe's wrapper, which nothing updates, took part.
StatusIsSent ==
    (frames = <<>> /\ ~req.misled) => req.tag \in {0, Sent}

=============================================================================
