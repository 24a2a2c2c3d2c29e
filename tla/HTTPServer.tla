----------------------------- MODULE HTTPServer -----------------------------
(***************************************************************************)
(* The net/http server hook (otelc/plugins/nethttp/http.go): ServeHTTP       *)
(* starts a span and wraps the ResponseWriter; the handler writes through    *)
(* the wrapper; a deferred function records the wrapper's status code and    *)
(* ends the span.  The requests of one keep-alive connection follow each     *)
(* other on one goroutine.                                                   *)
(*                                                                         *)
(* `inner' is the response the server sends.  `plain' is the response it     *)
(* would have sent if the handler had made the same calls on it directly.    *)
(***************************************************************************)
EXTENDS Integers, Sequences

CONSTANTS MaxOps,      \* bound: calls a handler makes
          MaxRequests  \* bound: requests on the connection

StatusOK == 200
Codes == {0, 101, 103, 200, 404, 500}

\* net/http accepts these; another code panics.
ValidCode(c) == c \in 100..999

\* Sent at once, and followed by a final status.
Informational(c) == c \in 100..199 \ {101}

VARIABLES
    pc,        \* "idle", "handler", "panicking", "returned", "closed"
    w,         \* the otelcWriterWrapper
    inner, plain,
    span,      \* the request's span
    ops,       \* calls the handler has made
    requests,  \* requests begun so far
    misled,    \* history: the wrapper took a call for the final header that
               \* was not: an informational or invalid code, an empty body
    flushed    \* history: Flush sent the header, which the wrapper does not see

historyVars == <<misled, flushed>>
vars == <<pc, w, inner, plain, span, ops, requests, historyVars>>

-----------------------------------------------------------------------------
(* net/http's response.                                                     *)

NewResponse == [info |-> <<>>, final |-> 0, body |-> FALSE, hijacked |-> FALSE,
                panicked |-> FALSE]

RespWriteHeader(r, c) ==
    IF r.hijacked \/ r.final # 0 THEN r
    ELSE IF ~ValidCode(c)        THEN [r EXCEPT !.panicked = TRUE]
    ELSE IF Informational(c)     THEN [r EXCEPT !.info = Append(@, c)]
    ELSE                              [r EXCEPT !.final = c]

RespFlush(r) == RespWriteHeader(r, StatusOK)

RespWrite(r) ==
    IF r.hijacked THEN r ELSE [RespWriteHeader(r, StatusOK) EXCEPT !.body = TRUE]

RespHijack(r) == [r EXCEPT !.hijacked = TRUE]

\* finishRequest writes the header if nobody has.
RespFinish(r) == RespWriteHeader(r, StatusOK)

-----------------------------------------------------------------------------
Init ==
    /\ pc = "idle"
    /\ w = [status |-> StatusOK, wrote |-> FALSE]
    /\ inner = NewResponse
    /\ plain = NewResponse
    /\ span = [ended |-> TRUE, status |-> 0, error |-> FALSE]
    /\ ops = 0
    /\ requests = 0
    /\ misled = FALSE
    /\ flushed = FALSE

\* ServeHTTP up to the original body.
ServeHTTP ==
    /\ pc = "idle"
    /\ requests < MaxRequests
    /\ requests' = requests + 1
    /\ w' = [status |-> StatusOK, wrote |-> FALSE]
    /\ inner' = NewResponse
    /\ plain' = NewResponse
    /\ span' = [ended |-> FALSE, status |-> 0, error |-> FALSE]
    /\ ops' = 0
    /\ misled' = FALSE
    /\ flushed' = FALSE
    /\ pc' = "handler"

HandlerCalls ==
    /\ pc = "handler"
    /\ ops < MaxOps
    /\ ops' = ops + 1
    /\ UNCHANGED <<span, requests>>

\* The call returns to the handler, or net/http panics in it.
Returns == pc' = IF inner'.panicked /\ ~inner.panicked THEN "panicking" ELSE pc

\* Mutant: the status of a later WriteHeader is recorded too.
WrapperWriteHeaderLast(c) ==
    /\ w' = [status |-> c, wrote |-> TRUE]
    /\ inner' = IF w.wrote THEN inner ELSE RespWriteHeader(inner, c)

\* otelcWriterWrapper.WriteHeader
WrapperWriteHeader(c) ==
    IF w.wrote
    THEN UNCHANGED <<w, inner>>
    ELSE /\ w' = [status |-> c, wrote |-> TRUE]
         /\ inner' = RespWriteHeader(inner, c)

WriteHeader(c) ==
    /\ HandlerCalls
    /\ WrapperWriteHeader(c)
    /\ plain' = RespWriteHeader(plain, c)
    /\ misled' = (misled \/ (~w.wrote /\ (Informational(c) \/ ~ValidCode(c))))
    /\ UNCHANGED flushed
    /\ Returns

\* The wrapper's header, written before its first byte of body.
WithHeader == IF w.wrote THEN inner ELSE RespWriteHeader(inner, StatusOK)

WroteOK == IF w.wrote THEN w ELSE [status |-> StatusOK, wrote |-> TRUE]

\* Write, WriteString, and ReadFrom a source that has data.
Write ==
    /\ HandlerCalls
    /\ w' = WroteOK
    /\ inner' = RespWrite(WithHeader)
    /\ plain' = RespWrite(plain)
    /\ UNCHANGED <<pc, historyVars>>

\* ReadFrom a source without data, from which net/http writes nothing.
ReadFromEmpty ==
    /\ HandlerCalls
    /\ w' = WroteOK
    /\ inner' = WithHeader
    /\ misled' = (misled \/ ~w.wrote)
    /\ UNCHANGED <<plain, pc, flushed>>

Flush ==
    /\ HandlerCalls
    /\ inner' = RespFlush(inner)
    /\ plain' = RespFlush(plain)
    /\ flushed' = (flushed \/ inner.final = 0)
    /\ UNCHANGED <<w, pc, misled>>

Hijack ==
    /\ HandlerCalls
    /\ ~inner.hijacked
    /\ inner' = RespHijack(inner)
    /\ plain' = RespHijack(plain)
    /\ UNCHANGED <<w, pc, historyVars>>

\* The handler panics; a middleware may recover and go on.
Panic ==
    /\ pc = "handler"
    /\ pc' = "panicking"
    /\ UNCHANGED <<w, inner, plain, span, ops, requests, historyVars>>

Recover ==
    /\ pc = "panicking"
    /\ pc' = "handler"
    /\ UNCHANGED <<w, inner, plain, span, ops, requests, historyVars>>

\* otelcHTTPServerStatus: the codes that make the span an error.
ServerStatusIsError(code) == code \notin 100..599 \/ code >= 500

\* The deferred function: the status is recorded and the span ended.
EndServerSpan ==
    span' = [ended |-> TRUE, status |-> w.status, error |-> ServerStatusIsError(w.status)]

\* The handler returns; the server finishes the response.
Return ==
    /\ pc = "handler"
    /\ EndServerSpan
    /\ inner' = IF inner.hijacked THEN inner ELSE RespFinish(inner)
    /\ plain' = IF plain.hijacked THEN plain ELSE RespFinish(plain)
    /\ pc' = "returned"
    /\ UNCHANGED <<w, ops, requests, historyVars>>

\* Mutant: the span is ended after the body instead of in a deferred function.
EscapeNoDefer ==
    /\ pc = "panicking"
    /\ pc' = "closed"
    /\ UNCHANGED <<w, inner, plain, span, ops, requests, historyVars>>

\* The panic leaves ServeHTTP, past the deferred function; the server closes
\* the connection without finishing the response.
Escape ==
    /\ pc = "panicking"
    /\ EndServerSpan
    /\ pc' = "closed"
    /\ UNCHANGED <<w, inner, plain, ops, requests, historyVars>>

\* The connection goes on with the next request, unless it was hijacked.
NextRequest ==
    /\ pc = "returned"
    /\ pc' = IF inner.hijacked THEN "closed" ELSE "idle"
    /\ UNCHANGED <<w, inner, plain, span, ops, requests, historyVars>>

Next ==
    \/ ServeHTTP
    \/ \E c \in Codes : WriteHeader(c)
    \/ Write
    \/ ReadFromEmpty
    \/ Flush
    \/ Hijack
    \/ Panic
    \/ Recover
    \/ Return
    \/ Escape
    \/ NextRequest

Spec == Init /\ [][Next]_vars

-----------------------------------------------------------------------------
(* Properties.                                                              *)

Finished == pc = "returned" /\ ~inner.hijacked

\* The status recorded on the server span is the one the client was sent, and
\* the span is an error if the client was sent one of the server's, unless the
\* wrapper was misled or the handler flushed before its header.
RecordedIsSentUnlessMisled ==
    (Finished /\ ~misled /\ ~flushed) =>
        /\ span.status = inner.final
        /\ span.error <=> inner.final >= 500

\* The client gets what it would have got without the wrapper, whatever the
\* handler calls in whatever order, unless the wrapper was misled.
TransparentUnlessMisled == misled \/ inner = plain

\* Both: the wrapper neither misreports nor changes the response.
WrapperIsFaithfulUnlessMisled == RecordedIsSentUnlessMisled /\ TransparentUnlessMisled

\* Whichever way the handler leaves, the span of the request is ended before
\* the connection's goroutine goes on, so that it cannot become the parent of
\* the next request.
SpanEndedBetweenRequests ==
    pc \in {"idle", "returned", "closed"} => span.ended

=============================================================================
