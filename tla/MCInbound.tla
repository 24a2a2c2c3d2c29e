------------------------------ MODULE MCInbound ------------------------------
(* Instances of the hooks on incoming requests, HTTPServer and GinNext, and  *)
(* of the gate every hook passes first, HookGate.  gin runs inside a handler *)
(* of net/http but uses neither its wrapper nor its state, and the gate is a *)
(* function of the environment, so a behaviour is one of a single module;    *)
(* Init chooses which.                                                       *)
EXTENDS HookGate, TLC

CONSTANTS MaxOps, MaxRequests, MaxDepth, MaxErrors, MaxSpans

ASSUME ErrorBound == MaxErrors \in Nat

VARIABLES hooks,                                        \* this behaviour's module
          at, w, inner, plain, span, ops, requests, misled, flushed, \* HTTPServer
          stack, depth, routeSet, route, errors, made, ctx, spans, finished,
          rerouted                                                   \* GinNext

serverVars == <<at, w, inner, plain, span, ops, requests, misled, flushed>>
ginVars == <<stack, depth, routeSet, route, errors, made, ctx, spans, finished, rerouted>>

Server == INSTANCE HTTPServer WITH pc <- at
Gin == INSTANCE GinNext

InboundInit ==
    /\ hooks \in {"gate", "http", "gin"}
    /\ Init /\ (hooks # "gate" =>
                    env = [sdkDisabled |-> FALSE, enabled |-> "empty", disabled |-> "empty"])
    /\ Server!Init
    /\ Gin!Init /\ (hooks # "gin" => route = Gin!NoRoute /\ spans[Gin!Server].sampled)

InboundNext ==
    \/ hooks = "gate" /\ Next /\ UNCHANGED <<hooks, serverVars, ginVars>>
    \/ hooks = "http" /\ Server!Next /\ UNCHANGED <<hooks, vars, ginVars>>
    \/ hooks = "gin" /\ Gin!Next /\ UNCHANGED <<hooks, vars, serverVars>>

InboundSpec == InboundInit /\ [][InboundNext]_<<hooks, vars, serverVars, ginVars>>

\* Goroutines differ in nothing but their names.
GoroutinesAlike == Permutations(Goroutines)

\* Unless the wrapper was misled, the status on the server span is the one the
\* client was sent, and the client gets what it would have got without the
\* wrapper: otelcWriterWrapper.
WrapperIsFaithfulUnlessMisled == Server!WrapperIsFaithfulUnlessMisled

\* The request's span is ended before the connection's goroutine goes on: the
\* deferred function of the ServeHTTP hook.
SpanEndedBetweenRequests == Server!SpanEndedBetweenRequests

\* The server span has each error of the gin.Context once, and none is lost when
\* HandleContext resets the depth: the deferred function of the Next hook.
ErrorsReachServerSpan == Gin!ErrorsReachServerSpan

\* A recording span gets the route: the gate of the Next hook.
RouteReachesRecordingSpan == Gin!RouteReachesRecordingSpan

=============================================================================
