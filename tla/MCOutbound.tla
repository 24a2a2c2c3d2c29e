------------------------------ MODULE MCOutbound ------------------------------
(* Instances of the hooks on outgoing calls: ClientCalls, GRPCStats, DBSql,  *)
(* and the two halves of the GenAI middlewares: GenAIStream, which follows   *)
(* spans and metrics, and ContentCapture, which follows the text.  They      *)
(* share no state but the GLS stack of their goroutine, so a behaviour is    *)
(* one of a single module; Init chooses which.                               *)
EXTENDS ContentCapture, TLC

CONSTANTS MaxLog, MaxRPCs, MaxMessages, Databases, Queries, MaxHandles, MaxLines

ASSUME LinesAssumption == MaxLines \in Nat

VARIABLES hooks,                                          \* this behaviour's module
          linked, enabled, spans, frames, header, calls,  \* ClientCalls
          rpcSpans, rpcs,                                 \* GRPCStats
          sqlEnabled, handles, span,                      \* DBSql
          sdk, call, aiSpan, durations, body, newlineAtEnd, pos, parsed, parser, rd,
          cl, done, raced, why                            \* GenAIStream

clientVars == <<linked, enabled, spans, frames, header, calls>>
rpcVars == <<rpcSpans, rpcs>>
sqlVars == <<sqlEnabled, handles, span>>
readerVars == <<sdk, call, aiSpan, durations, body, newlineAtEnd, pos, parsed, parser, rd,
                cl, done, raced, why>>

Client == INSTANCE ClientCalls
GRPC == INSTANCE GRPCStats WITH spans <- rpcSpans
SQL == INSTANCE DBSql WITH enabled <- sqlEnabled
Stream == INSTANCE GenAIStream WITH span <- aiSpan, fed <- parsed

OutboundInit ==
    /\ hooks \in {"client", "grpc", "sql", "stream", "capture"}
    /\ Client!Init /\ (hooks # "client" => linked = Client!HTTP /\ enabled = linked)
    /\ GRPC!Init
    /\ SQL!Init /\ (hooks # "sql" => sqlEnabled)
    /\ Stream!Init /\ (hooks # "stream" => sdk = "openai")
    /\ Init /\ (hooks # "capture" => limit = ContentCaptureLimit)

OutboundNext ==
    \/ hooks = "client" /\ Client!Next /\ UNCHANGED <<hooks, rpcVars, sqlVars, readerVars, vars>>
    \/ hooks = "grpc" /\ GRPC!Next /\ UNCHANGED <<hooks, clientVars, sqlVars, readerVars, vars>>
    \/ hooks = "sql" /\ SQL!Next /\ UNCHANGED <<hooks, clientVars, rpcVars, readerVars, vars>>
    \/ hooks = "stream" /\ Stream!Next /\ UNCHANGED <<hooks, clientVars, rpcVars, sqlVars, vars>>
    \/ hooks = "capture" /\ Next /\ UNCHANGED <<hooks, clientVars, rpcVars, sqlVars, readerVars>>

OutboundSpec ==
    OutboundInit /\ [][OutboundNext]_<<hooks, clientVars, rpcVars, sqlVars, readerVars, vars>>

\* Databases are interchangeable.
DatabasesAlike == Permutations(Databases)

\* Spans nest as the instrumented calls do: linodego, elastic, net/http, redis,
\* gocql and the Kubernetes informers.
TreeMirrorsCalls == Client!TreeMirrorsCalls

\* The span of a failed call is marked, and only that one.
FailureIsMarked == Client!FailureIsMarked

\* The span of an RPC is live as long as the RPC, and the message counts on it
\* are the RPC's own: TagRPC and HandleRPC.
SpanLivesWithItsRPC == GRPC!SpanLivesWithItsRPC

\* A statement's span names the database of its handle and shows the text that
\* ran: the database/sql hooks.
SpanDescribesItsStatement == SQL!SpanDescribesItsStatement

\* The span of a stream that is over has ended once, and the duration metric is
\* recorded exactly when it does: Read, Close and finalize.
DurationMirrorsSpan == Stream!DurationMirrorsSpan

\* The span tells how the stream ended and what it carried: processSSELines.
StreamSpanIsTrue == Stream!StreamSpanIsTrue

=============================================================================
