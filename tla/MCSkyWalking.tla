---------------------------- MODULE MCSkyWalking -----------------------------
(* Instances of the SkyWalking hooks on calls, streams, databases and         *)
(* connections, and of its meters.  They share nothing but the tracing        *)
(* context of their goroutines, so a behaviour is one of a single module;     *)
(* Init chooses which.                                                       *)
EXTENDS SWMetrics

CONSTANTS Goroutines, MaxSpans,
          MaxRequests, MaxFrames,
          MaxStreams, MaxStreamSpans, MaxSocketSpans,
          Databases, MaxHandles, MaxOpens,
          Opts, MaxClients, MaxCommands

VARIABLES hooks,  \* the module this behaviour is about
          swCalls, frames, panicking, req, spanOf, skipped,
          swStreams, streams, call, fin,
          swSql, runtime, opens, opened, handles, last, nested, raw,
          swMongo, opt, clients, commands, syncMap,
          swSocket, SwInjectData, datas, pc, finishes, used, crashed

callVars == <<swCalls, frames, panicking, req, spanOf, skipped>>
streamVars == <<swStreams, streams, call, fin>>
sqlVars == <<swSql, runtime, opens, opened, handles, last, nested, raw>>
mongoVars == <<swMongo, opt, clients, commands, syncMap>>
socketVars == <<swSocket, SwInjectData, datas, pc, finishes, used, crashed>>

Calls == INSTANCE SWCalls WITH sw <- swCalls
Streams == INSTANCE SWGRPCStream WITH sw <- swStreams, MaxSpans <- MaxStreamSpans
Sql == INSTANCE SWSql WITH sw <- swSql
Mongo == INSTANCE SWMongo WITH sw <- swMongo
Socket == INSTANCE SWSocket WITH sw <- swSocket, MaxSpans <- MaxSocketSpans

\* A stream's watcher is none of the application's goroutines.
ASSUME WatchersAssumption ==
    MaxStreams \in Nat /\ \A s \in 1..MaxStreams : Streams!Watcher(s) \notin Goroutines

SkyWalkingInit ==
    /\ hooks \in {"metrics", "calls", "streams", "sql", "mongo", "socket"}
    /\ Init /\ (hooks # "metrics" => layout = "fromZero")
    /\ Calls!Init
    /\ Streams!Init
    /\ Sql!Init
    /\ Mongo!Init /\ (hooks # "mongo" => \A o \in Opts : ~opt[o].hosts /\ ~opt[o].monitor.user)
    /\ Socket!Init

SkyWalkingNext ==
    \/ /\ hooks = "metrics" /\ Next
       /\ UNCHANGED <<hooks, callVars, streamVars, sqlVars, mongoVars, socketVars>>
    \/ /\ hooks = "calls" /\ Calls!Next
       /\ UNCHANGED <<hooks, vars, streamVars, sqlVars, mongoVars, socketVars>>
    \/ /\ hooks = "streams" /\ Streams!Next
       /\ UNCHANGED <<hooks, vars, callVars, sqlVars, mongoVars, socketVars>>
    \/ /\ hooks = "sql" /\ Sql!Next
       /\ UNCHANGED <<hooks, vars, callVars, streamVars, mongoVars, socketVars>>
    \/ /\ hooks = "mongo" /\ Mongo!Next
       /\ UNCHANGED <<hooks, vars, callVars, streamVars, sqlVars, socketVars>>
    \/ /\ hooks = "socket" /\ Socket!Next
       /\ UNCHANGED <<hooks, vars, callVars, streamVars, sqlVars, mongoVars>>

SkyWalkingSpec ==
    SkyWalkingInit
        /\ [][SkyWalkingNext]_<<hooks, vars, callVars, streamVars, sqlVars, mongoVars, socketVars>>

\* A span ends with the last call that shares it, and with the request: the hooks on
\* servers and clients, CreateEntrySpan and CreateExitSpan.
SpansEndWithTheirCalls == Calls!SpansEndWithTheirCalls

\* The status tag of a request's span is what the client was sent: the status each
\* server hook takes.
StatusIsSent == Calls!StatusIsSent

\* The exit span of a gRPC stream is reported when the stream is over: finish and
\* the flag RecvMsg arms it with.
StreamIsReportedWhenOver == Streams!StreamIsReportedWhenOver

\* The span of a statement names its database: Open, ParseDSN and the handles.
StatementNamesItsDatabase == Sql!StatementNamesItsDatabase

\* A span that one goroutine makes and another finishes is finished with the command
\* or the connection it is for, once: mongo's monitor, Accept and Close.
AsyncSpansMatchTheirOwners == Mongo!SpansMatchCommands /\ Socket!FinishedOnce

=============================================================================
