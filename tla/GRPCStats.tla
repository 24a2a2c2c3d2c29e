------------------------------ MODULE GRPCStats ------------------------------
(***************************************************************************)
(* The gRPC stats handlers (otelc/plugins/grpc/grpc.go) on one server worker *)
(* goroutine.  It serves RPCs one after the other; while it does, it calls   *)
(* other services with the context of the RPC or with none.  grpc calls      *)
(* TagRPC once per RPC and hands the context it returns to HandleRPC with    *)
(* every event of that RPC, from the goroutines that send and receive.       *)
(***************************************************************************)
EXTENDS SDKSpans

CONSTANTS MaxRPCs,    \* bound: RPCs of a behaviour
          MaxMessages \* bound: messages of an RPC in each direction

NoRPC == 0

\* What the metadata of an incoming RPC carries.
Incoming == {"nothing", "sampled", "unsampled"}

VARIABLES spans, \* the goroutine's spans, with the RPC they were started for
          rpcs   \* all RPCs so far

vars == <<spans, rpcs>>

Init ==
    /\ spans = <<>>
    /\ rpcs = <<>>

Active(side) == {i \in DOMAIN rpcs : rpcs[i].side = side /\ ~rpcs[i].done}

\* ParentBased(AlwaysSample)
Sampled(parent, incoming) ==
    IF incoming # "nothing" THEN incoming = "sampled"
    ELSE parent # NoParent => spans[parent].sampled

NewRPC(side, span, gctx) ==
    [side |-> side, span |-> span, gctx |-> gctx, done |-> FALSE,
     out |-> 0, in |-> 0, sentByApp |-> 0, gotByApp |-> 0, reported |-> FALSE,
     reportedOut |-> 0, reportedIn |-> 0]

\* A span and an otelcGRPCContext of its own for the new RPC.
StartRPC(side, ctx, incoming) ==
    LET parent == IF incoming # "nothing" THEN NoParent ELSE SpanFromContext(spans, ctx)
    IN  /\ spans' = Append(spans, [ended |-> FALSE, sampled |-> Sampled(parent, incoming),
                                   error |-> FALSE, rpc |-> Len(rpcs) + 1,
                                   parent |-> parent])
        /\ rpcs' = Append(rpcs, NewRPC(side, Len(spans) + 1, Len(rpcs) + 1))

\* otelcGRPCServerStatsHandler.TagRPC: the parent is the caller's span or, as
\* SpanContextFromContext falls back to it, the goroutine's.
ServerTagRPC(incoming) ==
    /\ Len(rpcs) < MaxRPCs
    /\ Active("server") = {}
    /\ StartRPC("server", NoParent, incoming)

\* The span in the context of the RPC c.
SpanOf(c) == IF c = NoRPC THEN NoParent ELSE rpcs[c].span

\* otelcGRPCClientStatsHandler.TagRPC
ClientTagRPC(c) ==
    /\ Len(rpcs) < MaxRPCs
    /\ StartRPC("client", SpanOf(c), "nothing")

\* TagRPC returns the context of an exporter's RPC as it is: without a span and
\* an otelcGRPCContext, or with those of the RPC it came from.
ExporterTagRPC(c) ==
    /\ Len(rpcs) < MaxRPCs
    /\ rpcs' = Append(rpcs, NewRPC("client", SpanOf(c), c))
    /\ UNCHANGED spans

\* A counter of the otelcGRPCContext in RPC i's context.
Count(log, i, field) ==
    IF log[i].gctx = NoRPC THEN log ELSE [log EXCEPT ![log[i].gctx][field] = @ + 1]

\* HandleRPC of OutPayload and InPayload.
OutPayload(i) ==
    /\ ~rpcs[i].done
    /\ rpcs[i].sentByApp < MaxMessages
    /\ rpcs' = Count([rpcs EXCEPT ![i].sentByApp = @ + 1], i, "out")
    /\ UNCHANGED spans

InPayload(i) ==
    /\ ~rpcs[i].done
    /\ rpcs[i].gotByApp < MaxMessages
    /\ rpcs' = Count([rpcs EXCEPT ![i].gotByApp = @ + 1], i, "in")
    /\ UNCHANGED spans

IsRecording(s) == spans[s].sampled /\ ~spans[s].ended

\* Mutant: the span of an RPC that failed is not ended.
EndRecordingOnSuccess(s, failed) ==
    IF s # NoParent /\ IsRecording(s) /\ ~failed THEN EndSpan(spans, s) ELSE spans

\* Only a span that is recording is marked and ended.
EndRecording(s, failed) ==
    IF s # NoParent /\ IsRecording(s)
    THEN EndSpan(IF failed THEN SetError(spans, s) ELSE spans, s)
    ELSE spans

\* HandleRPC of End: span, duration, and the counters so far.  A server span is
\* not marked for the codes that blame the client, which count as success here.
EndRPC(i, failed) ==
    /\ ~rpcs[i].done
    /\ LET g == rpcs[i].gctx
           over == [rpcs EXCEPT ![i].done = TRUE]
       IN  IF g = NoRPC
           THEN /\ rpcs' = over
                /\ UNCHANGED spans
           ELSE /\ rpcs' = [over EXCEPT ![g].reported = TRUE, ![g].reportedOut = over[g].out,
                                        ![g].reportedIn = over[g].in]
                /\ spans' = EndRecording(rpcs[i].span, failed)

Next ==
    \/ \E incoming \in Incoming : ServerTagRPC(incoming)
    \/ \E c \in {NoRPC} \cup Active("server") : ClientTagRPC(c) \/ ExporterTagRPC(c)
    \/ \E i \in DOMAIN rpcs : \/ OutPayload(i)
                              \/ InPayload(i)
                              \/ \E failed \in BOOLEAN : EndRPC(i, failed)

Spec == Init /\ [][Next]_vars

-----------------------------------------------------------------------------
(* Properties.                                                              *)

\* An exporter call was made with the context of RPC i: its events are taken
\* for those of RPC i.
Lent(i) == \E j \in DOMAIN rpcs : j # i /\ rpcs[j].gctx = i

\* The span of an RPC is live exactly as long as the RPC runs: no event of
\* another RPC ends it, and none is left behind on the worker.  The spans left
\* behind are those of unsampled RPCs, which HandleRPC never ends.
SpanEndsWithItsRPC ==
    \A s \in DOMAIN spans :
        ~Lent(spans[s].rpc) =>
            (spans[s].ended <=> rpcs[spans[s].rpc].done /\ spans[s].sampled)

\* "per-RPC context": the message counts recorded at the end of an RPC are
\* those of its own messages, unless its context was lent to an exporter.
CountsAreItsOwn ==
    \A i \in DOMAIN rpcs :
        (rpcs[i].done /\ rpcs[i].reported /\ ~Lent(i)) =>
            /\ rpcs[i].reportedOut = rpcs[i].sentByApp
            /\ rpcs[i].reportedIn = rpcs[i].gotByApp

\* Both: a span lives, and counts messages, with its own RPC (TagRPC, HandleRPC).
SpanLivesWithItsRPC == SpanEndsWithItsRPC /\ CountsAreItsOwn

=============================================================================
