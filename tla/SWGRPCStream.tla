---------------------------- MODULE SWGRPCStream -----------------------------
(***************************************************************************)
(* SkyWalking's hooks on gRPC client streams (skywalking/plugins/grpc:       *)
(* client.go, stream.go, shared.go).  The exit span of NewStream is finished *)
(* when the stream is: by finish, which gRPC calls inside SendMsg, RecvMsg   *)
(* or CloseSend when they fail, and from a goroutine that NewStream starts   *)
(* to watch for cancellation.                                                *)
(***************************************************************************)
EXTENDS SWContext, FiniteSets

CONSTANTS Goroutines, \* goroutines of the application
          MaxStreams, \* bound: streams of a behaviour
          MaxSpans    \* bound: spans of a behaviour

\* The goroutine that watches stream s.
Watcher(s) == <<"watcher", s>>
All == Goroutines \cup {Watcher(s) : s \in 1..MaxStreams}

Idle == [op |-> "none", stream |-> 0, span |-> 0]

VARIABLES sw,      \* the tracing context
          streams, \* streams so far, with their swGRPCContextData
          call,    \* the hooked call each goroutine is in
          fin      \* goroutines in finish whose CompareAndSwap succeeded

vars == <<sw, streams, call, fin>>

Init ==
    /\ sw = Empty(All)
    /\ streams = <<>>
    /\ call = [g \in All |-> Idle]
    /\ fin = {}

Room == Len(sw.log) < MaxSpans

\* The application opens a span of its own, and ends the active one.
AppStart(g) ==
    /\ call[g] = Idle /\ Room
    /\ sw' = Create(sw, g, "local", "app")
    /\ UNCHANGED <<streams, call, fin>>

AppEnd(g) ==
    /\ call[g] = Idle
    /\ ActiveSpan(sw, g) # 0 /\ ~sw.act[g].snap
    /\ sw' = EndSpan(sw, g, ActiveSpan(sw, g))
    /\ UNCHANGED <<streams, call, fin>>

\* ClientConn.NewStream.  The data is attached only if the result is gRPC's own
\* stream type: an interceptor may return another, a failed call returns none.
NewStream(g, result) ==
    /\ call[g] = Idle /\ Room /\ Len(streams) < MaxStreams
    /\ LET t1 == Create(sw, g, "exit", "stream")
           i  == ActiveSpan(t1, g)
           t2 == PrepareAsync(t1, i)
           t3 == EndSpan(t2, g, i)
           w  == Watcher(Len(streams) + 1)
       IN  /\ sw' = IF result = "failed" THEN t3
                    ELSE EndSpan(newproc1(t2, g, w), g, i)
           /\ streams' = Append(streams,
                [span |-> i, result |-> result, continueSnapShot |-> CaptureContext(t2, g),
                 endSnapShot |-> CaptureContext(t3, g), interceptFinish |-> FALSE,
                 received |-> FALSE, over |-> "no", finishes |-> 0])
    /\ UNCHANGED <<call, fin>>

Usable(g, s) == call[g] = Idle /\ g \in Goroutines /\ streams[s].result # "failed"

\* gRPC allows one sender and one receiver at a time.
Free(s, op) == \A g \in All : ~(call[g].op = op /\ call[g].stream = s)

HasData(s) == streams[s].result = "clientStream"

Begin(t, g, s, op) ==
    LET u == Create(t, g, "local", op)
    IN  /\ sw' = u
        /\ call' = [call EXCEPT ![g] = [op |-> op, stream |-> s, span |-> ActiveSpan(u, g)]]

\* ContinueContext(continueSnapShot), where the stream has data.
Continued(g, s) ==
    IF HasData(s) THEN ContinueContext(sw, g, streams[s].continueSnapShot) ELSE sw

SendMsg(g, s) ==
    /\ Usable(g, s) /\ Free(s, "SendMsg") /\ Room
    /\ Begin(Continued(g, s), g, s, "SendMsg")
    /\ UNCHANGED <<streams, fin>>

\* Mutant: the first RecvMsg does not arm finish yet.
RecvMsgLate(g, s) ==
    /\ Usable(g, s) /\ Free(s, "RecvMsg") /\ Room
    /\ Begin(Continued(g, s), g, s, "RecvMsg")
    /\ streams' = [streams EXCEPT ![s].interceptFinish = HasData(s) /\ streams[s].received,
                                  ![s].received = TRUE]
    /\ UNCHANGED fin

\* RecvMsg also arms finish.
RecvMsg(g, s) ==
    /\ Usable(g, s) /\ Free(s, "RecvMsg") /\ Room
    /\ Begin(Continued(g, s), g, s, "RecvMsg")
    /\ streams' = [streams EXCEPT ![s].interceptFinish = HasData(s), ![s].received = TRUE]
    /\ UNCHANGED fin

\* CloseSend takes the goroutine's context as it is.
CloseSend(g, s) ==
    /\ Usable(g, s) /\ Free(s, "SendMsg") /\ Room
    /\ Begin(sw, g, s, "CloseSend")
    /\ UNCHANGED <<streams, fin>>

\* The two places gRPC calls finish from: a call on the stream, as often as one
\* fails, and the stream's watcher, once.
CallsFinish(g, s) ==
    \/ g \in Goroutines /\ call[g].stream = s
    \/ g = Watcher(s) /\ call[g] = Idle

\* finish, up to the CompareAndSwap.
Finish(g, s) ==
    /\ streams[s].result # "failed" /\ CallsFinish(g, s) /\ <<g, s>> \notin fin
    /\ fin' = IF streams[s].interceptFinish THEN fin \cup {<<g, s>>} ELSE fin
    /\ streams' = [streams EXCEPT ![s].interceptFinish = FALSE,
                                  ![s].over = IF streams[s].received THEN "received"
                                              ELSE "unread"]
    /\ call' = IF g = Watcher(s) THEN [call EXCEPT ![g].op = "over"] ELSE call
    /\ UNCHANGED sw

\* The rest of it, by the caller that won: AsyncFinish, and the active span is
\* renamed CloseRecv.
FinishStreamSpan(g, s) ==
    /\ <<g, s>> \in fin
    /\ LET t == AsyncFinish(sw, streams[s].span)
           a == ActiveSpan(t, g)
       IN  sw' = IF a = 0 \/ t.act[g].snap THEN t ELSE [t EXCEPT !.log[a].name = "CloseRecv"]
    /\ fin' = fin \ {<<g, s>>}
    /\ streams' = [streams EXCEPT ![s].finishes = @ + 1]
    /\ UNCHANGED call

\* The deferred function: End, and after RecvMsg the caller's context again.
Return(g) ==
    /\ call[g].op # "none" /\ \A s \in DOMAIN streams : <<g, s>> \notin fin
    /\ LET t == EndSpan(sw, g, call[g].span)
           s == call[g].stream
       IN  sw' = IF call[g].op = "RecvMsg" /\ HasData(s)
                 THEN ContinueContext(t, g, streams[s].endSnapShot) ELSE t
    /\ call' = [call EXCEPT ![g] = Idle]
    /\ UNCHANGED <<streams, fin>>

Next ==
    \/ \E g \in Goroutines :
         \/ AppStart(g) \/ AppEnd(g) \/ Return(g)
         \/ \E result \in {"clientStream", "wrapped", "failed"} : NewStream(g, result)
         \/ \E s \in DOMAIN streams : SendMsg(g, s) \/ RecvMsg(g, s) \/ CloseSend(g, s)
    \/ \E g \in All, s \in DOMAIN streams : Finish(g, s) \/ FinishStreamSpan(g, s)

Spec == Init /\ [][Next]_vars

-----------------------------------------------------------------------------
(* Properties.                                                              *)

\* finish runs on any goroutine, between any two steps of the others, yet the
\* exit span of a stream that was read from is reported once the stream is over,
\* and never before.  A stream that failed to open, that an interceptor wrapped,
\* or that was never read is not reported at all.
StreamIsReportedWhenOver ==
    \A s \in DOMAIN streams :
        LET ended == Reported(sw, streams[s].span)
        IN  /\ (streams[s].over = "received" /\ HasData(s) /\ \A g \in All : <<g, s>> \notin fin)
                 => ended
            /\ ended => streams[s].over = "received" /\ HasData(s)

\* "two racing Finish calls can never both run the AsyncFinish", "finish
\* one-shot": the exit span of a stream is finished at most once.  Violated: a
\* RecvMsg after the first finish arms it again.
FinishIsOneShot == \A s \in DOMAIN streams : streams[s].finishes <= 1

=============================================================================
