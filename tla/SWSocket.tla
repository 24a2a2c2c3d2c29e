------------------------------- MODULE SWSocket -------------------------------
(***************************************************************************)
(* SkyWalking's hooks on go-micro connections (skywalking/plugins/microv4:   *)
(* socket.go, server.go).  Accept makes the entry span of its goroutine the  *)
(* connection's, ServeRequest takes it up on another goroutine in three reads *)
(* of the socket's data, Close, which may be called twice at once, finishes it. *)
(***************************************************************************)
EXTENDS SWContext, FiniteSets

CONSTANTS Goroutines,
          MaxSpans   \* bound: spans of a behaviour

Idle == [at |-> "idle", data |-> 0, moved |-> {}]

VARIABLES sw,
          SwInjectData, \* the socket's, 0 for nil
          datas,        \* the InjectData so far: their span, and finished, the Once
          pc,           \* what each goroutine is doing with which InjectData; of a
                        \* request that is the connection it came on, and moved the
                        \* reads before which the socket had accepted another
          finishes,     \* history: the AsyncFinish calls of each span
          used,         \* history: the spans a request named or hung its calls below,
                        \* the connection it came on and whether the socket had moved
          crashed       \* a nil SwInjectData was dereferenced

vars == <<sw, SwInjectData, datas, pc, finishes, used, crashed>>

Init ==
    /\ sw = Empty(Goroutines)
    /\ SwInjectData = 0
    /\ datas = <<>>
    /\ pc = [g \in Goroutines |-> Idle]
    /\ finishes = <<>>
    /\ used = {}
    /\ crashed = FALSE

Room == Len(sw.log) < MaxSpans

\* Another hook makes the entry span of the connection.
EntrySpan(g) ==
    /\ pc[g] = Idle /\ ActiveSpan(sw, g) = 0 /\ Room
    /\ sw' = Create(sw, g, "entry", "connection")
    /\ UNCHANGED <<SwInjectData, datas, pc, finishes, used, crashed>>

\* Requests that have yet to read the socket's data.
Looking == {k \in Goroutines : pc[k].at \in {"snapshot", "span"}}

\* Socket.Accept, the deferred function.
Accept(g) ==
    /\ pc[g] = Idle
    /\ ActiveSpan(sw, g) # 0 /\ ~sw.act[g].snap /\ sw.log[ActiveSpan(sw, g)].kind = "entry"
    /\ SwInjectData = 0
    /\ LET i == ActiveSpan(sw, g)
           t == PrepareAsync(sw, i)
       IN  /\ sw' = EndSpan(t, g, i)
           /\ datas' = Append(datas, [span |-> i, snapshot |-> CaptureContext(t, g), done |-> FALSE])
    /\ SwInjectData' = Len(datas) + 1
    /\ finishes' = Append(finishes, 0)
    /\ pc' = [k \in Goroutines |-> IF k \in Looking THEN [pc[k] EXCEPT !.moved = @ \cup {pc[k].at}]
                                    ELSE pc[k]]
    /\ UNCHANGED <<used, crashed>>

-----------------------------------------------------------------------------
(* Socket.Close.                                                            *)

CloseRead(g) ==
    /\ pc[g] = Idle
    /\ SwInjectData # 0
    /\ pc' = [pc EXCEPT ![g] = [Idle EXCEPT !.at = "do", !.data = SwInjectData]]
    /\ UNCHANGED <<sw, SwInjectData, datas, finishes, used, crashed>>

\* finished.Do calls its function: only once.
First(d) == ~datas[d].done

\* A goroutine is between AsyncFinish and the write that clears the socket's data.
Clearing(d) == \E k \in Goroutines : pc[k].at = "clear" /\ pc[k].data = d

\* The function: AsyncFinish, and then the socket's data is cleared.
CloseFinish(g) ==
    /\ pc[g].at = "do"
    /\ LET d == pc[g].data
       IN  IF First(d)
           THEN /\ sw' = AsyncFinish(sw, datas[d].span)
                /\ datas' = [datas EXCEPT ![d].done = TRUE]
                /\ finishes' = [finishes EXCEPT ![d] = @ + 1]
                /\ pc' = [pc EXCEPT ![g].at = "clear"]
           ELSE \* Do returns when the call that runs the function has.
                /\ ~Clearing(d)
                /\ pc' = [pc EXCEPT ![g] = Idle]
                /\ UNCHANGED <<sw, datas, finishes>>
    /\ UNCHANGED <<SwInjectData, used, crashed>>

CloseClear(g) ==
    /\ pc[g].at = "clear"
    /\ SwInjectData' = 0
    /\ pc' = [pc EXCEPT ![g] = Idle]
    /\ UNCHANGED <<sw, datas, finishes, used, crashed>>

-----------------------------------------------------------------------------
(* router.ServeRequest.                                                     *)

\* swGetExistingSpan: the nil check.
ServeRequest(g) ==
    /\ pc[g] = Idle /\ sw.act[g] = NoContext /\ Room
    /\ IF SwInjectData # 0
       THEN pc' = [pc EXCEPT ![g].at = "snapshot", ![g].data = SwInjectData] /\ UNCHANGED sw
       ELSE sw' = Create(sw, g, "entry", "request") /\ pc' = [pc EXCEPT ![g].at = "serve"]
    /\ UNCHANGED <<SwInjectData, datas, finishes, used, crashed>>

Use(i, moved, d) == used' = used \cup {[span |-> i, data |-> d, moved |-> moved]}

\* The field is nil by now: the request's goroutine panics.
Crash(g) ==
    /\ pc[g].at \in {"snapshot", "span"} /\ SwInjectData = 0
    /\ crashed' = TRUE
    /\ pc' = [pc EXCEPT ![g] = Idle]
    /\ UNCHANGED <<sw, SwInjectData, datas, finishes, used>>

\* It is read again for the snapshot ...
AdoptSnapshot(g) ==
    /\ pc[g].at = "snapshot" /\ SwInjectData # 0
    /\ sw' = ContinueContext(sw, g, datas[SwInjectData].snapshot)
    /\ pc' = [pc EXCEPT ![g].at = "span"]
    /\ UNCHANGED <<SwInjectData, datas, finishes, used, crashed>>

\* ... and once more for the span, which the request then names after its endpoint.
AdoptSpan(g) ==
    /\ pc[g].at = "span" /\ SwInjectData # 0
    /\ Use(datas[SwInjectData].span, pc[g].moved # {}, pc[g].data)
    /\ pc' = [pc EXCEPT ![g].at = "serve"]
    /\ UNCHANGED <<sw, SwInjectData, datas, finishes, crashed>>

\* A call of the handler with an exit span around it.
Call(g) ==
    /\ pc[g].at = "serve" /\ Room
    /\ LET t == Create(sw, g, "exit", "call")
           i == ActiveSpan(t, g)
       IN  /\ sw' = EndSpan(t, g, i)
           /\ IF pc[g].data = 0 THEN UNCHANGED used
              ELSE Use(t.log[i].parent.span, "snapshot" \in pc[g].moved, pc[g].data)
    /\ UNCHANGED <<SwInjectData, datas, pc, finishes, crashed>>

\* The deferred End.  The connection's span was ended by Accept, so that this
\* changes nothing, and the context stays the snapshot.
Served(g) ==
    /\ pc[g].at = "serve"
    /\ sw' = IF pc[g].data = 0 THEN EndSpan(sw, g, ActiveSpan(sw, g)) ELSE sw
    /\ pc' = [pc EXCEPT ![g] = Idle]
    /\ UNCHANGED <<SwInjectData, datas, finishes, used, crashed>>

Next ==
    \E g \in Goroutines :
        \/ EntrySpan(g)
        \/ Accept(g)
        \/ CloseRead(g) \/ CloseFinish(g) \/ CloseClear(g)
        \/ ServeRequest(g) \/ Crash(g) \/ AdoptSnapshot(g) \/ AdoptSpan(g)
        \/ Call(g) \/ Served(g)

Spec == Init /\ [][Next]_vars

-----------------------------------------------------------------------------
(* Properties.                                                              *)

\* However Close calls overlap each other, requests and the next Accept on the same
\* socket, a connection's span is finished once; the socket has its data until then
\* and never data of a span that is finished, so that the next connection gets a
\* span of its own.  The span a request names and hangs its calls below is that of
\* the connection it came on, unless the socket was closed and had accepted another
\* by the time the request read the data.
FinishedOnce ==
    /\ \A d \in DOMAIN datas :
         /\ finishes[d] = IF datas[d].done THEN 1 ELSE 0
         /\ Reported(sw, datas[d].span) <=> datas[d].done
         /\ SwInjectData = d <=> (~datas[d].done \/ Clearing(d))
    /\ \A u \in used : u.moved \/ u.span = datas[u.data].span

=============================================================================
