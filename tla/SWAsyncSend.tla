----------------------------- MODULE SWAsyncSend -----------------------------
(***************************************************************************)
(* SkyWalking's hooks on message queues: rocketmq (producer.go, consumer.go) *)
(* and pulsar (pulsar.go).  SendAsync hands the SDK a callback wrapped       *)
(* around the user's; the SDK calls it from a goroutine of its own, before   *)
(* or after SendAsync returns, or from SendAsync itself when it gives up     *)
(* early.  User code runs in callbacks and consumers and may send again.     *)
(***************************************************************************)
EXTENDS SWContext, SequencesExt

CONSTANTS Callers,     \* goroutines of the application
          SDK,         \* goroutines of the SDK
          MaxSends,    \* bound: asynchronous sends of a behaviour
          MaxSpans,    \* bound: spans of a behaviour
          MaxBatch,    \* bound: messages a consumer gets at once
          MaxDepth     \* bound: depth of a span left open, when SendSync panics

All == Callers \cup SDK

VARIABLES sw,     \* the tracing context
          sends,  \* the asynchronous sends so far
          stack,  \* the hooked calls each goroutine is in, innermost last
          strayed, \* history: goroutines a callback inside SendAsync left without
                   \* their context, or a panic in SendSync with another's
          lost     \* history: the spans SendSync left open when it panicked

vars == <<sw, sends, stack, strayed, lost>>

Init ==
    /\ sw = Empty(All)
    /\ sends = <<>>
    /\ stack = [g \in All |-> <<>>]
    /\ strayed = {}
    /\ lost = {}

Room == Len(sw.log) < MaxSpans

\* User code runs on the application's goroutines, and on the SDK's while they
\* are in a consumer or in the user's part of a callback.
RunsUserCode(g) ==
    IF stack[g] = <<>> THEN g \in Callers ELSE Last(stack[g]).op \in {"app", "consume", "callback"}

Push(g, f) == stack' = [stack EXCEPT ![g] = Append(@, f)]
Pop(g) == stack' = [stack EXCEPT ![g] = Front(@)]

\* A span of the application's own, such as that of a request.
AppStart(g) ==
    /\ g \in Callers /\ stack[g] = <<>> /\ Room
    /\ sw' = Create(sw, g, "local", "app")
    /\ Push(g, [op |-> "app", span |-> ActiveSpan(sw', g), send |-> 0])
    /\ UNCHANGED <<sends, strayed, lost>>

\* SendSync and SendOneWay of rocketmq, Send of pulsar: nothing else happens on
\* the goroutine between the exit span's start and its End.  Pulsar makes none
\* when the topic cannot be looked up.
\*
\* SendSync's deferred function reads result.MessageQueue of every result, also
\* of a failed send's, which has none: it panics before End, and the span stays
\* open and the goroutine's context.  User code recovers the panic, at once or
\* when it has passed through calls whose deferred functions do what they do when
\* the calls return; if nobody does, the process is over.
SendSync(g, panics) ==
    /\ RunsUserCode(g) /\ Room
    /\ panics => \A i \in lost : sw.log[i].depth < MaxDepth
    /\ LET t == Create(sw, g, "exit", "send")
           i == ActiveSpan(t, g)
       IN  IF panics
           THEN /\ sw' = t
                /\ strayed' = strayed \cup {g}
                /\ lost' = lost \cup {i}
           ELSE /\ sw' = EndSpan(t, g, i)
                /\ UNCHANGED <<strayed, lost>>
    /\ UNCHANGED <<sends, stack>>

\* SendAsync, up to the call of the SDK's own function.
SendAsync(g) ==
    /\ RunsUserCode(g) /\ Room /\ Len(sends) < MaxSends
    /\ sw' = Create(sw, g, "exit", "send")
    /\ sends' = Append(sends, [span |-> ActiveSpan(sw', g), snapshot |-> CaptureContext(sw', g),
                               callback |-> 0])
    /\ Push(g, [op |-> "SendAsync", span |-> ActiveSpan(sw', g), send |-> Len(sends) + 1])
    /\ UNCHANGED <<strayed, lost>>

\* The deferred function.
SendAsyncReturn(g) ==
    /\ stack[g] # <<>> /\ Last(stack[g]).op = "SendAsync"
    /\ sw' = EndSpan(sw, g, Last(stack[g]).span)
    /\ Pop(g)
    /\ UNCHANGED <<sends, strayed, lost>>

\* Where the SDK may call the callback of send i.
MayCallBack(g, i) ==
    \/ g \in SDK /\ stack[g] = <<>>
    \/ stack[g] # <<>> /\ Last(stack[g]).op = "SendAsync" /\ Last(stack[g]).send = i

\* Mutant: the context of the callback's span is left on the goroutine.
TraceAsyncSendCallbackLeft(g, i, panics) ==
    LET t == Create(ContinueContext(sw, g, sends[i].snapshot), g, "local", "callback")
    IN  IF panics THEN t ELSE EndSpan(t, g, ActiveSpan(t, g))

\* swTraceAsyncSendCallback: a local span below the send's, then CleanContext.  A
\* panic while the result is tagged is dropped, and the span with it.
TraceAsyncSendCallback(g, i, panics) ==
    LET t == Create(ContinueContext(sw, g, sends[i].snapshot), g, "local", "callback")
    IN  CleanContext(IF panics THEN t ELSE EndSpan(t, g, ActiveSpan(t, g)), g)

\* The wrapped callback: the agent's part, then the user's.
Callback(g, i, panics) ==
    /\ sends[i].callback = 0 /\ MayCallBack(g, i) /\ Room
    /\ sw' = TraceAsyncSendCallback(g, i, panics)
    /\ sends' = [sends EXCEPT ![i].callback = Len(sw.log) + 1]
    /\ strayed' = IF stack[g] = <<>> THEN strayed ELSE strayed \cup {g}
    /\ Push(g, [op |-> "callback", span |-> 0, send |-> i])
    /\ UNCHANGED lost

\* Mutant: an entry span for each message of the batch.
CreateConsumerEntrySpanEach(g, n) ==
    FoldLeft(LAMBDA t, i : Create(t, g, "entry", "consume"), sw, [i \in 1..n |-> i])

\* swCreateConsumerEntrySpan: one entry span for the batch, none for an empty one.
CreateConsumerEntrySpan(g, n) ==
    IF n = 0 THEN sw ELSE Create(sw, g, "entry", "consume")

\* consumeInner with n messages.
ConsumeInner(g, n) ==
    /\ g \in SDK /\ stack[g] = <<>> /\ Room
    /\ sw' = CreateConsumerEntrySpan(g, n)
    /\ Push(g, [op |-> "consume", send |-> 0,
                span |-> IF n = 0 THEN 0 ELSE ActiveSpan(sw', g)])
    /\ UNCHANGED <<sends, strayed, lost>>

\* Receive of pulsar: the entry span is made and ended in the deferred function.
Receive(g) ==
    /\ RunsUserCode(g) /\ Room
    /\ LET t == Create(sw, g, "entry", "receive")
       IN  sw' = EndSpan(t, g, ActiveSpan(t, g))
    /\ UNCHANGED <<sends, stack, strayed, lost>>

\* User code returns: a callback to the SDK, a consumer or a span of the
\* application to its End.
UserReturn(g) ==
    /\ stack[g] # <<>> /\ Last(stack[g]).op # "SendAsync"
    /\ LET f == Last(stack[g])
       IN  sw' = IF f.span = 0 THEN sw ELSE EndSpan(sw, g, f.span)
    /\ Pop(g)
    /\ UNCHANGED <<sends, strayed, lost>>

Next ==
    \E g \in All :
        \/ AppStart(g) \/ SendAsync(g) \/ SendAsyncReturn(g)
        \/ \E panics \in BOOLEAN : SendSync(g, panics)
        \/ \E i \in DOMAIN sends, panics \in BOOLEAN : Callback(g, i, panics)
        \/ \E n \in 0..MaxBatch : ConsumeInner(g, n)
        \/ Receive(g)
        \/ UserReturn(g)

Spec == Init /\ [][Next]_vars

-----------------------------------------------------------------------------
(* Properties.                                                              *)

\* Wherever callbacks run and whatever user code sends from them, a goroutine
\* that is in none of these calls has no active span, so that what it does next
\* starts a trace of its own, and each call still finds its own span active when
\* it ends.  Two things break this: a callback inside SendAsync takes the caller's
\* context away, and a SendSync that panics leaves its span's behind.
ContextsAreOwn ==
    \A g \in All \ strayed :
        /\ stack[g] = <<>> => ActiveSpan(sw, g) = 0
        /\ stack[g] # <<>> => ActiveSpan(sw, g) = Last(stack[g]).span

\* Every span is reported once its call is over, a consumer's batch included, and
\* whatever SendSync left behind; a callback's span hangs below its send's.  A
\* span is lost only when tagging the result panics: a callback's own, and the one
\* SendSync had, no other.
SendsAreReported ==
    /\ \A i \in DOMAIN sw.log :
         \/ Reported(sw, i)
         \/ sw.log[i].name = "callback" \/ i \in lost
         \/ \E g \in All : \E k \in DOMAIN stack[g] : stack[g][k].span = i
    /\ \A i \in DOMAIN sends :
         sends[i].callback # 0 => sw.log[sends[i].callback].parent.span = sends[i].span

=============================================================================
