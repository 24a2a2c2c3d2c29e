----------------------------- MODULE KafkaHooks -----------------------------
(***************************************************************************)
(* The segmentio/kafka-go hooks (otelc/plugins/kafkago/kafka.go) on one      *)
(* goroutine that writes batches to a topic, reads them back and may         *)
(* forward what it read.  A producer span's context is injected in place     *)
(* into the message's header slice; the consumer span takes its parent from  *)
(* the headers of the message it got.                                        *)
(***************************************************************************)
EXTENDS SDKSpans, FiniteSets

CONSTANTS MaxSlices,    \* bound: header slices
          MaxLog,       \* bound: spans
          MaxBatch      \* bound: messages of a WriteMessages call

Slices == 1..MaxSlices

VARIABLES
    pc,       \* "app", "writing", "fetching"
    call,     \* the call under way
    spans,    \* the goroutine's spans
    tp,       \* the span in the trace header of each slice; slices of messages
              \* that share memory are one slice
    used,     \* slices handed out so far
    queue,    \* messages an asynchronous writer has accepted and not yet sent
    topic,    \* messages sent, oldest first, with a copy of their header
    reads,    \* outermost reads that have returned
    links,    \* history: producer of each message read, the consumer span's
              \* parent, and whether its slice was in `shared' when it was sent
    shared    \* history: slices that two messages under way have used at once

vars == <<pc, call, spans, tp, used, queue, topic, reads, links, shared>>

NoCall == [slices |-> <<>>, first |-> 0, async |-> FALSE, ctx |-> NoParent,
           nested |-> FALSE, got |-> <<>>]

Init ==
    /\ pc = "app"
    /\ call = NoCall
    /\ spans = <<>>
    /\ tp = [s \in Slices |-> NoParent]
    /\ used = 0
    /\ queue = <<>>
    /\ topic = <<>>
    /\ reads = 0
    /\ links = {}
    /\ shared = {}

AppSpans == {i \in Live(spans) : spans[i].fn = "app"}

Room(k) == Len(spans) + k <= MaxLog

AppStart ==
    /\ pc = "app"
    /\ AppSpans = {}
    /\ Room(1)
    /\ spans' = Start(spans, NoParent, "app")
    /\ UNCHANGED <<pc, call, tp, used, queue, topic, reads, links, shared>>

\* A message with headers of its own.
NewMessage ==
    /\ pc = "app"
    /\ used < MaxSlices
    /\ used' = used + 1
    /\ UNCHANGED <<pc, call, spans, tp, queue, topic, reads, links, shared>>

-----------------------------------------------------------------------------
(* Writer.WriteMessages                                                     *)

\* A slice is busy while a queued message refers to it.
Busy == {queue[i].slice : i \in DOMAIN queue}

\* What the application passes.  Two messages of a batch share memory only if
\* their slice already holds a trace header: Set writes into such a slice, but
\* appends to another, which copies it.
Batches ==
    {b \in UNION {[1..k -> 1..used] : k \in 1..MaxBatch} :
        \A i, j \in DOMAIN b : (b[i] = b[j] /\ tp[b[i]] = NoParent) => i = j}

\* Slices of the batch that are used twice, or by a queued message too.
SharedBy(b) ==
    {b[i] : i \in {k \in DOMAIN b : b[k] \in Busy \/ \E j \in DOMAIN b : j # k /\ b[j] = b[k]}}

\* A span for each message, all from the caller's context.
StartBatch(log, ctx, k) ==
    LET upTo[i \in 0..k] == IF i = 0 THEN log ELSE Start(upTo[i - 1], ctx, "send")
    IN  upTo[k]

\* Mutant: Set does not replace the header of a forwarded message.
InjectBatchKeeps(b) ==
    [s \in Slices |->
        LET at == {i \in DOMAIN b : b[i] = s}
        IN  IF at = {} \/ tp[s] # NoParent THEN tp[s]
            ELSE Len(spans) + (CHOOSE i \in at : \A j \in at : j <= i)]

\* Set replaces the trace header or appends it; the last message of the batch
\* that uses a slice wins.
InjectBatch(b) ==
    [s \in Slices |->
        LET at == {i \in DOMAIN b : b[i] = s}
        IN  IF at = {} THEN tp[s]
            ELSE Len(spans) + (CHOOSE i \in at : \A j \in at : j <= i)]

WriteMessages(b, async, ctx) ==
    /\ pc = "app"
    /\ Room(Len(b))
    /\ call' = [NoCall EXCEPT !.slices = b, !.first = Len(spans) + 1, !.async = async]
    /\ spans' = StartBatch(spans, ctx, Len(b))
    /\ tp' = InjectBatch(b)
    /\ shared' = shared \cup SharedBy(b)
    /\ pc' = "writing"
    /\ UNCHANGED <<used, queue, topic, reads, links>>

SpanOf(i) == call.first + i - 1

\* The producer spans end; those of the messages in `failed' are marked.
EndBatch(log, failed) ==
    [k \in DOMAIN log |->
        IF k \in {SpanOf(i) : i \in DOMAIN call.slices}
        THEN [log[k] EXCEPT !.ended = TRUE, !.error = \E i \in failed : SpanOf(i) = k,
                            !.outcome = IF \E i \in failed : SpanOf(i) = k THEN "error" ELSE "ok"]
        ELSE log[k]]

\* The messages of the batch that are not in `failed'.
Sent(failed) ==
    LET ok == {i \in DOMAIN call.slices : i \notin failed}
        nth(k) == CHOOSE i \in ok : Cardinality({j \in ok : j <= i}) = k
    IN  [k \in 1..Cardinality(ok) |->
            [producer |-> SpanOf(nth(k)), slice |-> call.slices[nth(k)]]]

\* On the wire: the header as it is now.
OnWire(m) == [producer |-> m.producer, header |-> tp[m.slice], shared |-> m.slice \in shared]

\* A synchronous write returns when everything is sent; WriteErrors tells which
\* messages failed, another error means all of them.
WriteReturns(failed) ==
    /\ pc = "writing"
    /\ ~call.async
    /\ spans' = EndBatch(spans, failed)
    /\ topic' = topic \o [k \in DOMAIN Sent(failed) |-> OnWire(Sent(failed)[k])]
    /\ call' = NoCall
    /\ pc' = "app"
    /\ UNCHANGED <<tp, used, queue, reads, links, shared>>

\* An asynchronous write returns at once.
AsyncWriteReturns ==
    /\ pc = "writing"
    /\ call.async
    /\ spans' = EndBatch(spans, {})
    /\ queue' = queue \o Sent({})
    /\ call' = NoCall
    /\ pc' = "app"
    /\ UNCHANGED <<tp, used, topic, reads, links, shared>>

\* The writer's goroutine sends the next queued message, or fails to; the
\* wrapped Completion only logs the failure.
Completion(sent) ==
    /\ queue # <<>>
    /\ topic' = IF sent THEN Append(topic, OnWire(Head(queue))) ELSE topic
    /\ queue' = Tail(queue)
    /\ UNCHANGED <<pc, call, spans, tp, used, reads, links, shared>>

-----------------------------------------------------------------------------
(* Reader.ReadMessage and Reader.FetchMessage                               *)

\* ReadMessage marks the context it passes to FetchMessage.
ReadMessage(ctx) ==
    /\ pc = "app"
    /\ Room(1)
    /\ call' = [NoCall EXCEPT !.ctx = ctx, !.nested = TRUE]
    /\ pc' = "fetching"
    /\ UNCHANGED <<spans, tp, used, queue, topic, reads, links, shared>>

FetchMessage(ctx) ==
    /\ pc = "app"
    /\ Room(1)
    /\ call' = [NoCall EXCEPT !.ctx = ctx]
    /\ pc' = "fetching"
    /\ UNCHANGED <<spans, tp, used, queue, topic, reads, links, shared>>

\* The consumer span, started and ended when the message is there.
ConsumerSpan(m, failed) ==
    LET from == IF m # <<>> /\ m[1].header # NoParent THEN m[1].header ELSE call.ctx
        log == Start(spans, from, "receive")
    IN  [log EXCEPT ![Len(log)].ended = TRUE, ![Len(log)].error = failed,
                    ![Len(log)].outcome = IF failed THEN "error" ELSE "ok"]

\* The application gets the message, with a header slice of its own.
HandOver(m) ==
    /\ used' = IF used < MaxSlices /\ m # <<>> THEN used + 1 ELSE used
    /\ tp' = IF used < MaxSlices /\ m # <<>>
             THEN [tp EXCEPT ![used + 1] = m[1].header] ELSE tp

\* The deferred function of the outermost read, for the message m or an error.
ReadReturns(m) ==
    /\ spans' = ConsumerSpan(m, m = <<>>)
    /\ links' = IF m = <<>> THEN links
                ELSE links \cup {[producer |-> m[1].producer, shared |-> m[1].shared,
                                  parent |-> spans'[Len(spans')].parent]}
    /\ HandOver(m)
    /\ reads' = reads + 1
    /\ call' = NoCall
    /\ pc' = "app"
    /\ UNCHANGED shared

\* FetchMessage's hook saw the marker: nothing happens until ReadMessage's own
\* deferred function runs.
NestedFetchReturns(m) ==
    /\ pc = "fetching"
    /\ call.nested
    /\ call' = [call EXCEPT !.nested = FALSE, !.got = m]
    /\ pc' = "reading"
    /\ UNCHANGED <<spans, tp, used, reads, links, shared>>

\* FetchMessage fails, or takes the oldest message.
FetchEnds ==
    /\ pc = "fetching"
    /\ \/ /\ UNCHANGED topic
          /\ IF call.nested THEN NestedFetchReturns(<<>>) ELSE ReadReturns(<<>>)
       \/ /\ topic # <<>>
          /\ topic' = Tail(topic)
          /\ IF call.nested THEN NestedFetchReturns(<<Head(topic)>>)
                            ELSE ReadReturns(<<Head(topic)>>)
    /\ UNCHANGED queue

\* ReadMessage returns what FetchMessage gave, or an error of its own commit.
ReadEnds ==
    /\ pc = "reading"
    /\ \E m \in {call.got, <<>>} : ReadReturns(m)
    /\ UNCHANGED <<queue, topic>>

-----------------------------------------------------------------------------
Next ==
    \/ AppStart
    \/ NewMessage
    \/ \E ctx \in {NoParent} \cup AppSpans :
          \/ \E b \in Batches, async \in BOOLEAN : WriteMessages(b, async, ctx)
          \/ ReadMessage(ctx)
          \/ FetchMessage(ctx)
    \/ \E failed \in SUBSET (DOMAIN call.slices) : WriteReturns(failed)
    \/ AsyncWriteReturns
    \/ \E sent \in BOOLEAN : Completion(sent)
    \/ FetchEnds
    \/ ReadEnds

Spec == Init /\ [][Next]_vars

-----------------------------------------------------------------------------
(* Properties.                                                              *)

\* "Consumer spans link to the producer through the trace context carried in
\* message headers": the parent of the span of a message that was read is the
\* span of the WriteMessages that sent it, forwarded messages included, unless
\* the header was shared with another message under way.  "ReadMessage's nested
\* FetchMessage call is recognized via a context marker and skipped to avoid
\* duplicate spans": there is one consumer span per read.
ConsumerLinksToProducer ==
    /\ \A l \in links : ~l.shared => l.parent = l.producer
    /\ Cardinality({i \in DOMAIN spans : spans[i].fn = "receive"}) = reads

\* Between calls, every producer and consumer span has ended, marked as failed
\* exactly if its own message failed.
BatchOutcomesMatch ==
    pc = "app" => \A i \in DOMAIN spans :
        spans[i].fn # "app" =>
            /\ spans[i].ended
            /\ spans[i].error <=> spans[i].outcome = "error"

\* Both: a message is traced from its producer to its consumer, with its outcome.
MessagesAreTraced == ConsumerLinksToProducer /\ BatchOutcomesMatch

=============================================================================
