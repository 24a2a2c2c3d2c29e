----------------------------- MODULE MCMessaging -----------------------------
(* Instances of the hooks on message queues that need no consumer of their   *)
(* own: AMQPPublish and KafkaHooks of otelc, SWAsyncSend and SWAmqp of       *)
(* SkyWalking.  They share no state, so a behaviour is one of a single       *)
(* module; Init chooses which.                                               *)
EXTENDS AMQPPublish, TLC

CONSTANTS MaxSlices, MaxLog, MaxBatch,
          Callers, SDK, MaxSends, MaxSpans, MaxDepth,
          Goroutines, Channels, Queues, Tags, MaxConsumes

\* What SWAmqp takes for granted of its names; the rest bounds the runs.
ASSUME QueueAssumption ==
    /\ "no queue" \notin Queues
    /\ MaxConsumes \in Nat
    /\ MaxSlices \in Nat

VARIABLES hooks,  \* the module this behaviour is about
          kafkaPc, call, spans, tp, used, queue, topic, reads, links, shared,
          sw, sends, stack, strayed, lost,
          mapping, swSeq, libSeq, subs, closing, calls, consumes, sending, span, clashed, skewed

kafkaVars == <<kafkaPc, call, spans, tp, used, queue, topic, reads, links, shared>>
asyncVars == <<sw, sends, stack, strayed, lost>>
deliverVars == <<mapping, swSeq, libSeq, subs, closing, calls, consumes, sending, span, clashed, skewed>>

Kafka == INSTANCE KafkaHooks WITH pc <- kafkaPc
Async == INSTANCE SWAsyncSend
Deliver == INSTANCE SWAmqp

MessagingInit ==
    /\ hooks \in {"amqp", "kafka", "async", "deliver"}
    /\ Init /\ (hooks # "amqp" => hasGls = {})
    /\ Kafka!Init
    /\ Async!Init
    /\ Deliver!Init

MessagingNext ==
    \/ hooks = "amqp" /\ Next /\ UNCHANGED <<hooks, kafkaVars, asyncVars, deliverVars>>
    \/ hooks = "kafka" /\ Kafka!Next /\ UNCHANGED <<hooks, vars, asyncVars, deliverVars>>
    \/ hooks = "async" /\ Async!Next /\ UNCHANGED <<hooks, vars, kafkaVars, deliverVars>>
    \/ hooks = "deliver" /\ Deliver!Next /\ UNCHANGED <<hooks, vars, kafkaVars, asyncVars>>

MessagingSpec ==
    MessagingInit /\ [][MessagingNext]_<<hooks, vars, kafkaVars, asyncVars, deliverVars>>

\* For TLC: who is who among these does not matter.
NamesAlike ==
    Permutations(SDK) \cup Permutations(Goroutines) \cup Permutations(Channels)
        \cup Permutations(Queues)

\* A read is one consumer span, the child of its message's producer span, and each
\* span of a batch has its own message's outcome: Inject into and Extract from the
\* message headers, ReadMessage's marker, WriteMessages.
MessagesAreTraced == Kafka!MessagesAreTraced

\* A goroutine's tracing context is that of the calls it is in: the callbacks of
\* SendAsync, consumeInner, Receive.
ContextsAreOwn == Async!ContextsAreOwn

\* Every span of a send, a callback or a consumed batch is reported: SendAsync,
\* swTraceAsyncSendCallback, swCreateConsumerEntrySpan.
SendsAreReported == Async!SendsAreReported

\* The span of a delivery names the queue it came from: Consume, send and close.
DeliveryNamesItsQueue == Deliver!DeliveryNamesItsQueue

=============================================================================
