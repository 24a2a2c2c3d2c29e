------------------------------- MODULE SWAmqp --------------------------------
(***************************************************************************)
(* SkyWalking's amqp hooks (skywalking/plugins/amqp/amqp.go).  The span of a *)
(* delivery is made where the library dispatches it, and names the queue     *)
(* that a process-wide map gives for the consumer tag.  Consume fills the    *)
(* map before the library's own code runs, and so has to guess the tag the   *)
(* library will make up for a consumer without one.                          *)
(***************************************************************************)
EXTENDS Naturals, FiniteSets, Sequences, Functions

CONSTANTS Goroutines, \* callers of Consume
          Channels,
          Queues,
          Tags,        \* consumer tags of the application, other than ""
          MaxConsumes  \* bound: calls of Consume and ConsumeWithContext

NoTag == ""      \* the library makes one up
NoQueue == "no queue"
Auto(n) == <<"ctag", n>>
Named(t) == <<"tag", t>>

NoSpan == [tag |-> Auto(0), queue |-> NoQueue, from |-> NoQueue, closing |-> FALSE,
           overtaken |-> FALSE]
NoDelivery == [tag |-> Auto(0), from |-> NoQueue, overtaken |-> FALSE]
Idle == [ch |-> 0, queue |-> NoQueue, tag |-> NoTag]

VARIABLES mapping,     \* swQueueConsumerTagMapping
          swSeq,       \* swConsumerSeq
          libSeq,      \* the library's own sequence
          subs,        \* consumers of each channel: tag -> queue
          closing,     \* channels in close(), past the hook
          calls,       \* Consume calls in progress
          consumes,    \* Consume calls so far
          sending,     \* each channel's delivery between the library's send and the
                       \* hook: its tag, the queue it came from and, history, whether
                       \* the tag was registered again meanwhile
          span,        \* the last delivery's span, with the same
          clashed,     \* history: tags that two consumers had at the same time
          skewed       \* history: the two sequences went out of step

vars == <<mapping, swSeq, libSeq, subs, closing, calls, consumes, sending, span, clashed, skewed>>

Init ==
    /\ mapping = <<>>
    /\ swSeq = 0
    /\ libSeq = 0
    /\ subs = [c \in Channels |-> <<>>]
    /\ closing = {}
    /\ calls = [g \in Goroutines |-> Idle]
    /\ consumes = 0
    /\ sending = [c \in Channels |-> NoDelivery]
    /\ span = NoSpan
    /\ clashed = {}
    /\ skewed = FALSE

swConsumerQueue(tag) == IF tag \in DOMAIN mapping THEN mapping[tag] ELSE NoQueue

\* A consumer of these channels has the tag, or a Consume call asks for it.
InUse(tag, chs) ==
    \/ \E c \in chs : tag \in DOMAIN subs[c]
    \/ \E g \in Goroutines : calls[g] # Idle /\ Named(calls[g].tag) = tag

swRegisterConsumerQueue(tag, q) ==
    /\ mapping' = [t \in DOMAIN mapping \cup {tag} |-> IF t = tag THEN q ELSE mapping[t]]
    /\ clashed' = clashed \cup {t \in {tag} : InUse(t, Channels)}
    /\ sending' = [c \in Channels |-> [sending[c] EXCEPT !.overtaken = @ \/ sending[c].tag = tag]]

\* Mutant: the map is filled with the tag the application gave.
RegisteredTagAsGiven(tag) == IF tag = NoTag THEN Named(NoTag) ELSE Named(tag)

\* The tag Consume registers: swUniqueConsumerTag for none.
RegisteredTag(tag) == IF tag = NoTag THEN Auto(swSeq + 1) ELSE Named(tag)

\* The hook of Consume, and then the library's code.  Sequences count together
\* only if no other Consume without a tag is between the two.
Consume(g, ch, q, tag) ==
    /\ calls[g] = Idle /\ consumes < MaxConsumes
    /\ consumes' = consumes + 1
    /\ swRegisterConsumerQueue(RegisteredTag(tag), q)
    /\ swSeq' = IF tag = NoTag THEN swSeq + 1 ELSE swSeq
    /\ calls' = [calls EXCEPT ![g] = [ch |-> ch, queue |-> q, tag |-> tag]]
    /\ skewed' = (skewed \/ (tag = NoTag /\ \E h \in Goroutines : calls[h] # Idle /\ calls[h].tag = NoTag))
    /\ UNCHANGED <<libSeq, subs, closing, span>>

LibraryTag(tag) == IF tag = NoTag THEN Auto(libSeq + 1) ELSE Named(tag)

Subscribed(ch, tag, q) ==
    subs' = [subs EXCEPT ![ch] = [t \in DOMAIN @ \cup {tag} |-> IF t = tag THEN q ELSE @[t]]]

\* The library's part: the broker accepts a tag that is new on the channel.
ConsumeAccepted(g) ==
    LET c == calls[g]
        tag == LibraryTag(c.tag)
    IN  /\ c # Idle /\ c.ch \notin closing
        /\ tag \notin DOMAIN subs[c.ch]
        /\ Subscribed(c.ch, tag, c.queue)
        /\ libSeq' = IF c.tag = NoTag THEN libSeq + 1 ELSE libSeq
        /\ calls' = [calls EXCEPT ![g] = Idle]
        /\ UNCHANGED <<mapping, swSeq, closing, consumes, sending, span, clashed, skewed>>

\* Or it fails, in the check of the arguments, before a tag is made up, or later.
\* What the hook registered stays.
ConsumeFailed(g, early) ==
    LET c == calls[g]
    IN  /\ c # Idle
        /\ libSeq' = IF c.tag = NoTag /\ ~early THEN libSeq + 1 ELSE libSeq
        /\ skewed' = (skewed \/ (c.tag = NoTag /\ early))
        /\ calls' = [calls EXCEPT ![g] = Idle]
        /\ UNCHANGED <<mapping, swSeq, subs, closing, consumes, sending, span, clashed>>

\* ConsumeWithContext has no hook.
ConsumeWithContext(ch, q) ==
    /\ consumes < MaxConsumes /\ ch \notin closing
    /\ consumes' = consumes + 1
    /\ Subscribed(ch, Auto(libSeq + 1), q)
    /\ libSeq' = libSeq + 1
    /\ skewed' = TRUE
    /\ UNCHANGED <<mapping, swSeq, closing, calls, sending, span, clashed>>

\* The library forgets a cancelled consumer; the map does not.
Cancel(ch, tag) ==
    /\ tag \in DOMAIN subs[ch]
    /\ subs' = [subs EXCEPT ![ch] = Restrict(@, DOMAIN @ \ {tag})]
    /\ UNCHANGED <<mapping, swSeq, libSeq, closing, calls, consumes, sending, span, clashed, skewed>>

\* consumers.send, the library's part: the delivery is handed to the consumer with
\* the lock held.  A channel's deliveries come from one goroutine.
Send(ch, tag) ==
    /\ sending[ch] = NoDelivery /\ tag \in DOMAIN subs[ch]
    /\ sending' = [sending EXCEPT ![ch] = [tag |-> tag, from |-> subs[ch][tag],
                                          overtaken |-> FALSE]]
    /\ UNCHANGED <<mapping, swSeq, libSeq, subs, closing, calls, consumes, span, clashed, skewed>>

\* The hook, deferred and with the lock free again: the map is read only now.
SendHook(ch) ==
    LET d == sending[ch]
    IN  /\ d # NoDelivery
        /\ span' = [tag |-> d.tag, queue |-> swConsumerQueue(d.tag), from |-> d.from,
                    closing |-> ch \in closing, overtaken |-> d.overtaken]
        /\ sending' = [sending EXCEPT ![ch] = NoDelivery]
        /\ UNCHANGED <<mapping, swSeq, libSeq, subs, closing, calls, consumes, clashed, skewed>>

\* consumers.close: the hook forgets the channel's tags, then, with the lock free
\* in between, the library drops its consumers.
CloseHook(ch) ==
    /\ ch \notin closing
    /\ closing' = closing \cup {ch}
    /\ mapping' = Restrict(mapping, DOMAIN mapping \ DOMAIN subs[ch])
    /\ clashed' = clashed \cup {t \in DOMAIN subs[ch] : InUse(t, Channels \ {ch})}
    /\ UNCHANGED <<swSeq, libSeq, subs, calls, consumes, sending, span, skewed>>

CloseConsumers(ch) ==
    /\ ch \in closing /\ subs[ch] # <<>>
    /\ subs' = [subs EXCEPT ![ch] = <<>>]
    /\ UNCHANGED <<mapping, swSeq, libSeq, closing, calls, consumes, sending, span, clashed, skewed>>

Next ==
    \/ \E g \in Goroutines :
         \/ \E ch \in Channels, q \in Queues, tag \in Tags \cup {NoTag} : Consume(g, ch, q, tag)
         \/ ConsumeAccepted(g)
         \/ \E early \in BOOLEAN : ConsumeFailed(g, early)
    \/ \E ch \in Channels :
         \/ \E q \in Queues : ConsumeWithContext(ch, q)
         \/ \E tag \in DOMAIN subs[ch] : Cancel(ch, tag) \/ Send(ch, tag)
         \/ SendHook(ch)
         \/ CloseHook(ch)
         \/ CloseConsumers(ch)

Spec == Init /\ [][Next]_vars

-----------------------------------------------------------------------------
(* Properties.                                                              *)

\* The span of a delivery names the queue it came from, though Consume calls,
\* failures, cancellations and closing channels interleave and leave entries in
\* the map.  The name is wrong or missing only for a tag that two consumers had
\* at once (tags are unique per channel, the map is not), for a made-up tag once
\* the sequences are out of step, on a channel that is closing, and for the one
\* delivery whose tag was cancelled and given to a new consumer before the hook
\* read the map.
DeliveryNamesItsQueue ==
    \/ span.queue = span.from
    \/ span.tag \in clashed
    \/ span.closing
    \/ span.overtaken
    \/ skewed /\ span.tag \in {Auto(n) : n \in 1..MaxConsumes}

=============================================================================
