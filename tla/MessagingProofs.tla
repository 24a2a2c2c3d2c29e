--------------------------- MODULE MessagingProofs ---------------------------
(***************************************************************************)
(* Safety of the hooks on message queues, for any number of goroutines,      *)
(* channels, queues and calls.  The models share no state: a behaviour of    *)
(* MessagingSpec is one of each of them, and each has an inductive invariant *)
(* of its own.                                                               *)
(***************************************************************************)
EXTENDS MCMessaging, SequenceLemmas, TLAPS

-----------------------------------------------------------------------------
(* otelc: the parent of a producer span on an AMQP channel.                 *)

PublishTypeOK ==
    /\ pc \in [Publishers -> {"idle", "entering", "sending"}]
    /\ ctx \in [Publishers -> SpanNames \cup {None}]
    /\ hasGls \in SUBSET Publishers
    /\ stash \in {None} \cup [span : SpanNames \cup {None}]
    /\ parent \in [Publishers -> SpanNames \cup {None}]
    /\ overlapped \in [Publishers -> BOOLEAN]

\* What is stashed waits for a hook.
StashInv == stash # None => Entering # {}

\* A publisher that is alone on its way to the hook finds there what it left.
AloneInv ==
    \A p \in Publishers : pc[p] = "entering" /\ ~overlapped[p] =>
        /\ Entering = {p}
        /\ ctx[p] # None => stash = [span |-> ctx[p]]
        /\ ctx[p] = None => stash = None \/ stash.span = None

PublishInv == PublishTypeOK /\ StashInv /\ AloneInv /\ OwnContextUnlessOverlapped

LEMMA PublishInit == Init => PublishInv
BY DEF Init, PublishInv, PublishTypeOK, StashInv, AloneInv, OwnContextUnlessOverlapped

\* A publish begins: it overlaps with the ones that are on their way already.
LEMMA BeginKeeps ==
    ASSUME PublishInv, NEW p \in Publishers, NEW c \in {CtxSpan(p), None}, Begin(p),
           ctx' = [ctx EXCEPT ![p] = c], UNCHANGED <<hasGls, parent>>,
           \/ stash' = [span |-> c]
           \/ stash' = stash /\ c = None
    PROVE  PublishInv'
<1> USE DEF PublishInv
<1>1. c \in SpanNames \cup {None} /\ pc[p] = "idle"
    BY DEF CtxSpan, SpanNames, Begin
<1>2. /\ pc' \in [Publishers -> {"idle", "entering", "sending"}] /\ pc'[p] = "entering"
      /\ \A q \in Publishers : q # p => pc'[q] = pc[q]
    BY DEF Begin, PublishTypeOK
<1>3. /\ ctx' \in [Publishers -> SpanNames \cup {None}] /\ ctx'[p] = c
      /\ \A q \in Publishers : q # p => ctx'[q] = ctx[q]
    BY <1>1 DEF PublishTypeOK
<1>4. Entering' = Entering \cup {p}
    BY <1>2 DEF Entering
<1>5. /\ overlapped' \in [Publishers -> BOOLEAN] /\ overlapped'[p] = (Entering # {})
      /\ \A q \in Publishers : q # p => overlapped'[q] = (overlapped[q] \/ q \in Entering)
    BY DEF Begin, PublishTypeOK
<1>6. PublishTypeOK' /\ StashInv'
    BY <1>2, <1>3, <1>4, <1>5 DEF PublishTypeOK, StashInv
<1>7. AloneInv'
    <2>1. ASSUME NEW q \in Publishers, pc'[q] = "entering", ~overlapped'[q]
          PROVE  /\ Entering' = {q}
                 /\ ctx'[q] # None => stash' = [span |-> ctx'[q]]
                 /\ ctx'[q] = None => stash' = None \/ stash'.span = None
        <3>1. q = p
            BY <1>2, <1>5, <2>1 DEF Entering
        <3>2. Entering = {}
            BY <1>5, <2>1, <3>1
        <3>3. stash = None
            BY <3>2 DEF StashInv
        <3>4. QED
            BY <1>3, <1>4, <3>1, <3>2, <3>3
    <2>2. QED
        BY <2>1 DEF AloneInv
<1>8. OwnContextUnlessOverlapped'
    <2>1. ASSUME NEW q \in Publishers, pc'[q] = "sending", ~overlapped'[q]
          PROVE  parent'[q] = Wanted(q)'
        <3>1. q # p /\ pc[q] = "sending"
            BY <1>2, <2>1
        <3>2. ~overlapped[q]
            BY <1>5, <2>1, <3>1
        <3>3. parent[q] = Wanted(q)
            BY <3>1, <3>2 DEF OwnContextUnlessOverlapped
        <3>4. QED
            BY <1>3, <3>1, <3>3 DEF Wanted, Fallback
    <2>2. QED
        BY <2>1 DEF OwnContextUnlessOverlapped
<1>9. QED
    BY <1>6, <1>7, <1>8

\* otelcAMQPParentContext keeps the invariant.
LEMMA ParentContextKeepsInv ==
    ASSUME PublishInv, NEW p \in Publishers, ParentContext(p) PROVE PublishInv'
<1> USE DEF PublishInv
<1>1. PICK from : from = IF stash # None /\ stash.span # None THEN stash.span ELSE Fallback(p)
    OBVIOUS
<1>2. /\ pc' \in [Publishers -> {"idle", "entering", "sending"}] /\ pc'[p] = "sending"
      /\ \A q \in Publishers : q # p => pc'[q] = pc[q]
    BY DEF ParentContext, PublishTypeOK
<1>3. /\ pc[p] = "entering" /\ stash' = None
      /\ UNCHANGED <<ctx, hasGls, overlapped>> /\ parent' = [parent EXCEPT ![p] = from]
    BY <1>1 DEF ParentContext
<1>4. from \in SpanNames \cup {None}
    <2>1. Fallback(p) \in SpanNames \cup {None}
        BY DEF Fallback, GlsSpan, SpanNames
    <2>2. stash # None => stash.span \in SpanNames \cup {None}
        BY DEF PublishTypeOK
    <2>3. QED
        BY <1>1, <2>1, <2>2
<1>5. PublishTypeOK' /\ parent'[p] = from /\ \A q \in Publishers : q # p => parent'[q] = parent[q]
    BY <1>2, <1>3, <1>4 DEF PublishTypeOK
<1>6. StashInv'
    BY <1>3 DEF StashInv
<1>7. AloneInv'
    <2>1. ASSUME NEW q \in Publishers, pc'[q] = "entering", ~overlapped'[q] PROVE FALSE
        <3>1. q # p /\ pc[q] = "entering" /\ ~overlapped[q]
            BY <1>2, <1>3, <2>1
        <3>2. Entering = {q} /\ p \in Entering
            BY <1>3, <3>1 DEF AloneInv, Entering
        <3>3. QED
            BY <3>1, <3>2
    <2>2. QED
        BY <2>1 DEF AloneInv
<1>8. OwnContextUnlessOverlapped'
    <2>1. ~overlapped[p] => from = Wanted(p)
        <3>1. ASSUME ~overlapped[p], ctx[p] # None PROVE from = ctx[p]
            <4>1. stash = [span |-> ctx[p]] /\ ctx[p] \in SpanNames
                BY <1>3, <3>1 DEF AloneInv, PublishTypeOK
            <4>2. stash # None /\ stash.span = ctx[p]
                BY <4>1, PublishAssumption
            <4>3. QED
                BY <1>1, <3>1, <4>2
        <3>2. ASSUME ~overlapped[p], ctx[p] = None PROVE from = Fallback(p)
            BY <1>1, <1>3, <3>2 DEF AloneInv
        <3>3. QED
            BY <3>1, <3>2 DEF Wanted
    <2>2. ASSUME NEW q \in Publishers, pc'[q] = "sending", ~overlapped'[q]
          PROVE  parent'[q] = Wanted(q)
        BY <1>2, <1>3, <1>5, <2>1, <2>2 DEF OwnContextUnlessOverlapped
    <2>3. QED
        BY <1>3, <2>2 DEF OwnContextUnlessOverlapped, Wanted, Fallback
<1>9. QED
    BY <1>5, <1>6, <1>7, <1>8

\* The end of the producer span keeps it.
LEMMA SentKeeps ==
    ASSUME PublishInv, NEW p \in Publishers, Sent(p) PROVE PublishInv'
<1> USE DEF PublishInv
<1>1. /\ pc[p] = "sending" /\ pc'[p] = "idle"
      /\ pc' \in [Publishers -> {"idle", "entering", "sending"}]
      /\ \A q \in Publishers : q # p => pc'[q] = pc[q]
    BY DEF Sent, PublishTypeOK
<1>2. /\ UNCHANGED <<hasGls, stash>>
      /\ \A q \in Publishers : q # p => /\ ctx'[q] = ctx[q] /\ parent'[q] = parent[q]
                                        /\ overlapped'[q] = overlapped[q]
    BY DEF Sent, PublishTypeOK
<1>3. PublishTypeOK'
    BY <1>1, <1>2 DEF PublishTypeOK, Sent
<1>4. Entering' = Entering
    BY <1>1 DEF Entering
<1>5. StashInv' /\ AloneInv'
    BY <1>1, <1>2, <1>4 DEF StashInv, AloneInv
<1>6. OwnContextUnlessOverlapped'
    BY <1>1, <1>2 DEF OwnContextUnlessOverlapped, Wanted, Fallback
<1>7. QED
    BY <1>3, <1>5, <1>6

LEMMA PublishNext == PublishInv /\ (Next \/ UNCHANGED vars) => PublishInv'
<1> SUFFICES ASSUME PublishInv, Next \/ UNCHANGED vars PROVE PublishInv'
    OBVIOUS
<1>1. ASSUME NEW p \in Publishers, NEW c \in {CtxSpan(p), None}, PublishWithContext(p, c)
      PROVE  PublishInv'
    BY <1>1, BeginKeeps DEF PublishWithContext
<1>2. ASSUME NEW p \in Publishers, Publish(p) PROVE PublishInv'
    BY <1>2, BeginKeeps DEF Publish
<1>3. CASE UNCHANGED vars
    BY <1>3 DEF vars, PublishInv, PublishTypeOK, StashInv, AloneInv, Entering,
       OwnContextUnlessOverlapped, Wanted, Fallback
<1>4. QED
    BY <1>1, <1>2, <1>3, ParentContextKeepsInv, SentKeeps DEF Next

\* otelcAMQPPublishParents and otelcAMQPParentContext: a publish that overlaps with no
\* other on its way to the hook has its own context's span, or else its goroutine's
\* own, as the parent of its producer span.
THEOREM OwnContext == MessagingSpec => []OwnContextUnlessOverlapped
<1>1. MessagingInit => PublishInv
    BY PublishInit DEF MessagingInit
<1>2. PublishInv /\ [MessagingNext]_<<hooks, vars, kafkaVars, asyncVars, deliverVars>> => PublishInv'
    <2>1. MessagingNext \/ UNCHANGED <<hooks, vars, kafkaVars, asyncVars, deliverVars>>
              => Next \/ UNCHANGED vars
        BY DEF MessagingNext
    <2>2. QED
        BY <2>1, PublishNext
<1>3. PublishInv => OwnContextUnlessOverlapped
    BY DEF PublishInv
<1>4. QED
    BY <1>1, <1>2, <1>3, PTL DEF MessagingSpec

-----------------------------------------------------------------------------
(* SkyWalking: the queue a delivery's span names.                           *)

Reals == [ch : Channels, queue : Queues, tag : Tags \cup {Deliver!NoTag}]
Autos(k) == {Deliver!Auto(n) : n \in 1..k}
NamedTags == {Deliver!Named(t) : t \in Tags}

\* Consume calls that leave the tag to the library.
Untagged == {g \in Goroutines : calls[g] # Deliver!Idle /\ calls[g].tag = Deliver!NoTag}

DeliverTypeOK ==
    /\ swSeq \in Nat /\ libSeq \in Nat /\ consumes \in 0..MaxConsumes
    /\ DOMAIN subs = Channels
    /\ calls \in [Goroutines -> Reals \cup {Deliver!Idle}]
    /\ skewed \in BOOLEAN

\* Made-up tags are numbered, and while the sequences are in step the hook's is
\* ahead exactly by the one call that is under way.
SeqInv ==
    /\ IsFiniteSet(Untagged)
    /\ libSeq + Cardinality(Untagged) <= consumes
    /\ ~skewed => /\ \A g, h \in Untagged : g = h
                  /\ swSeq = IF Untagged = {} THEN libSeq ELSE libSeq + 1
    /\ \A c \in Channels : DOMAIN subs[c] \subseteq Autos(libSeq) \cup NamedTags

\* The map gives q for the tag, or the tag is one of those the map is not good for.
Excused(tag) == tag \in clashed \/ (skewed /\ tag \in Autos(MaxConsumes))
Gives(tag, q) == Deliver!swConsumerQueue(tag) = q \/ Excused(tag)

\* It does so for the consumers there are, and for those that Consume calls may
\* still make.
NameInv ==
    /\ \A c \in Channels \ closing : \A tag \in DOMAIN subs[c] : Gives(tag, subs[c][tag])
    /\ \A g \in Goroutines : calls[g] # Deliver!Idle =>
          Gives(Deliver!LibraryTag(calls[g].tag), calls[g].queue)

DeliverInv == DeliverTypeOK /\ SeqInv /\ NameInv /\ DeliveryNamesItsQueue

\* And for the deliveries that have yet to read it, unless it was filled again since.
IsDelivery(d) == d = [tag |-> d.tag, from |-> d.from, overtaken |-> d.overtaken]
SendingInv ==
    /\ DOMAIN sending = Channels
    /\ \A c \in Channels :
          /\ IsDelivery(sending[c])
          /\ sending[c] # Deliver!NoDelivery =>
                /\ sending[c].tag \in Autos(libSeq) \cup NamedTags
                /\ sending[c].overtaken \/ c \in closing \/ Gives(sending[c].tag, sending[c].from)

\* Two consumers with one tag have clashed: those there are, those that calls ask for,
\* and those of deliveries under way, which the map is still about.
Has(c, tag) == tag \in DOMAIN subs[c]
Asks(g, tag) ==
    /\ calls[g] # Deliver!Idle /\ calls[g].tag # Deliver!NoTag
    /\ Deliver!Named(calls[g].tag) = tag
Delivers(c, tag) ==
    /\ sending[c] # Deliver!NoDelivery /\ ~sending[c].overtaken
    /\ sending[c].tag = tag
HolderInv ==
    /\ \A c, d \in Channels : \A t : c # d /\ Has(c, t) /\ Has(d, t) => t \in clashed
    /\ \A c \in Channels, g \in Goroutines : \A t : Has(c, t) /\ Asks(g, t) => t \in clashed
    /\ \A g, h \in Goroutines : \A t : g # h /\ Asks(g, t) /\ Asks(h, t) => t \in clashed
    /\ \A c, d \in Channels : \A t : c # d /\ Delivers(c, t) /\ Has(d, t) => t \in clashed
    /\ \A c \in Channels, g \in Goroutines : \A t :
          Delivers(c, t) /\ Asks(g, t) => t \in clashed

DeliveriesInv == DeliverInv /\ SendingInv /\ HolderInv

LEMMA ConsumesAreBounded == MaxConsumes \in Nat
BY QueueAssumption

LEMMA TagsDiffer ==
    /\ \A n, m : Deliver!Auto(n) = Deliver!Auto(m) => n = m
    /\ \A t, u : Deliver!Named(t) = Deliver!Named(u) => t = u
    /\ \A n, t : Deliver!Auto(n) # Deliver!Named(t)
BY DEF Deliver!Auto, Deliver!Named

LEMMA DeliverInit == Deliver!Init => DeliverInv
<1> SUFFICES ASSUME Deliver!Init PROVE DeliverInv
    OBVIOUS
<1> USE DEF Deliver!Init
<1>1. DeliverTypeOK
    <2>1. swSeq \in Nat /\ libSeq \in Nat /\ consumes \in 0..MaxConsumes
        BY ConsumesAreBounded
    <2>2. skewed \in BOOLEAN /\ DOMAIN subs = Channels
        OBVIOUS
    <2>3. calls \in [Goroutines -> Reals \cup {Deliver!Idle}]
        OBVIOUS
    <2>4. QED
        BY <2>1, <2>2, <2>3 DEF DeliverTypeOK
<1>2. Untagged = {}
    BY DEF Untagged
<1>3. IsFiniteSet({}) /\ Cardinality({}) = 0
    BY FS_EmptySet
<1>4. \A c \in Channels : DOMAIN subs[c] = {}
    OBVIOUS
<1>5. SeqInv
    BY <1>2, <1>3, <1>4 DEF SeqInv
<1>6. NameInv
    BY <1>4 DEF NameInv
<1>7. DeliveryNamesItsQueue
    BY DEF DeliveryNamesItsQueue, Deliver!DeliveryNamesItsQueue, Deliver!NoSpan
<1>8. QED
    BY <1>1, <1>5, <1>6, <1>7 DEF DeliverInv

\* An idle goroutine makes no call.
LEMMA IdleIsNoCall == Deliver!Idle \notin Reals
BY QueueAssumption DEF Reals, Deliver!Idle, Deliver!NoQueue

\* Once out of step, the tag that an untagged call will get is excused.
UntaggedExcused == skewed => \A g \in Untagged : Excused(Deliver!LibraryTag(calls[g].tag))

LEMMA UntaggedIsExcused == DeliverTypeOK /\ SeqInv => UntaggedExcused
<1> SUFFICES ASSUME DeliverTypeOK, SeqInv, skewed, NEW g \in Untagged
             PROVE  Excused(Deliver!LibraryTag(calls[g].tag))
    BY DEF UntaggedExcused
<1>1. Cardinality(Untagged) \in Nat /\ Cardinality(Untagged) # 0
    BY FS_CardinalityType, FS_EmptySet DEF SeqInv
<1>2. libSeq + 1 \in 1..MaxConsumes
    <2>1. /\ libSeq \in Nat /\ consumes \in Nat /\ consumes <= MaxConsumes /\ MaxConsumes \in Nat
          /\ libSeq + Cardinality(Untagged) <= consumes
        BY ConsumesAreBounded DEF SeqInv, DeliverTypeOK
    <2>2. QED
        BY <1>1, <2>1
<1>3. Deliver!LibraryTag(calls[g].tag) = Deliver!Auto(libSeq + 1)
    BY DEF Untagged, Deliver!LibraryTag
<1>4. QED
    BY <1>2, <1>3 DEF Excused, Autos

\* What the map has given, it keeps giving where a step does not touch it.
LEMMA GivesStays ==
    ASSUME NEW tag, NEW q, Gives(tag, q), clashed \subseteq clashed', skewed => skewed',
           tag \notin clashed' =>
              Deliver!swConsumerQueue(tag)' = Deliver!swConsumerQueue(tag)
    PROVE  Gives(tag, q)'
BY DEF Gives, Excused, Autos

\* And a span that was named well stays so.
LEMMA SpanStays ==
    ASSUME DeliveryNamesItsQueue, span' = span, clashed \subseteq clashed', skewed => skewed'
    PROVE  DeliveryNamesItsQueue'
BY DEF DeliveryNamesItsQueue, Deliver!DeliveryNamesItsQueue, Deliver!Auto

LEMMA ConsumeKeeps ==
    ASSUME DeliverInv, NEW g \in Goroutines, NEW ch \in Channels, NEW q \in Queues,
           NEW tag \in Tags \cup {Deliver!NoTag}, Deliver!Consume(g, ch, q, tag)
    PROVE  DeliverInv'
<1> USE DEF DeliverInv
<1>1. PICK r : r = Deliver!RegisteredTag(tag)
    OBVIOUS
<1>2. PICK c : c = [ch |-> ch, queue |-> q, tag |-> tag]
    OBVIOUS
<1>3. /\ calls[g] = Deliver!Idle /\ consumes < MaxConsumes /\ consumes' = consumes + 1
      /\ swSeq' = IF tag = Deliver!NoTag THEN swSeq + 1 ELSE swSeq
      /\ UNCHANGED <<libSeq, subs, closing, span>>
      /\ skewed' = (skewed \/ (tag = Deliver!NoTag /\ Untagged # {}))
    BY DEF Deliver!Consume, Untagged
<1>4. /\ c \in Reals /\ c # Deliver!Idle /\ c.tag = tag /\ c.queue = q
    BY <1>2, IdleIsNoCall DEF Reals
<1>5. /\ calls' \in [Goroutines -> Reals \cup {Deliver!Idle}] /\ calls'[g] = c
      /\ \A h \in Goroutines : h # g => calls'[h] = calls[h]
    BY <1>2, <1>4 DEF Deliver!Consume, DeliverTypeOK
<1>6. /\ clashed \subseteq clashed' /\ (Deliver!InUse(r, Channels) => r \in clashed')
      /\ Deliver!swConsumerQueue(r)' = q
      /\ \A t : t # r => Deliver!swConsumerQueue(t)' = Deliver!swConsumerQueue(t)
    BY <1>1 DEF Deliver!Consume, Deliver!swRegisterConsumerQueue, Deliver!swConsumerQueue
<1>7. DeliverTypeOK'
    <2>1. consumes' \in 0..MaxConsumes /\ swSeq' \in Nat /\ libSeq' \in Nat
        BY <1>3, ConsumesAreBounded DEF DeliverTypeOK
    <2>2. skewed' \in BOOLEAN
        BY <1>3
    <2>3. QED
        BY <1>3, <1>5, <2>1, <2>2 DEF DeliverTypeOK
<1>8. Untagged' = IF tag = Deliver!NoTag THEN Untagged \cup {g} ELSE Untagged
    BY <1>3, <1>4, <1>5 DEF Untagged
<1>9. g \notin Untagged
    BY <1>3 DEF Untagged
<1>10. SeqInv'
    <2>1. /\ IsFiniteSet(Untagged') /\ Cardinality(Untagged) \in Nat
          /\ Cardinality(Untagged') <= Cardinality(Untagged) + 1 /\ Cardinality(Untagged') \in Nat
        <3>1. IsFiniteSet(Untagged) /\ Cardinality(Untagged) \in Nat
            BY FS_CardinalityType DEF SeqInv
        <3>2. /\ IsFiniteSet(Untagged \cup {g})
              /\ Cardinality(Untagged \cup {g}) = Cardinality(Untagged) + 1
            BY <1>9, <3>1, FS_AddElement
        <3>3. QED
            BY <1>8, <3>1, <3>2
    <2>2. libSeq' + Cardinality(Untagged') <= consumes'
        BY <1>3, <2>1 DEF SeqInv, DeliverTypeOK
    <2>3. ~skewed' => /\ \A x, y \in Untagged' : x = y
                      /\ swSeq' = IF Untagged' = {} THEN libSeq' ELSE libSeq' + 1
        <3>1. CASE tag = Deliver!NoTag
            BY <1>3, <1>8, <3>1 DEF SeqInv
        <3>2. CASE tag # Deliver!NoTag
            BY <1>3, <1>8, <3>2 DEF SeqInv
        <3>3. QED
            BY <3>1, <3>2
    <2>4. QED
        BY <1>3, <2>1, <2>2, <2>3 DEF SeqInv, Autos, NamedTags, Deliver!Auto, Deliver!Named
<1>11. NameInv'
    <2>1. ASSUME NEW d \in Channels \ closing, NEW t \in DOMAIN subs[d]
          PROVE  Gives(t, subs[d][t])'
        <3>1. PICK x : x = subs[d][t] /\ Gives(t, x)
            BY DEF NameInv
        <3>2. t = r => t \in clashed'
            BY <1>6 DEF Deliver!InUse
        <3>3. Gives(t, x)'
            BY <1>3, <1>6, <3>1, <3>2, GivesStays
        <3>4. QED
            BY <1>3, <3>1, <3>3
    <2>2. ASSUME NEW h \in Goroutines, calls'[h] # Deliver!Idle
          PROVE  Gives(Deliver!LibraryTag(calls[h].tag), calls[h].queue)'
        <3>1. PICK t, x, y : /\ t = Deliver!LibraryTag(y) /\ x = calls'[h].queue /\ y = calls'[h].tag
            OBVIOUS
        <3>2. t = Deliver!LibraryTag(y)'
            BY <1>3, <3>1 DEF Deliver!LibraryTag
        <3>3. h \in Untagged' /\ skewed' => Gives(t, x)'
            <4>1. UntaggedExcused'
                BY <1>7, <1>10, UntaggedIsExcused, PTL
            <4>2. QED
                BY <3>1, <3>2, <4>1 DEF Gives, UntaggedExcused
        <3>4. ASSUME h = g, tag # Deliver!NoTag \/ ~skewed' PROVE Gives(t, x)'
            <4>1. t = r
                BY <1>1, <1>3, <1>4, <1>5, <3>1, <3>4
                DEF Deliver!LibraryTag, Deliver!RegisteredTag, SeqInv
            <4>2. QED
                BY <1>4, <1>5, <1>6, <3>1, <3>4, <4>1 DEF Gives
        <3>5. ASSUME h # g, y # Deliver!NoTag \/ ~skewed' PROVE Gives(t, x)'
            <4>1. /\ y = calls[h].tag /\ x = calls[h].queue /\ calls[h] # Deliver!Idle
                  /\ Gives(t, x)
                BY <1>5, <2>2, <3>1, <3>5 DEF NameInv
            <4>2. t = r => t \in clashed'
                <5>1. ASSUME t = r PROVE y # Deliver!NoTag /\ t = Deliver!Named(y)
                    <6>1. y = Deliver!NoTag => tag = Deliver!NoTag /\ h \in Untagged
                        BY <1>1, <3>1, <4>1, <5>1, TagsDiffer
                        DEF Deliver!LibraryTag, Deliver!RegisteredTag, Untagged
                    <6>2. y # Deliver!NoTag
                        BY <1>3, <3>5, <6>1
                    <6>3. QED
                        BY <3>1, <6>2 DEF Deliver!LibraryTag
                <5>2. QED
                    BY <1>6, <4>1, <5>1 DEF Deliver!InUse
            <4>3. QED
                BY <1>3, <1>6, <4>1, <4>2, GivesStays
        <3>6. Gives(t, x)'
            BY <1>4, <1>5, <2>2, <3>1, <3>3, <3>4, <3>5 DEF Untagged
        <3>7. QED
            BY <3>1, <3>2, <3>6
    <2>3. QED
        BY <1>3, <2>1, <2>2 DEF NameInv
<1>12. DeliveryNamesItsQueue'
    BY <1>3, <1>6, SpanStays
<1>13. QED
    BY <1>7, <1>10, <1>11, <1>12

\* A call of Consume is over, whether the library made up a tag for it or not.
LEMMA CallEnds ==
    ASSUME DeliverTypeOK, SeqInv, NEW g \in Goroutines, NEW early \in BOOLEAN,
           calls[g] # Deliver!Idle, calls' = [calls EXCEPT ![g] = Deliver!Idle],
           libSeq' = IF calls[g].tag = Deliver!NoTag /\ ~early THEN libSeq + 1 ELSE libSeq,
           skewed' = (skewed \/ (calls[g].tag = Deliver!NoTag /\ early)),
           UNCHANGED <<swSeq, consumes>>
    PROVE  /\ DOMAIN subs' = Channels => DeliverTypeOK'
           /\ Autos(libSeq) \subseteq Autos(libSeq')
           /\ (\A c \in Channels : DOMAIN subs'[c] \subseteq Autos(libSeq') \cup NamedTags) => SeqInv'
           /\ skewed => skewed'
           /\ \A h \in Goroutines : calls'[h] # Deliver!Idle =>
                 /\ calls[h] # Deliver!Idle /\ calls'[h] = calls[h]
                 /\ \/ skewed' /\ h \in Untagged'
                    \/ Deliver!LibraryTag(calls[h].tag)' = Deliver!LibraryTag(calls[h].tag)
<1>1. /\ calls' \in [Goroutines -> Reals \cup {Deliver!Idle}] /\ calls'[g] = Deliver!Idle
      /\ \A h \in Goroutines : h # g => calls'[h] = calls[h]
    BY DEF DeliverTypeOK
<1>2. libSeq \in Nat /\ libSeq' \in Nat /\ consumes \in Nat
    BY ConsumesAreBounded DEF DeliverTypeOK
<1>3. DOMAIN subs' = Channels => DeliverTypeOK'
    BY <1>1, <1>2 DEF DeliverTypeOK
<1>4. Autos(libSeq) \subseteq Autos(libSeq')
    BY <1>2 DEF Autos
<1>5. Untagged' = Untagged \ {g} /\ (g \in Untagged <=> calls[g].tag = Deliver!NoTag)
    BY <1>1 DEF Untagged
<1>6. IsFiniteSet(Untagged) /\ Cardinality(Untagged) \in Nat
    BY FS_CardinalityType DEF SeqInv
<1>7. /\ IsFiniteSet(Untagged') /\ Cardinality(Untagged') \in Nat
      /\ Cardinality(Untagged') =
            IF g \in Untagged THEN Cardinality(Untagged) - 1 ELSE Cardinality(Untagged)
    BY <1>5, <1>6, FS_RemoveElement, FS_CardinalityType
<1>8. libSeq' + Cardinality(Untagged') <= consumes'
    <2>1. libSeq + Cardinality(Untagged) <= consumes
        BY DEF SeqInv
    <2>2. CASE g \in Untagged
        BY <1>2, <1>5, <1>6, <1>7, <2>1, <2>2
    <2>3. CASE g \notin Untagged
        BY <1>2, <1>5, <1>6, <1>7, <2>1, <2>3
    <2>4. QED
        BY <2>2, <2>3
<1>9. ~skewed' => /\ \A x, y \in Untagged' : x = y
                  /\ swSeq' = IF Untagged' = {} THEN libSeq' ELSE libSeq' + 1
    <2>1. CASE g \in Untagged
        <3>1. ~skewed' => Untagged' = {}
            BY <1>5, <2>1 DEF SeqInv
        <3>2. QED
            BY <1>5, <2>1, <3>1 DEF SeqInv
    <2>2. CASE g \notin Untagged
        BY <1>5, <2>2 DEF SeqInv
    <2>3. QED
        BY <2>1, <2>2
<1>10. ASSUME NEW h \in Goroutines, calls'[h] # Deliver!Idle
       PROVE  /\ calls[h] # Deliver!Idle /\ calls'[h] = calls[h]
              /\ \/ skewed' /\ h \in Untagged'
                 \/ Deliver!LibraryTag(calls[h].tag)' = Deliver!LibraryTag(calls[h].tag)
    <2>1. h # g /\ calls[h] # Deliver!Idle /\ calls'[h] = calls[h]
        BY <1>1, <1>10
    <2>2. CASE h \in Untagged
        <3>1. ~skewed' => libSeq' = libSeq
            BY <1>5, <2>1, <2>2 DEF SeqInv
        <3>2. QED
            BY <1>5, <2>1, <2>2, <3>1 DEF Deliver!LibraryTag
    <2>3. CASE h \notin Untagged
        BY <2>1, <2>3 DEF Untagged, Deliver!LibraryTag
    <2>4. QED
        BY <2>1, <2>2, <2>3
<1>11. skewed => skewed'
    OBVIOUS
<1>12. QED
    BY <1>3, <1>4, <1>7, <1>8, <1>9, <1>10, <1>11 DEF SeqInv

\* The other calls can still rely on the map.
LEMMA CallsKeepNames ==
    ASSUME NameInv, UntaggedExcused', NEW h \in Goroutines, calls'[h] # Deliver!Idle,
           mapping' = mapping, clashed' = clashed, skewed => skewed',
           calls[h] # Deliver!Idle, calls'[h] = calls[h],
           \/ skewed' /\ h \in Untagged'
           \/ Deliver!LibraryTag(calls[h].tag)' = Deliver!LibraryTag(calls[h].tag)
    PROVE  Gives(Deliver!LibraryTag(calls[h].tag), calls[h].queue)'
<1>1. CASE skewed' /\ h \in Untagged'
    BY <1>1 DEF UntaggedExcused, Gives
<1>2. CASE Deliver!LibraryTag(calls[h].tag)' = Deliver!LibraryTag(calls[h].tag)
    <2>1. PICK t, x : t = Deliver!LibraryTag(calls[h].tag) /\ x = calls[h].queue
        OBVIOUS
    <2>2. Gives(t, x)
        BY <2>1 DEF NameInv
    <2>3. Deliver!swConsumerQueue(t)' = Deliver!swConsumerQueue(t)
        BY DEF Deliver!swConsumerQueue
    <2>4. Gives(t, x)'
        BY <2>2, <2>3, GivesStays
    <2>5. QED
        BY <1>2, <2>1, <2>4
<1>3. QED
    BY <1>1, <1>2

\* A name that a consumer has keeps being given.
LEMMA NamesStay ==
    ASSUME NameInv, NEW d \in Channels \ closing, NEW t \in DOMAIN subs[d],
           clashed \subseteq clashed', skewed => skewed',
           t \notin clashed' => Deliver!swConsumerQueue(t)' = Deliver!swConsumerQueue(t),
           t \in DOMAIN subs'[d], subs'[d][t] = subs[d][t]
    PROVE  Gives(t, subs[d][t])'
<1>1. PICK x : x = subs[d][t] /\ Gives(t, x)
    BY DEF NameInv
<1>2. Gives(t, x)'
    BY <1>1, GivesStays
<1>3. QED
    BY <1>1, <1>2

LEMMA ConsumeAcceptedKeeps ==
    ASSUME DeliverInv, NEW g \in Goroutines, Deliver!ConsumeAccepted(g) PROVE DeliverInv'
<1> USE DEF DeliverInv
<1>1. PICK c, tag : c = calls[g] /\ tag = Deliver!LibraryTag(c.tag)
    OBVIOUS
<1>2. /\ c # Deliver!Idle /\ c.ch \notin closing
      /\ libSeq' = IF c.tag = Deliver!NoTag THEN libSeq + 1 ELSE libSeq
      /\ calls' = [calls EXCEPT ![g] = Deliver!Idle]
      /\ UNCHANGED <<mapping, swSeq, closing, consumes, span, clashed, skewed>>
    BY <1>1 DEF Deliver!ConsumeAccepted
<1>3. c \in Reals /\ c.ch \in Channels /\ c.tag \in Tags \cup {Deliver!NoTag}
    BY <1>1, <1>2 DEF DeliverTypeOK, Reals
<1>4. /\ DOMAIN subs' = Channels
      /\ DOMAIN subs'[c.ch] = DOMAIN subs[c.ch] \cup {tag} /\ subs'[c.ch][tag] = c.queue
      /\ \A t \in DOMAIN subs[c.ch] : t # tag => subs'[c.ch][t] = subs[c.ch][t]
      /\ \A d \in Channels : d # c.ch => subs'[d] = subs[d]
    BY <1>1, <1>3 DEF Deliver!ConsumeAccepted, Deliver!Subscribed, DeliverTypeOK
<1>5. tag \in Autos(libSeq') \cup NamedTags
    <2>1. libSeq \in Nat
        BY DEF DeliverTypeOK
    <2>2. CASE c.tag = Deliver!NoTag
        BY <1>1, <1>2, <2>1, <2>2 DEF Deliver!LibraryTag, Autos
    <2>3. CASE c.tag # Deliver!NoTag
        BY <1>1, <1>3, <2>3 DEF Deliver!LibraryTag, NamedTags
    <2>4. QED
        BY <2>2, <2>3
<1>6. /\ DOMAIN subs' = Channels => DeliverTypeOK'
      /\ Autos(libSeq) \subseteq Autos(libSeq')
      /\ (\A d \in Channels : DOMAIN subs'[d] \subseteq Autos(libSeq') \cup NamedTags) => SeqInv'
      /\ \A h \in Goroutines : calls'[h] # Deliver!Idle =>
            /\ calls[h] # Deliver!Idle /\ calls'[h] = calls[h]
            /\ \/ skewed' /\ h \in Untagged'
               \/ Deliver!LibraryTag(calls[h].tag)' = Deliver!LibraryTag(calls[h].tag)
    <2>1. PICK early \in BOOLEAN : ~early
        OBVIOUS
    <2>2. /\ libSeq' = IF calls[g].tag = Deliver!NoTag /\ ~early THEN libSeq + 1 ELSE libSeq
          /\ skewed' = (skewed \/ (calls[g].tag = Deliver!NoTag /\ early))
        <3>1. (calls[g].tag = Deliver!NoTag /\ early) = FALSE
            BY <2>1
        <3>2. skewed' = (skewed \/ (calls[g].tag = Deliver!NoTag /\ early))
            BY <1>2, <3>1 DEF DeliverTypeOK
        <3>3. QED
            BY <1>1, <1>2, <2>1, <3>2
    <2>3. QED
        BY <1>1, <1>2, <2>2, CallEnds
<1>7. \A d \in Channels : DOMAIN subs'[d] \subseteq Autos(libSeq') \cup NamedTags
    BY <1>4, <1>5, <1>6 DEF SeqInv
<1>8. DeliverTypeOK' /\ SeqInv'
    BY <1>4, <1>6, <1>7
<1>9. UntaggedExcused'
    BY <1>8, UntaggedIsExcused, PTL
<1>10. NameInv'
    <2>1. ASSUME NEW d \in Channels \ closing, NEW t \in DOMAIN subs'[d]
          PROVE  Gives(t, subs[d][t])'
        <3>1. CASE d = c.ch /\ t = tag
            <4>1. PICK x : x = c.queue
                OBVIOUS
            <4>2. Gives(t, x)
                BY <1>1, <1>2, <3>1, <4>1 DEF NameInv
            <4>3. Deliver!swConsumerQueue(t)' = Deliver!swConsumerQueue(t)
                BY <1>2 DEF Deliver!swConsumerQueue
            <4>4. Gives(t, x)'
                BY <1>2, <4>2, <4>3, GivesStays
            <4>5. QED
                BY <1>4, <3>1, <4>1, <4>4
        <3>2. CASE d # c.ch \/ t # tag
            <4>1. t \in DOMAIN subs[d] /\ subs'[d][t] = subs[d][t]
                BY <1>4, <3>2
            <4>2. Deliver!swConsumerQueue(t)' = Deliver!swConsumerQueue(t)
                BY <1>2 DEF Deliver!swConsumerQueue
            <4>3. QED
                BY <1>2, <4>1, <4>2, NamesStay
        <3>3. QED
            BY <3>1, <3>2
    <2>2. ASSUME NEW h \in Goroutines, calls'[h] # Deliver!Idle
          PROVE  Gives(Deliver!LibraryTag(calls[h].tag), calls[h].queue)'
        BY <1>2, <1>6, <1>9, <2>2, CallsKeepNames
    <2>3. QED
        BY <1>2, <2>1, <2>2 DEF NameInv
<1>11. DeliveryNamesItsQueue'
    BY <1>2, SpanStays
<1>12. QED
    BY <1>8, <1>10, <1>11

LEMMA ConsumeFailedKeeps ==
    ASSUME DeliverInv, NEW g \in Goroutines, NEW early \in BOOLEAN,
           Deliver!ConsumeFailed(g, early)
    PROVE  DeliverInv'
<1> USE DEF DeliverInv
<1>1. /\ calls[g] # Deliver!Idle
      /\ libSeq' = IF calls[g].tag = Deliver!NoTag /\ ~early THEN libSeq + 1 ELSE libSeq
      /\ skewed' = (skewed \/ (calls[g].tag = Deliver!NoTag /\ early))
      /\ calls' = [calls EXCEPT ![g] = Deliver!Idle]
      /\ UNCHANGED <<mapping, swSeq, subs, closing, consumes, span, clashed>>
    BY DEF Deliver!ConsumeFailed
<1>2. /\ DOMAIN subs' = Channels => DeliverTypeOK'
      /\ Autos(libSeq) \subseteq Autos(libSeq')
      /\ (\A d \in Channels : DOMAIN subs'[d] \subseteq Autos(libSeq') \cup NamedTags) => SeqInv'
      /\ skewed => skewed'
      /\ \A h \in Goroutines : calls'[h] # Deliver!Idle =>
            /\ calls[h] # Deliver!Idle /\ calls'[h] = calls[h]
            /\ \/ skewed' /\ h \in Untagged'
               \/ Deliver!LibraryTag(calls[h].tag)' = Deliver!LibraryTag(calls[h].tag)
    BY <1>1, CallEnds
<1>3. \A d \in Channels : DOMAIN subs'[d] \subseteq Autos(libSeq') \cup NamedTags
    BY <1>1, <1>2 DEF SeqInv
<1>4. DeliverTypeOK' /\ SeqInv'
    BY <1>1, <1>2, <1>3 DEF DeliverTypeOK
<1>5. UntaggedExcused'
    BY <1>4, UntaggedIsExcused, PTL
<1>6. NameInv'
    <2>1. ASSUME NEW d \in Channels \ closing, NEW t \in DOMAIN subs[d]
          PROVE  Gives(t, subs[d][t])'
        <3>1. Deliver!swConsumerQueue(t)' = Deliver!swConsumerQueue(t)
            BY <1>1 DEF Deliver!swConsumerQueue
        <3>2. QED
            BY <1>1, <1>2, <3>1, NamesStay
    <2>2. ASSUME NEW h \in Goroutines, calls'[h] # Deliver!Idle
          PROVE  Gives(Deliver!LibraryTag(calls[h].tag), calls[h].queue)'
        BY <1>1, <1>2, <1>5, <2>2, CallsKeepNames
    <2>3. QED
        BY <1>1, <2>1, <2>2 DEF NameInv
<1>7. DeliveryNamesItsQueue'
    BY <1>1, <1>2, SpanStays
<1>8. QED
    BY <1>4, <1>6, <1>7

LEMMA ConsumeWithContextKeeps ==
    ASSUME DeliverInv, NEW ch \in Channels, NEW q \in Queues, Deliver!ConsumeWithContext(ch, q)
    PROVE  DeliverInv'
<1> USE DEF DeliverInv
<1>1. PICK tag : tag = Deliver!Auto(libSeq + 1)
    OBVIOUS
<1>2. /\ consumes < MaxConsumes /\ ch \notin closing /\ consumes' = consumes + 1
      /\ libSeq' = libSeq + 1 /\ skewed' = TRUE
      /\ UNCHANGED <<mapping, swSeq, closing, calls, span, clashed>>
    BY DEF Deliver!ConsumeWithContext
<1>3. /\ DOMAIN subs' = Channels
      /\ DOMAIN subs'[ch] = DOMAIN subs[ch] \cup {tag}
      /\ \A t \in DOMAIN subs[ch] : t # tag => subs'[ch][t] = subs[ch][t]
      /\ \A d \in Channels : d # ch => subs'[d] = subs[d]
    BY <1>1 DEF Deliver!ConsumeWithContext, Deliver!Subscribed, DeliverTypeOK
<1>4. /\ libSeq \in Nat /\ libSeq' \in Nat /\ consumes' \in 0..MaxConsumes /\ consumes \in Nat
    BY <1>2, ConsumesAreBounded DEF DeliverTypeOK
<1>5. DeliverTypeOK'
    BY <1>2, <1>3, <1>4 DEF DeliverTypeOK
<1>6. Untagged' = Untagged /\ IsFiniteSet(Untagged) /\ Cardinality(Untagged) \in Nat
    BY <1>2, FS_CardinalityType DEF Untagged, SeqInv
<1>7. libSeq' + Cardinality(Untagged') <= consumes'
    <2>1. libSeq + Cardinality(Untagged) <= consumes
        BY DEF SeqInv
    <2>2. QED
        BY <1>2, <1>4, <1>6, <2>1
<1>8. tag \in Autos(libSeq') /\ Autos(libSeq) \subseteq Autos(libSeq')
    BY <1>1, <1>2, <1>4 DEF Autos
<1>9. SeqInv'
    <2>1. \A d \in Channels : DOMAIN subs'[d] \subseteq Autos(libSeq') \cup NamedTags
        BY <1>3, <1>8 DEF SeqInv
    <2>2. QED
        BY <1>2, <1>6, <1>7, <2>1 DEF SeqInv
<1>10. UntaggedExcused'
    BY <1>5, <1>9, UntaggedIsExcused, PTL
<1>11. tag \in Autos(MaxConsumes)
    <2>1. libSeq' \in 1..MaxConsumes
        <3>1. libSeq' <= consumes' /\ consumes' <= MaxConsumes
            BY <1>4, <1>6, <1>7
        <3>2. QED
            BY <1>2, <1>4, <3>1, ConsumesAreBounded
    <2>2. QED
        BY <1>1, <1>2, <2>1 DEF Autos
<1>12. NameInv'
    <2>1. ASSUME NEW d \in Channels \ closing, NEW t \in DOMAIN subs'[d]
          PROVE  Gives(t, subs[d][t])'
        <3>1. CASE t = tag
            BY <1>2, <1>11, <3>1 DEF Gives, Excused, Autos
        <3>2. CASE t # tag
            <4>1. t \in DOMAIN subs[d] /\ subs'[d][t] = subs[d][t]
                BY <1>3, <3>2
            <4>2. Deliver!swConsumerQueue(t)' = Deliver!swConsumerQueue(t)
                BY <1>2 DEF Deliver!swConsumerQueue
            <4>3. QED
                BY <1>2, <4>1, <4>2, NamesStay
        <3>3. QED
            BY <3>1, <3>2
    <2>2. ASSUME NEW h \in Goroutines, calls'[h] # Deliver!Idle
          PROVE  Gives(Deliver!LibraryTag(calls[h].tag), calls[h].queue)'
        <3>1. /\ calls[h] # Deliver!Idle /\ calls'[h] = calls[h]
              /\ \/ skewed' /\ h \in Untagged'
                 \/ Deliver!LibraryTag(calls[h].tag)' = Deliver!LibraryTag(calls[h].tag)
            BY <1>2, <1>6, <2>2 DEF Untagged, Deliver!LibraryTag
        <3>2. QED
            BY <1>2, <1>10, <2>2, <3>1, CallsKeepNames
    <2>3. QED
        BY <1>2, <2>1, <2>2 DEF NameInv
<1>13. DeliveryNamesItsQueue'
    BY <1>2, SpanStays
<1>14. QED
    BY <1>5, <1>9, <1>12, <1>13

\* Consumers that go leave the others as they are.
LEMMA ConsumersGo ==
    ASSUME DeliverInv, DOMAIN subs' = Channels,
           \A d \in Channels : /\ DOMAIN subs'[d] \subseteq DOMAIN subs[d]
                               /\ \A t \in DOMAIN subs'[d] : subs'[d][t] = subs[d][t],
           UNCHANGED <<mapping, swSeq, libSeq, closing, calls, consumes, clashed, skewed>>
    PROVE  DeliverTypeOK' /\ SeqInv' /\ NameInv'
<1> USE DEF DeliverInv
<1>1. DeliverTypeOK'
    BY DEF DeliverTypeOK
<1>2. SeqInv'
    <2>1. Untagged' = Untagged /\ Autos(libSeq)' = Autos(libSeq) /\ NamedTags' = NamedTags
        BY DEF Untagged, Autos
    <2>2. QED
        BY <2>1 DEF SeqInv
<1>3. NameInv'
    <2>1. ASSUME NEW d \in Channels \ closing, NEW t \in DOMAIN subs'[d]
          PROVE  Gives(t, subs[d][t])'
        <3>1. Deliver!swConsumerQueue(t)' = Deliver!swConsumerQueue(t)
            BY DEF Deliver!swConsumerQueue
        <3>2. QED
            BY <3>1, NamesStay
    <2>2. ASSUME NEW h \in Goroutines, calls'[h] # Deliver!Idle
          PROVE  Gives(Deliver!LibraryTag(calls[h].tag), calls[h].queue)'
        <3>1. /\ calls[h] # Deliver!Idle /\ calls'[h] = calls[h]
              /\ Deliver!LibraryTag(calls[h].tag)' = Deliver!LibraryTag(calls[h].tag)
            BY <2>2 DEF Deliver!LibraryTag
        <3>2. UntaggedExcused'
            BY <1>1, <1>2, UntaggedIsExcused, PTL
        <3>3. QED
            BY <2>2, <3>1, <3>2, CallsKeepNames
    <2>3. QED
        BY <2>1, <2>2 DEF NameInv
<1>4. QED
    BY <1>1, <1>2, <1>3

LEMMA CancelKeeps ==
    ASSUME DeliverInv, NEW ch \in Channels, NEW tag, Deliver!Cancel(ch, tag) PROVE DeliverInv'
<1>1. /\ DOMAIN subs' = Channels
      /\ \A d \in Channels : /\ DOMAIN subs'[d] \subseteq DOMAIN subs[d]
                             /\ \A t \in DOMAIN subs'[d] : subs'[d][t] = subs[d][t]
    BY DEF DeliverInv, DeliverTypeOK, Deliver!Cancel, Deliver!Restrict
<1>2. UNCHANGED <<mapping, swSeq, libSeq, closing, calls, consumes, span, clashed, skewed>>
    BY DEF Deliver!Cancel
<1>3. QED
    BY <1>1, <1>2, ConsumersGo, SpanStays DEF DeliverInv

LEMMA CloseConsumersKeeps ==
    ASSUME DeliverInv, NEW ch \in Channels, Deliver!CloseConsumers(ch) PROVE DeliverInv'
<1>1. /\ DOMAIN subs' = Channels
      /\ \A d \in Channels : /\ DOMAIN subs'[d] \subseteq DOMAIN subs[d]
                             /\ \A t \in DOMAIN subs'[d] : subs'[d][t] = subs[d][t]
    <2>1. DOMAIN subs' = Channels /\ subs'[ch] = <<>> /\ \A d \in Channels : d # ch => subs'[d] = subs[d]
        BY DEF DeliverInv, DeliverTypeOK, Deliver!CloseConsumers
    <2>2. DOMAIN subs'[ch] = {}
        BY <2>1
    <2>3. QED
        BY <2>1, <2>2
<1>2. UNCHANGED <<mapping, swSeq, libSeq, closing, calls, consumes, span, clashed, skewed>>
    BY DEF Deliver!CloseConsumers
<1>3. QED
    BY <1>1, <1>2, ConsumersGo, SpanStays DEF DeliverInv

LEMMA SendKeeps ==
    ASSUME DeliverInv, NEW ch \in Channels, NEW tag, Deliver!Send(ch, tag) PROVE DeliverInv'
<1>1. UNCHANGED <<mapping, swSeq, libSeq, subs, closing, calls, consumes, span, clashed, skewed>>
    BY DEF Deliver!Send
<1>2. /\ DOMAIN subs' = Channels
      /\ \A d \in Channels : /\ DOMAIN subs'[d] \subseteq DOMAIN subs[d]
                             /\ \A t \in DOMAIN subs'[d] : subs'[d][t] = subs[d][t]
    BY <1>1 DEF DeliverInv, DeliverTypeOK
<1>3. QED
    BY <1>1, <1>2, ConsumersGo, SpanStays DEF DeliverInv

LEMMA SendHookKeeps ==
    ASSUME DeliverInv, SendingInv, NEW ch \in Channels, Deliver!SendHook(ch) PROVE DeliverInv'
<1>1. PICK d : d = sending[ch]
    OBVIOUS
<1>2. /\ d # Deliver!NoDelivery
      /\ UNCHANGED <<mapping, swSeq, libSeq, subs, closing, calls, consumes, clashed, skewed>>
      /\ span'.tag = d.tag /\ span'.queue = Deliver!swConsumerQueue(d.tag)
      /\ span'.from = d.from /\ span'.closing = (ch \in closing)
      /\ span'.overtaken = d.overtaken
    BY <1>1 DEF Deliver!SendHook
<1>3. d.overtaken \/ ch \in closing \/ Gives(d.tag, d.from)
    BY <1>1, <1>2 DEF SendingInv
<1>4. DeliveryNamesItsQueue'
    BY <1>2, <1>3 DEF Gives, Excused, Autos, DeliveryNamesItsQueue, Deliver!DeliveryNamesItsQueue
<1>5. /\ DOMAIN subs' = Channels
      /\ \A c \in Channels : /\ DOMAIN subs'[c] \subseteq DOMAIN subs[c]
                             /\ \A t \in DOMAIN subs'[c] : subs'[c][t] = subs[c][t]
    BY <1>2 DEF DeliverInv, DeliverTypeOK
<1>6. QED
    BY <1>2, <1>4, <1>5, ConsumersGo DEF DeliverInv

LEMMA CloseHookKeeps ==
    ASSUME DeliverInv, NEW ch \in Channels, Deliver!CloseHook(ch) PROVE DeliverInv'
<1> USE DEF DeliverInv
<1>1. /\ closing' = closing \cup {ch}
      /\ UNCHANGED <<swSeq, libSeq, subs, calls, consumes, span, skewed>>
      /\ clashed' = clashed \cup {t \in DOMAIN subs[ch] : Deliver!InUse(t, Channels \ {ch})}
    BY DEF Deliver!CloseHook
<1>2. \A t : t \notin DOMAIN subs[ch] =>
                Deliver!swConsumerQueue(t)' = Deliver!swConsumerQueue(t)
    BY DEF Deliver!CloseHook, Deliver!swConsumerQueue, Deliver!Restrict
<1>3. DeliverTypeOK'
    BY <1>1 DEF DeliverTypeOK
<1>4. SeqInv'
    <2>1. Untagged' = Untagged /\ Autos(libSeq)' = Autos(libSeq) /\ NamedTags' = NamedTags
        BY <1>1 DEF Untagged, Autos
    <2>2. QED
        BY <1>1, <2>1 DEF SeqInv
<1>5. NameInv'
    <2>1. ASSUME NEW d \in Channels \ closing', NEW t \in DOMAIN subs[d]
          PROVE  Gives(t, subs[d][t])'
        <3>1. t \in DOMAIN subs[ch] => t \in clashed'
            BY <1>1 DEF Deliver!InUse
        <3>2. d \in Channels \ closing
            BY <1>1
        <3>3. QED
            BY <1>1, <1>2, <3>1, <3>2, NamesStay
    <2>2. ASSUME NEW h \in Goroutines, calls[h] # Deliver!Idle
          PROVE  Gives(Deliver!LibraryTag(calls[h].tag), calls[h].queue)'
        <3>1. PICK t, x : t = Deliver!LibraryTag(calls[h].tag) /\ x = calls[h].queue
            OBVIOUS
        <3>2. Gives(t, x)
            BY <2>2, <3>1 DEF NameInv
        <3>3. t \in DOMAIN subs[ch] => t \in clashed'
            <4>1. ASSUME t \in DOMAIN subs[ch] PROVE t = Deliver!Named(calls[h].tag)
                <5>1. t # Deliver!Auto(libSeq + 1)
                    <6>1. t \in Autos(libSeq) \cup NamedTags /\ libSeq \in Nat
                        BY <4>1 DEF SeqInv, DeliverTypeOK
                    <6>2. libSeq + 1 \notin 1..libSeq
                        BY <6>1
                    <6>3. QED
                        BY <6>1, <6>2, TagsDiffer DEF Autos, NamedTags
                <5>2. QED
                    BY <3>1, <5>1 DEF Deliver!LibraryTag
            <4>2. QED
                BY <1>1, <2>2, <4>1 DEF Deliver!InUse
        <3>4. Gives(t, x)'
            BY <1>1, <1>2, <3>2, <3>3, GivesStays
        <3>5. Deliver!LibraryTag(calls[h].tag)' = t /\ calls'[h].queue = x
            BY <1>1, <3>1 DEF Deliver!LibraryTag
        <3>6. QED
            BY <3>4, <3>5
    <2>3. QED
        BY <1>1, <2>1, <2>2 DEF NameInv
<1>6. DeliveryNamesItsQueue'
    BY <1>1, SpanStays
<1>7. QED
    BY <1>3, <1>4, <1>5, <1>6

LEMMA DeliverNext ==
    ASSUME DeliverInv, SendingInv, Deliver!Next \/ UNCHANGED deliverVars PROVE DeliverInv'
<1>1. CASE UNCHANGED deliverVars
    <2>1. UNCHANGED <<mapping, swSeq, libSeq, subs, closing, calls, consumes, span, clashed, skewed>>
        BY <1>1 DEF deliverVars
    <2>2. DOMAIN subs = Channels
        BY DEF DeliverInv, DeliverTypeOK
    <2>3. QED
        BY <2>1, <2>2, ConsumersGo, SpanStays DEF DeliverInv
<1>2. ASSUME NEW g \in Goroutines, Deliver!ConsumeAccepted(g) PROVE DeliverInv'
    BY <1>2, ConsumeAcceptedKeeps
<1>3. ASSUME NEW g \in Goroutines, NEW early \in BOOLEAN, Deliver!ConsumeFailed(g, early)
      PROVE  DeliverInv'
    BY <1>3, ConsumeFailedKeeps
<1>4. ASSUME NEW ch \in Channels, NEW q \in Queues, Deliver!ConsumeWithContext(ch, q)
      PROVE  DeliverInv'
    BY <1>4, ConsumeWithContextKeeps
<1>5. ASSUME NEW ch \in Channels, NEW tag, Deliver!Cancel(ch, tag) \/ Deliver!Send(ch, tag)
      PROVE  DeliverInv'
    BY <1>5, CancelKeeps, SendKeeps
<1>6. ASSUME NEW ch \in Channels,
             Deliver!SendHook(ch) \/ Deliver!CloseHook(ch) \/ Deliver!CloseConsumers(ch)
      PROVE  DeliverInv'
    BY <1>6, SendHookKeeps, CloseHookKeeps, CloseConsumersKeeps
<1>7. QED
    BY <1>1, <1>2, <1>3, <1>4, <1>5, <1>6, ConsumeKeeps DEF Deliver!Next

LEMMA HolderInit == Deliver!Init => SendingInv /\ HolderInv
<1> SUFFICES ASSUME Deliver!Init PROVE SendingInv /\ HolderInv
    OBVIOUS
<1>1. /\ \A c \in Channels : DOMAIN subs[c] = {} /\ sending[c] = Deliver!NoDelivery
      /\ \A g \in Goroutines : calls[g] = Deliver!Idle
      /\ DOMAIN sending = Channels
    BY DEF Deliver!Init
<1>2. IsDelivery(Deliver!NoDelivery)
    BY DEF IsDelivery, Deliver!NoDelivery
<1>3. QED
    BY <1>1, <1>2 DEF SendingInv, HolderInv, Has, Asks, Delivers

\* Nobody has, asks for or delivers with a tag who did not before.
LEMMA HoldersGo ==
    ASSUME HolderInv, clashed \subseteq clashed',
           \A c \in Channels : \A t : Has(c, t)' => Has(c, t),
           \A g \in Goroutines : \A t : Asks(g, t)' => Asks(g, t),
           \A c \in Channels : \A t : Delivers(c, t)' => Delivers(c, t)
    PROVE  HolderInv'
BY Zenon DEF HolderInv

\* A consumer is new, and whoever else has its tag has clashed with it.
LEMMA HolderComes ==
    ASSUME HolderInv, clashed' = clashed, NEW ch \in Channels, NEW tag,
           \A c \in Channels : \A t : Has(c, t)' => Has(c, t) \/ (c = ch /\ t = tag),
           \A g \in Goroutines : \A t : Asks(g, t)' => Asks(g, t),
           \A c \in Channels : \A t : Delivers(c, t)' => Delivers(c, t),
           \A c \in Channels : c # ch /\ (Has(c, tag) \/ Delivers(c, tag)) => tag \in clashed,
           \A g \in Goroutines : Asks(g, tag)' => tag \in clashed
    PROVE  HolderInv'
<1>1. ASSUME NEW c \in Channels, NEW d \in Channels, NEW t, c # d, Has(c, t)', Has(d, t)'
      PROVE  t \in clashed
    BY <1>1, Zenon DEF HolderInv
<1>2. ASSUME NEW c \in Channels, NEW g \in Goroutines, NEW t, Has(c, t)', Asks(g, t)'
      PROVE  t \in clashed
    BY <1>2, Zenon DEF HolderInv
<1>3. ASSUME NEW g \in Goroutines, NEW h \in Goroutines, NEW t, g # h, Asks(g, t)', Asks(h, t)'
      PROVE  t \in clashed
    BY <1>3, Zenon DEF HolderInv
<1>4. ASSUME NEW c \in Channels, NEW d \in Channels, NEW t, c # d, Delivers(c, t)', Has(d, t)'
      PROVE  t \in clashed
    <2>1. Delivers(c, t)
        BY <1>4
    <2>2. CASE Has(d, t)
        BY <1>4, <2>1, <2>2, Zenon DEF HolderInv
    <2>3. CASE d = ch /\ t = tag
        BY <1>4, <2>1, <2>3, Zenon
    <2>4. QED
        BY <1>4, <2>2, <2>3
<1>5. ASSUME NEW c \in Channels, NEW g \in Goroutines, NEW t, Delivers(c, t)', Asks(g, t)'
      PROVE  t \in clashed
    BY <1>5, Zenon DEF HolderInv
<1>6. QED
    BY <1>1, <1>2, <1>3, <1>4, <1>5, Zenon DEF HolderInv

\* A tag that the library makes up is nobody's yet.
LEMMA AutoIsNew ==
    ASSUME DeliverInv, SendingInv
    PROVE  /\ \A c \in Channels : /\ ~Has(c, Deliver!Auto(libSeq + 1))
                                 /\ ~Delivers(c, Deliver!Auto(libSeq + 1))
           /\ \A g \in Goroutines : ~Asks(g, Deliver!Auto(libSeq + 1))
<1>1. Deliver!Auto(libSeq + 1) \notin Autos(libSeq) \cup NamedTags
    <2>1. libSeq \in Nat
        BY DEF DeliverInv, DeliverTypeOK
    <2>2. libSeq + 1 \notin 1..libSeq
        BY <2>1
    <2>3. QED
        BY <2>2, TagsDiffer DEF Autos, NamedTags
<1>2. \A c \in Channels : ~Has(c, Deliver!Auto(libSeq + 1))
    BY <1>1 DEF DeliverInv, SeqInv, Has
<1>3. \A c \in Channels : ~Delivers(c, Deliver!Auto(libSeq + 1))
    BY <1>1 DEF SendingInv, Delivers
<1>4. \A g \in Goroutines : ~Asks(g, Deliver!Auto(libSeq + 1))
    BY TagsDiffer DEF Asks
<1>5. QED
    BY <1>2, <1>3, <1>4

\* What a delivery under way was told stays so while the map is left alone.
LEMMA SendingStays ==
    ASSUME DeliverInv, SendingInv, sending' = sending, libSeq' \in Nat, libSeq <= libSeq',
           closing \subseteq closing', clashed \subseteq clashed', skewed => skewed',
           \A c \in Channels \ closing' : \A t : Delivers(c, t) =>
              t \in clashed' \/ Deliver!swConsumerQueue(t)' = Deliver!swConsumerQueue(t)
    PROVE  SendingInv'
<1>1. Autos(libSeq) \subseteq Autos(libSeq')
    BY DEF DeliverInv, DeliverTypeOK, Autos
<1>2. ASSUME NEW c \in Channels, sending[c] # Deliver!NoDelivery, ~sending[c].overtaken,
             c \notin closing'
      PROVE  Gives(sending[c].tag, sending[c].from)'
    <2>1. PICK t, q : t = sending[c].tag /\ q = sending[c].from
        OBVIOUS
    <2>2. Gives(t, q) /\ Delivers(c, t)
        BY <1>2, <2>1 DEF SendingInv, Delivers
    <2>3. t \notin clashed' => Deliver!swConsumerQueue(t)' = Deliver!swConsumerQueue(t)
        BY <1>2, <2>2
    <2>4. Gives(t, q)'
        BY <2>2, <2>3, GivesStays
    <2>5. QED
        BY <2>1, <2>4
<1>3. NamedTags' = NamedTags
    OBVIOUS
<1>4. QED
    BY <1>1, <1>2, <1>3 DEF SendingInv

LEMMA ConsumeSends ==
    ASSUME DeliveriesInv, NEW g \in Goroutines, NEW ch \in Channels, NEW q \in Queues,
           NEW tag \in Tags \cup {Deliver!NoTag}, Deliver!Consume(g, ch, q, tag)
    PROVE  SendingInv' /\ HolderInv'
<1>1. PICK r : r = Deliver!RegisteredTag(tag)
    OBVIOUS
<1>2. PICK c : c = [ch |-> ch, queue |-> q, tag |-> tag]
    OBVIOUS
<1>3. /\ UNCHANGED <<libSeq, subs, closing>> /\ (skewed => skewed')
      /\ clashed \subseteq clashed' /\ (Deliver!InUse(r, Channels) => r \in clashed')
      /\ \A t : t # r => Deliver!swConsumerQueue(t)' = Deliver!swConsumerQueue(t)
    BY <1>1 DEF Deliver!Consume, Deliver!swRegisterConsumerQueue, Deliver!swConsumerQueue
<1>4. /\ calls'[g] = c /\ c.tag = tag /\ \A h \in Goroutines : h # g => calls'[h] = calls[h]
    BY <1>2 DEF Deliver!Consume, DeliveriesInv, DeliverInv, DeliverTypeOK
<1>5. sending' = [d \in Channels |-> [sending[d] EXCEPT !.overtaken = @ \/ sending[d].tag = r]]
    BY <1>1 DEF Deliver!Consume, Deliver!swRegisterConsumerQueue
<1>6. ASSUME NEW d \in Channels
      PROVE  /\ IsDelivery(sending'[d]) /\ sending'[d].tag = sending[d].tag
             /\ sending'[d].from = sending[d].from
             /\ sending'[d].overtaken = (sending[d].overtaken \/ sending[d].tag = r)
    <2>1. PICK x : x = sending[d] /\ IsDelivery(x)
        BY DEF DeliveriesInv, SendingInv
    <2>2. sending'[d] = [x EXCEPT !.overtaken = x.overtaken \/ x.tag = r]
        BY <1>5, <2>1
    <2>3. sending'[d] = [tag |-> x.tag, from |-> x.from, overtaken |-> x.overtaken \/ x.tag = r]
        BY <2>1, <2>2 DEF IsDelivery
    <2>4. QED
        BY <2>1, <2>3 DEF IsDelivery
\* What stands for no delivery is none of the registered tag's.
<1>7. ASSUME NEW d \in Channels, sending'[d] # Deliver!NoDelivery
      PROVE  sending[d] # Deliver!NoDelivery
    <2>1. SUFFICES ASSUME sending[d] = Deliver!NoDelivery PROVE FALSE
        OBVIOUS
    <2>2. sending[d].tag = Deliver!Auto(0) /\ sending[d].overtaken = FALSE
        BY <2>1 DEF Deliver!NoDelivery
    <2>3. r # Deliver!Auto(0)
        <3>1. swSeq \in Nat
            BY DEF DeliveriesInv, DeliverInv, DeliverTypeOK
        <3>2. swSeq + 1 # 0
            BY <3>1
        <3>3. QED
            BY <1>1, <3>2, TagsDiffer DEF Deliver!RegisteredTag
    <2>4. sending'[d].overtaken = FALSE
        BY <1>6, <2>2, <2>3
    <2>5. sending'[d] = sending[d]
        <3>1. sending'[d] = [tag |-> sending[d].tag, from |-> sending[d].from,
                             overtaken |-> sending[d].overtaken]
            BY <1>6, <2>2, <2>4 DEF IsDelivery
        <3>2. IsDelivery(sending[d])
            BY DEF DeliveriesInv, SendingInv
        <3>3. QED
            BY <3>1, <3>2 DEF IsDelivery
    <2>6. QED
        BY <1>7, <2>1, <2>5
<1>8. ASSUME NEW d \in Channels, NEW t, Delivers(d, t)'
      PROVE  Delivers(d, t) /\ t # r
    BY <1>6, <1>7, <1>8 DEF Delivers
<1>9. SendingInv'
    <2>1. ASSUME NEW d \in Channels, sending'[d] # Deliver!NoDelivery
          PROVE  /\ sending'[d].tag \in Autos(libSeq') \cup NamedTags
                 /\ \/ sending'[d].overtaken
                    \/ d \in closing'
                    \/ Gives(sending[d].tag, sending[d].from)'
        <3>1. sending[d] # Deliver!NoDelivery
            BY <1>7, <2>1
        <3>2. PICK t, x : t = sending[d].tag /\ x = sending[d].from
            OBVIOUS
        <3>3. /\ t \in Autos(libSeq) \cup NamedTags
              /\ sending[d].overtaken \/ d \in closing \/ Gives(t, x)
            BY <3>1, <3>2 DEF DeliveriesInv, SendingInv
        <3>4. t # r /\ Gives(t, x) => Gives(t, x)'
            BY <1>3, GivesStays
        <3>5. QED
            BY <1>3, <1>6, <3>2, <3>3, <3>4
    <2>2. DOMAIN sending' = Channels
        BY <1>5
    <2>3. QED
        BY <1>6, <2>1, <2>2 DEF SendingInv
<1>10. ASSUME NEW h \in Goroutines, NEW t, Asks(h, t)'
       PROVE  Asks(h, t) \/ (h = g /\ t = r)
    BY <1>1, <1>4, <1>10 DEF Asks, Deliver!RegisteredTag
<1>11. /\ \A d \in Channels : Has(d, r) => r \in clashed'
       /\ \A h \in Goroutines : Asks(h, r) => r \in clashed'
    BY <1>3 DEF Has, Asks, Deliver!InUse
<1>12. \A d \in Channels : \A t : Has(d, t)' <=> Has(d, t)
    BY <1>3 DEF Has
<1>13. HolderInv
    BY DEF DeliveriesInv
<1>14. \A d, e \in Channels : \A t : d # e /\ Has(d, t)' /\ Has(e, t)' => t \in clashed'
    BY <1>3, <1>12, <1>13 DEF HolderInv
<1>15. \A d \in Channels, h \in Goroutines : \A t : Has(d, t)' /\ Asks(h, t)' => t \in clashed'
    BY <1>3, <1>10, <1>11, <1>12, <1>13 DEF HolderInv
<1>16. \A h, k \in Goroutines : \A t : h # k /\ Asks(h, t)' /\ Asks(k, t)' => t \in clashed'
    BY <1>3, <1>10, <1>11, <1>13 DEF HolderInv
<1>17. \A d, e \in Channels : \A t : d # e /\ Delivers(d, t)' /\ Has(e, t)' => t \in clashed'
    BY <1>3, <1>8, <1>12, <1>13 DEF HolderInv
<1>18. \A d \in Channels, h \in Goroutines : \A t :
           Delivers(d, t)' /\ Asks(h, t)' => t \in clashed'
    BY <1>3, <1>8, <1>10, <1>13 DEF HolderInv
<1>19. QED
    BY <1>9, <1>14, <1>15, <1>16, <1>17, <1>18, Zenon DEF HolderInv

LEMMA ConsumeAcceptedSends ==
    ASSUME DeliveriesInv, NEW g \in Goroutines, Deliver!ConsumeAccepted(g)
    PROVE  SendingInv' /\ HolderInv'
<1> USE DEF DeliveriesInv
<1>1. PICK c, tag : c = calls[g] /\ tag = Deliver!LibraryTag(c.tag)
    OBVIOUS
<1>2. /\ c # Deliver!Idle
      /\ libSeq' = IF c.tag = Deliver!NoTag THEN libSeq + 1 ELSE libSeq
      /\ calls' = [calls EXCEPT ![g] = Deliver!Idle]
      /\ UNCHANGED <<mapping, closing, sending, clashed, skewed>>
    BY <1>1 DEF Deliver!ConsumeAccepted
<1>3. c \in Reals /\ c.ch \in Channels
    BY <1>1, <1>2 DEF DeliverInv, DeliverTypeOK, Reals
<1>4. \A d \in Channels : \A t : Has(d, t)' => Has(d, t) \/ (d = c.ch /\ t = tag)
    BY <1>1, <1>3 DEF Deliver!ConsumeAccepted, Deliver!Subscribed, DeliverInv, DeliverTypeOK, Has
<1>5. /\ calls'[g] = Deliver!Idle /\ \A h \in Goroutines : h # g => calls'[h] = calls[h]
    BY <1>2 DEF DeliverInv, DeliverTypeOK
<1>6. \A h \in Goroutines : \A t : Asks(h, t)' => h # g /\ Asks(h, t)
    BY <1>5 DEF Asks
<1>7. \A d \in Channels : \A t : Delivers(d, t)' => Delivers(d, t)
    BY <1>2 DEF Delivers
<1>8. CASE c.tag = Deliver!NoTag
    <2>1. tag = Deliver!Auto(libSeq + 1)
        BY <1>1, <1>8 DEF Deliver!LibraryTag
    <2>2. /\ \A d \in Channels : ~Has(d, tag) /\ ~Delivers(d, tag)
          /\ \A h \in Goroutines : ~Asks(h, tag)
        BY <2>1, AutoIsNew
    <2>3. HolderInv'
        BY <1>2, <1>3, <1>4, <1>6, <1>7, <2>2, HolderComes
    <2>4. libSeq' \in Nat /\ libSeq <= libSeq'
        BY <1>2 DEF DeliverInv, DeliverTypeOK
    <2>5. \A t : Deliver!swConsumerQueue(t)' = Deliver!swConsumerQueue(t)
        BY <1>2 DEF Deliver!swConsumerQueue
    <2>6. QED
        BY <1>2, <2>3, <2>4, <2>5, SendingStays
<1>9. CASE c.tag # Deliver!NoTag
    <2>1. Asks(g, tag)
        BY <1>1, <1>2, <1>9 DEF Asks, Deliver!LibraryTag
    <2>2. /\ \A d \in Channels : Has(d, tag) \/ Delivers(d, tag) => tag \in clashed
          /\ \A h \in Goroutines : Asks(h, tag)' => tag \in clashed
        BY <1>6, <2>1 DEF HolderInv
    <2>3. HolderInv'
        BY <1>2, <1>3, <1>4, <1>6, <1>7, <2>2, HolderComes
    <2>4. libSeq' \in Nat /\ libSeq <= libSeq'
        BY <1>2 DEF DeliverInv, DeliverTypeOK
    <2>5. \A t : Deliver!swConsumerQueue(t)' = Deliver!swConsumerQueue(t)
        BY <1>2 DEF Deliver!swConsumerQueue
    <2>6. QED
        BY <1>2, <2>3, <2>4, <2>5, SendingStays
<1>10. QED
    BY <1>8, <1>9

LEMMA ConsumeWithContextSends ==
    ASSUME DeliveriesInv, NEW ch \in Channels, NEW q \in Queues, Deliver!ConsumeWithContext(ch, q)
    PROVE  SendingInv' /\ HolderInv'
<1> USE DEF DeliveriesInv
<1>1. PICK tag : tag = Deliver!Auto(libSeq + 1)
    OBVIOUS
<1>2. /\ libSeq' = libSeq + 1 /\ skewed' = TRUE
      /\ UNCHANGED <<mapping, closing, calls, sending, clashed>>
    BY DEF Deliver!ConsumeWithContext
<1>3. \A d \in Channels : \A t : Has(d, t)' => Has(d, t) \/ (d = ch /\ t = tag)
    BY <1>1 DEF Deliver!ConsumeWithContext, Deliver!Subscribed, DeliverInv, DeliverTypeOK, Has
<1>4. /\ \A h \in Goroutines : \A t : Asks(h, t)' => Asks(h, t)
      /\ \A d \in Channels : \A t : Delivers(d, t)' => Delivers(d, t)
    BY <1>2 DEF Asks, Delivers
<1>5. /\ \A d \in Channels : ~Has(d, tag) /\ ~Delivers(d, tag)
      /\ \A h \in Goroutines : ~Asks(h, tag)
    BY <1>1, AutoIsNew
<1>6. HolderInv'
    BY <1>2, <1>3, <1>4, <1>5, HolderComes
<1>7. libSeq' \in Nat /\ libSeq <= libSeq'
    BY <1>2 DEF DeliverInv, DeliverTypeOK
<1>8. \A t : Deliver!swConsumerQueue(t)' = Deliver!swConsumerQueue(t)
    BY <1>2 DEF Deliver!swConsumerQueue
<1>9. QED
    BY <1>2, <1>6, <1>7, <1>8, SendingStays

\* Calls that fail, consumers that are cancelled or dropped, and steps of others.
LEMMA GoingSends ==
    ASSUME DeliveriesInv, libSeq' \in Nat, libSeq <= libSeq', skewed => skewed',
           UNCHANGED <<mapping, closing, sending, clashed>>,
           \A c \in Channels : DOMAIN subs'[c] \subseteq DOMAIN subs[c],
           \A g \in Goroutines : calls'[g] = Deliver!Idle \/ calls'[g] = calls[g]
    PROVE  SendingInv' /\ HolderInv'
<1>1. \A t : Deliver!swConsumerQueue(t)' = Deliver!swConsumerQueue(t)
    BY DEF Deliver!swConsumerQueue
<1>2. SendingInv'
    BY <1>1, SendingStays DEF DeliveriesInv
<1>3. /\ \A c \in Channels : \A t : Has(c, t)' => Has(c, t)
      /\ \A g \in Goroutines : \A t : Asks(g, t)' => Asks(g, t)
      /\ \A c \in Channels : \A t : Delivers(c, t)' => Delivers(c, t)
    BY DEF Has, Asks, Delivers
<1>4. QED
    BY <1>2, <1>3, HoldersGo DEF DeliveriesInv

LEMMA ConsumeFailedSends ==
    ASSUME DeliveriesInv, NEW g \in Goroutines, NEW early \in BOOLEAN,
           Deliver!ConsumeFailed(g, early)
    PROVE  SendingInv' /\ HolderInv'
<1>1. /\ libSeq' = IF calls[g].tag = Deliver!NoTag /\ ~early THEN libSeq + 1 ELSE libSeq
      /\ skewed => skewed'
      /\ calls' = [calls EXCEPT ![g] = Deliver!Idle]
      /\ UNCHANGED <<mapping, subs, closing, sending, clashed>>
    BY DEF Deliver!ConsumeFailed
<1>2. libSeq' \in Nat /\ libSeq <= libSeq'
    BY <1>1 DEF DeliveriesInv, DeliverInv, DeliverTypeOK
<1>3. \A h \in Goroutines : calls'[h] = Deliver!Idle \/ calls'[h] = calls[h]
    BY <1>1 DEF DeliveriesInv, DeliverInv, DeliverTypeOK
<1>4. QED
    BY <1>1, <1>2, <1>3, GoingSends

LEMMA CancelSends ==
    ASSUME DeliveriesInv, NEW ch \in Channels, NEW tag,
           Deliver!Cancel(ch, tag) \/ Deliver!CloseConsumers(ch)
    PROVE  SendingInv' /\ HolderInv'
<1>1. UNCHANGED <<mapping, libSeq, closing, calls, sending, clashed, skewed>>
    BY DEF Deliver!Cancel, Deliver!CloseConsumers
<1>2. libSeq' \in Nat /\ libSeq <= libSeq'
    BY <1>1 DEF DeliveriesInv, DeliverInv, DeliverTypeOK
<1>3. \A c \in Channels : DOMAIN subs'[c] \subseteq DOMAIN subs[c]
    <2>1. CASE Deliver!Cancel(ch, tag)
        BY <2>1 DEF DeliveriesInv, DeliverInv, DeliverTypeOK, Deliver!Cancel, Deliver!Restrict
    <2>2. CASE Deliver!CloseConsumers(ch)
        <3>1. subs'[ch] = <<>> /\ \A d \in Channels : d # ch => subs'[d] = subs[d]
            BY <2>2 DEF DeliveriesInv, DeliverInv, DeliverTypeOK, Deliver!CloseConsumers
        <3>2. DOMAIN subs'[ch] = {}
            BY <3>1
        <3>3. QED
            BY <3>1, <3>2
    <2>3. QED
        BY <2>1, <2>2
<1>4. QED
    BY <1>1, <1>2, <1>3, GoingSends

LEMMA SendSends ==
    ASSUME DeliveriesInv, NEW ch \in Channels, NEW tag, Deliver!Send(ch, tag)
    PROVE  SendingInv' /\ HolderInv'
<1> USE DEF DeliveriesInv
<1>1. PICK q, d : q = subs[ch][tag] /\ d = [tag |-> tag, from |-> q, overtaken |-> FALSE]
    OBVIOUS
<1>2. /\ tag \in DOMAIN subs[ch] /\ sending' = [sending EXCEPT ![ch] = d]
      /\ UNCHANGED <<mapping, swSeq, libSeq, subs, closing, calls, consumes, span, clashed, skewed>>
    BY <1>1 DEF Deliver!Send
<1>3. /\ d.tag = tag /\ d.from = q /\ ~d.overtaken /\ IsDelivery(d)
      /\ DOMAIN sending' = Channels /\ sending'[ch] = d
      /\ \A c \in Channels : c # ch => sending'[c] = sending[c]
    BY <1>1, <1>2 DEF SendingInv, IsDelivery
<1>4. tag \in Autos(libSeq) \cup NamedTags /\ (ch \in closing \/ Gives(tag, q))
    BY <1>1, <1>2 DEF DeliverInv, SeqInv, NameInv
<1>5. /\ \A t, x : Gives(t, x)' <=> Gives(t, x)
      /\ Autos(libSeq') = Autos(libSeq)
    BY <1>2 DEF Gives, Excused, Autos, Deliver!swConsumerQueue
<1>6. SendingInv'
    <2>1. ASSUME NEW c \in Channels, c # ch
          PROVE  /\ IsDelivery(sending'[c])
                 /\ sending'[c] # Deliver!NoDelivery =>
                       /\ sending'[c].tag \in Autos(libSeq') \cup NamedTags
                       /\ \/ sending'[c].overtaken \/ c \in closing'
                          \/ Gives(sending[c].tag, sending[c].from)'
        <3>1. PICK t, x : t = sending[c].tag /\ x = sending[c].from
            OBVIOUS
        <3>2. Gives(t, x)' <=> Gives(t, x)
            BY <1>5
        <3>3. QED
            BY <1>2, <1>3, <1>5, <2>1, <3>1, <3>2 DEF SendingInv
    <2>2. ch \in closing' \/ Gives(tag, q)'
        BY <1>2, <1>4, <1>5
    <2>3. QED
        BY <1>3, <1>4, <1>5, <2>1, <2>2 DEF SendingInv
<1>7. /\ \A c \in Channels : \A t : Has(c, t)' <=> Has(c, t)
      /\ \A g \in Goroutines : \A t : Asks(g, t)' <=> Asks(g, t)
      /\ \A c \in Channels : \A t : Delivers(c, t)' => Delivers(c, t) \/ (c = ch /\ t = tag)
    BY <1>2, <1>3 DEF Has, Asks, Delivers
<1>8. Has(ch, tag) /\ clashed' = clashed
    BY <1>2 DEF Has
<1>9. HolderInv'
    BY <1>7, <1>8, SMTT(30) DEF HolderInv
<1>10. QED
    BY <1>6, <1>9

LEMMA SendHookSends ==
    ASSUME DeliveriesInv, NEW ch \in Channels, Deliver!SendHook(ch)
    PROVE  SendingInv' /\ HolderInv'
<1> USE DEF DeliveriesInv
<1>1. /\ sending' = [sending EXCEPT ![ch] = Deliver!NoDelivery]
      /\ UNCHANGED <<mapping, swSeq, libSeq, subs, closing, calls, consumes, clashed, skewed>>
    BY DEF Deliver!SendHook
<1>2. /\ DOMAIN sending' = Channels /\ sending'[ch] = Deliver!NoDelivery
      /\ \A c \in Channels : c # ch => sending'[c] = sending[c]
    BY <1>1 DEF SendingInv
<1>3. /\ \A t, x : Gives(t, x)' <=> Gives(t, x)
      /\ Autos(libSeq') = Autos(libSeq) /\ IsDelivery(Deliver!NoDelivery)
    BY <1>1 DEF Gives, Excused, Autos, Deliver!swConsumerQueue, IsDelivery, Deliver!NoDelivery
<1>4. SendingInv'
    <2>1. ASSUME NEW c \in Channels, c # ch
          PROVE  /\ IsDelivery(sending'[c])
                 /\ sending'[c] # Deliver!NoDelivery =>
                       /\ sending'[c].tag \in Autos(libSeq') \cup NamedTags
                       /\ \/ sending'[c].overtaken \/ c \in closing'
                          \/ Gives(sending[c].tag, sending[c].from)'
        <3>1. PICK t, x : t = sending[c].tag /\ x = sending[c].from
            OBVIOUS
        <3>2. Gives(t, x)' <=> Gives(t, x)
            BY <1>3
        <3>3. QED
            BY <1>1, <1>2, <1>3, <2>1, <3>1, <3>2 DEF SendingInv
    <2>2. QED
        BY <1>2, <1>3, <2>1 DEF SendingInv
<1>5. /\ \A c \in Channels : \A t : Has(c, t)' => Has(c, t)
      /\ \A g \in Goroutines : \A t : Asks(g, t)' => Asks(g, t)
      /\ \A c \in Channels : \A t : Delivers(c, t)' => Delivers(c, t)
    BY <1>1, <1>2 DEF Has, Asks, Delivers
<1>6. QED
    BY <1>1, <1>4, <1>5, HoldersGo

LEMMA CloseHookSends ==
    ASSUME DeliveriesInv, NEW ch \in Channels, Deliver!CloseHook(ch)
    PROVE  SendingInv' /\ HolderInv'
<1> USE DEF DeliveriesInv
<1>1. /\ closing' = closing \cup {ch} /\ clashed \subseteq clashed'
      /\ UNCHANGED <<swSeq, libSeq, subs, calls, consumes, sending, span, skewed>>
    BY DEF Deliver!CloseHook
<1>2. \A t : t \notin DOMAIN subs[ch] =>
                Deliver!swConsumerQueue(t)' = Deliver!swConsumerQueue(t)
    BY DEF Deliver!CloseHook, Deliver!swConsumerQueue, Deliver!Restrict
<1>3. ASSUME NEW c \in Channels \ closing', NEW t, Delivers(c, t)
      PROVE  t \in clashed' \/ Deliver!swConsumerQueue(t)' = Deliver!swConsumerQueue(t)
    <2>1. c # ch
        BY <1>1
    <2>2. Has(ch, t) => t \in clashed
        BY <1>3, <2>1 DEF HolderInv
    <2>3. QED
        BY <1>1, <1>2, <2>2 DEF Has
<1>4. libSeq' \in Nat /\ libSeq <= libSeq'
    BY <1>1 DEF DeliverInv, DeliverTypeOK
<1>5. SendingInv'
    BY <1>1, <1>3, <1>4, SendingStays
<1>6. /\ \A c \in Channels : \A t : Has(c, t)' => Has(c, t)
      /\ \A g \in Goroutines : \A t : Asks(g, t)' => Asks(g, t)
      /\ \A c \in Channels : \A t : Delivers(c, t)' => Delivers(c, t)
    BY <1>1 DEF Has, Asks, Delivers
<1>7. QED
    BY <1>1, <1>5, <1>6, HoldersGo

LEMMA SendingNext ==
    ASSUME DeliveriesInv, Deliver!Next \/ UNCHANGED deliverVars
    PROVE  SendingInv' /\ HolderInv'
<1>1. CASE UNCHANGED deliverVars
    <2>1. UNCHANGED <<mapping, libSeq, subs, closing, calls, sending, clashed, skewed>>
        BY <1>1 DEF deliverVars
    <2>2. libSeq' \in Nat /\ libSeq <= libSeq'
        BY <2>1 DEF DeliveriesInv, DeliverInv, DeliverTypeOK
    <2>3. QED
        BY <2>1, <2>2, GoingSends
<1>2. ASSUME NEW g \in Goroutines, NEW ch \in Channels, NEW q \in Queues,
             NEW tag \in Tags \cup {Deliver!NoTag}, Deliver!Consume(g, ch, q, tag)
      PROVE  SendingInv' /\ HolderInv'
    BY <1>2, ConsumeSends
<1>3. ASSUME NEW g \in Goroutines, Deliver!ConsumeAccepted(g) PROVE SendingInv' /\ HolderInv'
    BY <1>3, ConsumeAcceptedSends
<1>4. ASSUME NEW g \in Goroutines, NEW early \in BOOLEAN, Deliver!ConsumeFailed(g, early)
      PROVE  SendingInv' /\ HolderInv'
    BY <1>4, ConsumeFailedSends
<1>5. ASSUME NEW ch \in Channels, NEW q \in Queues, Deliver!ConsumeWithContext(ch, q)
      PROVE  SendingInv' /\ HolderInv'
    BY <1>5, ConsumeWithContextSends
<1>6. ASSUME NEW ch \in Channels, NEW tag, Deliver!Cancel(ch, tag) \/ Deliver!Send(ch, tag)
      PROVE  SendingInv' /\ HolderInv'
    BY <1>6, CancelSends, SendSends
<1>7. ASSUME NEW ch \in Channels,
             Deliver!SendHook(ch) \/ Deliver!CloseHook(ch) \/ Deliver!CloseConsumers(ch)
      PROVE  SendingInv' /\ HolderInv'
    BY <1>7, SendHookSends, CloseHookSends, CancelSends
<1>8. QED
    BY <1>1, <1>2, <1>3, <1>4, <1>5, <1>6, <1>7 DEF Deliver!Next

\* swQueueConsumerTagMapping, filled by Consume before the library's own code, emptied
\* by close and read by the hook deferred in send: the span of a delivery names the
\* queue it came from, unless two consumers had its tag at once, the made-up tags are
\* out of step, its channel is closing, or its tag was registered again between the
\* library's part of send and the hook.
THEOREM DeliveryNames == MessagingSpec => []DeliveryNamesItsQueue
<1>1. MessagingInit => DeliveriesInv
    BY DeliverInit, HolderInit DEF MessagingInit, DeliveriesInv
<1>2. DeliveriesInv /\ [MessagingNext]_<<hooks, vars, kafkaVars, asyncVars, deliverVars>>
          => DeliveriesInv'
    <2>1. MessagingNext \/ UNCHANGED <<hooks, vars, kafkaVars, asyncVars, deliverVars>>
              => Deliver!Next \/ UNCHANGED deliverVars
        BY DEF MessagingNext
    <2>2. QED
        BY <2>1, DeliverNext, SendingNext DEF DeliveriesInv
<1>3. DeliveriesInv => DeliveryNamesItsQueue
    BY DEF DeliveriesInv, DeliverInv
<1>4. QED
    BY <1>1, <1>2, <1>3, PTL DEF MessagingSpec

-----------------------------------------------------------------------------
(* SkyWalking: the contexts and spans of asynchronous sends.                *)

Contexts == [span : Nat, snap : BOOLEAN]
Kinds == {"local", "exit", "entry"}
Names == {"app", "send", "callback", "consume", "receive"}
LoggedSpans == [kind : Kinds, name : Names, parent : Contexts, depth : Nat, async : {"no"}]
Tracings == [log : Seq(LoggedSpans), act : [Async!All -> Contexts]]
Frames == [op : {"app", "SendAsync", "callback", "consume"}, span : Nat, send : Nat]
Sends == [span : Nat, snapshot : Contexts, callback : Nat]

AsyncTypeOK ==
    /\ sw \in Tracings
    /\ sends \in Seq(Sends)
    /\ stack \in [Async!All -> Seq(Frames)]

KindOf(op) == IF op = "app" THEN "local" ELSE IF op = "SendAsync" THEN "exit" ELSE "entry"

\* Frame k of goroutine g may be the context of user code.
HasContext(g, k, i) == stack[g][k].span = i /\ stack[g][k].op # "SendAsync"
Below(g, k, i) == \E j \in 1..(k - 1) : HasContext(g, j, i)

\* A span that SendSync left open hangs below a call further out than k.
LeftBelow(g, k, i) ==
    LET up == sw.log[i].parent
    IN  g \in strayed /\ (up.span # 0 => ~up.snap /\ Below(g, k, up.span))

\* The context c is one in which call k of g may have begun.
Context(g, k, c) ==
    c.span # 0 =>
        /\ c.span \in 1..Len(sw.log) /\ ~c.snap
        /\ c.span \in lost => LeftBelow(g, k, c.span)
        /\ c.span \notin lost => Below(g, k, c.span)

\* The span of a call under way: open once, and a child of one further out.  Only an
\* asynchronous send may have been handed a span that was left open.
FrameOK(g, k) ==
    LET f == stack[g][k]
        s == sw.log[f.span]
    IN  /\ f.span = 0 => f.op \in {"callback", "consume"}
        /\ f.span # 0 => f.span \in 1..Len(sw.log)
        /\ f.span # 0 /\ f.span \notin lost =>
              s.depth = 1 /\ s.kind = KindOf(f.op) /\ Context(g, k, s.parent)
        /\ f.span \in lost => f.op = "SendAsync" /\ LeftBelow(g, k, f.span)
FrameInv == \A g \in Async!All : \A k \in 1..Len(stack[g]) : FrameOK(g, k)

\* A span belongs to one call, unless it was left open.
OwnerInv ==
    \A g, h \in Async!All : \A k \in 1..Len(stack[g]), l \in 1..Len(stack[h]) :
        (/\ stack[g][k].span # 0 /\ stack[g][k].span \notin lost
         /\ stack[g][k].span = stack[h][l].span) => g = h /\ k = l

\* A goroutine's context is a span left open there, or the span of one of its calls,
\* of SendAsync only while nothing runs inside it.
Covers(g, i) ==
    \E k \in 1..Len(stack[g]) :
        /\ stack[g][k].span = i
        /\ k < Len(stack[g]) => stack[g][k].op # "SendAsync"
ActInv ==
    \A g \in Async!All : sw.act[g].span # 0 =>
        /\ ~sw.act[g].snap
        /\ sw.act[g].span \in lost => LeftBelow(g, Len(stack[g]) + 1, sw.act[g].span)
        /\ sw.act[g].span \notin lost => Covers(g, sw.act[g].span)

\* Exit spans are left open, and never one below the other.
LostInv ==
    /\ lost \subseteq 1..Len(sw.log)
    /\ \A i \in lost : /\ sw.log[i].kind = "exit"
                       /\ sw.log[i].parent.span \in 0..Len(sw.log)
                       /\ sw.log[i].parent.span \notin lost

\* Where no callback ran inside SendAsync and no SendSync panicked, contexts nest as
\* the calls do.
TopIsActive(g) == sw.act[g].span = IF stack[g] = <<>> THEN 0 ELSE stack[g][Len(stack[g])].span
BelowIsParent(g, k) ==
    /\ stack[g][k].span = 0 => k = 1
    /\ stack[g][k].span # 0 =>
          sw.log[stack[g][k].span].parent.span = IF k = 1 THEN 0 ELSE stack[g][k - 1].span
NestInv ==
    \A g \in Async!All \ strayed :
        TopIsActive(g) /\ \A k \in 1..Len(stack[g]) : BelowIsParent(g, k)

\* Only spans of calls under way are open, and those lost to a panic.
CallHas(i) == \E g \in Async!All : \E k \in 1..Len(stack[g]) : stack[g][k].span = i
LogInv ==
    \A i \in 1..Len(sw.log) :
        sw.log[i].depth = 0 \/ sw.log[i].name = "callback" \/ i \in lost \/ CallHas(i)

\* A send carries a snapshot of its own span, which its callback's span hangs below.
SendInv ==
    \A i \in 1..Len(sends) :
        /\ sends[i].span # 0 /\ sends[i].snapshot = [span |-> sends[i].span, snap |-> TRUE]
        /\ sends[i].callback # 0 =>
              /\ sends[i].callback \in 1..Len(sw.log)
              /\ sw.log[sends[i].callback].parent.span = sends[i].span

AsyncInv ==
    /\ AsyncTypeOK /\ FrameInv /\ OwnerInv /\ ActInv /\ LostInv /\ NestInv /\ LogInv
    /\ SendInv

\* A span is made: the log grows by it, and it is the goroutine's context.
Made(t, u, g, kind, name) ==
    /\ u \in Tracings /\ Len(u.log) = Len(t.log) + 1
    /\ \A i \in 1..Len(t.log) : u.log[i] = t.log[i]
    /\ u.log[Len(u.log)].kind = kind /\ u.log[Len(u.log)].name = name
    /\ u.log[Len(u.log)].depth = 1
    /\ u.log[Len(u.log)].parent = IF t.act[g] = Async!NoContext THEN Async!NoSpan ELSE t.act[g]
    /\ u.act[g].span = Len(u.log) /\ ~u.act[g].snap
    /\ \A h \in Async!All : h # g => u.act[h] = t.act[h]
LEMMA CreateMakes ==
    ASSUME NEW t \in Tracings, NEW g \in Async!All, NEW kind \in Kinds, NEW name \in Names,
           ~Async!Reuses(t, g, kind), NEW u, u = Async!Create(t, g, kind, name)
    PROVE  Made(t, u, g, kind, name)
<1>1. /\ t.log \in Seq(LoggedSpans) /\ t.act \in [Async!All -> Contexts]
      /\ t.act[g] \in Contexts /\ Len(t.log) \in Nat
    BY LenProperties DEF Tracings
<1>2. PICK r : r = [kind |-> kind, name |-> name,
                    parent |-> IF t.act[g] = Async!NoContext THEN Async!NoSpan ELSE t.act[g],
                    depth |-> 1, async |-> "no"]
    OBVIOUS
<1>3. Async!NoSpan \in Contexts
    BY DEF Async!NoSpan, Contexts
<1>4. /\ r \in LoggedSpans /\ r.kind = kind /\ r.name = name /\ r.depth = 1
      /\ r.parent = IF t.act[g] = Async!NoContext THEN Async!NoSpan ELSE t.act[g]
    BY <1>1, <1>2, <1>3 DEF LoggedSpans
<1>5. PICK c : c = [span |-> Len(t.log) + 1, snap |-> FALSE]
    OBVIOUS
<1>6. c \in Contexts /\ c.span = Len(t.log) + 1 /\ ~c.snap
    BY <1>1, <1>5 DEF Contexts
<1>7. u = [log |-> Append(t.log, r), act |-> [t.act EXCEPT ![g] = c]]
    BY <1>2, <1>5 DEF Async!Create
<1>8. /\ Append(t.log, r) \in Seq(LoggedSpans) /\ Len(Append(t.log, r)) = Len(t.log) + 1
      /\ \A i \in 1..Len(t.log) : Append(t.log, r)[i] = t.log[i]
      /\ Append(t.log, r)[Len(t.log) + 1] = r
    BY <1>1, <1>4, AppendProperties
<1>9. /\ u.log = Append(t.log, r) /\ u.act \in [Async!All -> Contexts] /\ u.act[g] = c
      /\ \A h \in Async!All : h # g => u.act[h] = t.act[h]
    BY <1>1, <1>6, <1>7
<1>10. u \in Tracings
    BY <1>7, <1>8, <1>9 DEF Tracings
<1>11. QED
    BY <1>4, <1>6, <1>8, <1>9, <1>10 DEF Made

\* A span ends: its parent is the context again, unless that was cleaned.
LEMMA EndSpanEnds ==
    ASSUME NEW t \in Tracings, NEW g \in Async!All, NEW i \in 1..Len(t.log), t.log[i].depth = 1,
           NEW u, u = Async!EndSpan(t, g, i)
    PROVE  /\ u \in Tracings /\ Len(u.log) = Len(t.log)
           /\ \A j \in 1..Len(t.log) :
                 /\ j # i => u.log[j] = t.log[j]
                 /\ u.log[j].kind = t.log[j].kind /\ u.log[j].name = t.log[j].name
                 /\ u.log[j].parent = t.log[j].parent
           /\ u.log[i].depth = 0
           /\ u.act[g] = IF t.act[g] = Async!NoContext THEN t.act[g] ELSE t.log[i].parent
           /\ \A h \in Async!All : h # g => u.act[h] = t.act[h]
<1>1. /\ t.log \in Seq(LoggedSpans) /\ t.act \in [Async!All -> Contexts]
      /\ t.act[g] \in Contexts /\ Len(t.log) \in Nat /\ DOMAIN t.log = 1..Len(t.log)
    BY LenProperties DEF Tracings
<1>2. PICK r : r = [t.log[i] EXCEPT !.depth = 0]
    OBVIOUS
<1>3. t.log[i] \in LoggedSpans
    BY <1>1
<1>4. /\ r \in LoggedSpans /\ r.kind = t.log[i].kind /\ r.name = t.log[i].name
      /\ r.parent = t.log[i].parent /\ r.depth = 0
    BY <1>2, <1>3 DEF LoggedSpans
<1>5. PICK c : c = IF t.act[g] = Async!NoContext THEN t.act[g] ELSE t.log[i].parent
    OBVIOUS
<1>6. c \in Contexts
    BY <1>1, <1>3, <1>5 DEF LoggedSpans
<1>7. u = [log |-> [t.log EXCEPT ![i] = r], act |-> [t.act EXCEPT ![g] = c]]
    <2>1. u = [t EXCEPT !.log[i].depth = 0,
                        !.act[g] = IF @ = Async!NoContext THEN @ ELSE t.log[i].parent]
        BY DEF Async!EndSpan
    <2>2. QED
        BY <1>2, <1>5, <2>1 DEF Tracings
<1>8. /\ [t.log EXCEPT ![i] = r] \in Seq(LoggedSpans)
      /\ Len([t.log EXCEPT ![i] = r]) = Len(t.log)
    BY <1>1, <1>4, ExceptSeq
<1>9. /\ u.log = [t.log EXCEPT ![i] = r] /\ u.act \in [Async!All -> Contexts] /\ u.act[g] = c
      /\ \A h \in Async!All : h # g => u.act[h] = t.act[h]
    BY <1>1, <1>6, <1>7
<1>10. u \in Tracings
    BY <1>7, <1>8, <1>9 DEF Tracings
<1>11. u.log[i] = r /\ \A j \in 1..Len(t.log) : j # i => u.log[j] = t.log[j]
    BY <1>1, <1>9
<1>12. QED
    BY <1>4, <1>5, <1>8, <1>9, <1>10, <1>11

\* A change of one span's depth, and of one goroutine's context.
DepthMoves(t, u, g, i) ==
    /\ u \in Tracings /\ Len(u.log) = Len(t.log)
    /\ \A j \in 1..Len(t.log) :
          /\ j # i => u.log[j] = t.log[j]
          /\ u.log[j].kind = t.log[j].kind /\ u.log[j].name = t.log[j].name
          /\ u.log[j].parent = t.log[j].parent
    /\ \A h \in Async!All : h # g => u.act[h] = t.act[h]
DepthSet(t, g, i, d, c) ==
    [log |-> [t.log EXCEPT ![i] = [t.log[i] EXCEPT !.depth = d]], act |-> [t.act EXCEPT ![g] = c]]
LEMMA DepthChanges ==
    ASSUME NEW t \in Tracings, NEW g \in Async!All, NEW i \in 1..Len(t.log), NEW d \in Nat,
           NEW c \in Contexts, NEW u, u = DepthSet(t, g, i, d, c)
    PROVE  /\ DepthMoves(t, u, g, i)
           /\ u.log[i].depth = d
           /\ u.act[g] = c
<1>1. /\ t.log \in Seq(LoggedSpans) /\ t.act \in [Async!All -> Contexts]
      /\ Len(t.log) \in Nat /\ DOMAIN t.log = 1..Len(t.log)
    BY LenProperties DEF Tracings
<1>2. PICK r : r = [t.log[i] EXCEPT !.depth = d]
    OBVIOUS
<1>3. t.log[i] \in LoggedSpans
    BY <1>1
<1>4. /\ r \in LoggedSpans /\ r.kind = t.log[i].kind /\ r.name = t.log[i].name
      /\ r.parent = t.log[i].parent /\ r.depth = d
    BY <1>2, <1>3 DEF LoggedSpans
<1>5. u = [log |-> [t.log EXCEPT ![i] = r], act |-> [t.act EXCEPT ![g] = c]]
    BY <1>2 DEF DepthSet
<1>6. /\ [t.log EXCEPT ![i] = r] \in Seq(LoggedSpans)
      /\ Len([t.log EXCEPT ![i] = r]) = Len(t.log)
    BY <1>1, <1>4, ExceptSeq
<1>7. /\ u.log = [t.log EXCEPT ![i] = r] /\ u.act \in [Async!All -> Contexts] /\ u.act[g] = c
      /\ \A h \in Async!All : h # g => u.act[h] = t.act[h]
    BY <1>1, <1>5
<1>8. u \in Tracings
    BY <1>5, <1>6, <1>7 DEF Tracings
<1>9. u.log[i] = r /\ \A j \in 1..Len(t.log) : j # i => u.log[j] = t.log[j]
    BY <1>1, <1>7
<1>10. QED
    BY <1>4, <1>6, <1>7, <1>8, <1>9 DEF DepthMoves

\* An End at any depth: the context stays, or is the span's parent again.
LEMMA EndAnySpan ==
    ASSUME NEW t \in Tracings, NEW g \in Async!All, NEW i \in 1..Len(t.log),
           NEW u, u = Async!EndSpan(t, g, i)
    PROVE  /\ DepthMoves(t, u, g, i)
           /\ u.act[g] = t.act[g] \/ u.act[g] = t.log[i].parent
<1>1. /\ t = [log |-> t.log, act |-> t.act] /\ t.act \in [Async!All -> Contexts]
      /\ t.act[g] \in Contexts /\ t.log[i] \in LoggedSpans
    BY DEF Tracings
<1>2. t.log[i].depth \in Nat /\ t.log[i].parent \in Contexts
    BY <1>1 DEF LoggedSpans
<1>3. PICK d \in Nat : d = IF t.log[i].depth > 1 THEN t.log[i].depth - 1 ELSE 0
    BY <1>2
<1>4. PICK c \in Contexts :
          c = IF t.log[i].depth > 1 \/ t.act[g] = Async!NoContext THEN t.act[g]
              ELSE t.log[i].parent
    BY <1>1, <1>2
<1>5. u = DepthSet(t, g, i, d, c)
    <2>1. CASE t.log[i].depth > 1
        <3>1. u = [t EXCEPT !.log[i].depth = @ - 1]
            BY <2>1 DEF Async!EndSpan
        <3>2. [t.act EXCEPT ![g] = c] = t.act /\ d = t.log[i].depth - 1
            BY <1>1, <1>3, <1>4, <2>1
        <3>3. QED
            BY <1>1, <3>1, <3>2 DEF DepthSet
    <2>2. CASE ~(t.log[i].depth > 1)
        <3>1. u = [t EXCEPT !.log[i].depth = 0,
                            !.act[g] = IF @ = Async!NoContext THEN @ ELSE t.log[i].parent]
            BY <2>2 DEF Async!EndSpan
        <3>2. d = 0 /\ c = IF t.act[g] = Async!NoContext THEN t.act[g] ELSE t.log[i].parent
            BY <1>3, <1>4, <2>2
        <3>3. QED
            BY <1>1, <3>1, <3>2 DEF DepthSet
    <2>3. QED
        BY <2>1, <2>2
<1>6. DepthMoves(t, u, g, i) /\ u.act[g] = c
    BY <1>3, <1>4, <1>5, DepthChanges
<1>7. QED
    BY <1>4, <1>6

\* The active span is handed out again: it is one deeper.
LEMMA CreateReuses ==
    ASSUME NEW t \in Tracings, NEW g \in Async!All, NEW kind, NEW name, Async!Reuses(t, g, kind),
           NEW i \in 1..Len(t.log), i = t.act[g].span, NEW u, u = Async!Create(t, g, kind, name)
    PROVE  /\ DepthMoves(t, u, g, i)
           /\ u.act[g] = t.act[g]
<1>1. /\ t = [log |-> t.log, act |-> t.act] /\ t.act \in [Async!All -> Contexts]
      /\ t.act[g] \in Contexts /\ t.log[i] \in LoggedSpans
    BY DEF Tracings
<1>2. PICK d \in Nat : d = t.log[i].depth + 1
    BY <1>1 DEF LoggedSpans
<1>3. PICK c \in Contexts : c = t.act[g]
    BY <1>1
<1>4. u = DepthSet(t, g, i, d, c)
    <2>1. u = [t EXCEPT !.log[i].depth = @ + 1]
        BY DEF Async!Create
    <2>2. [t.act EXCEPT ![g] = c] = t.act
        BY <1>1, <1>3
    <2>3. QED
        BY <1>1, <1>2, <2>1, <2>2 DEF DepthSet
<1>5. DepthMoves(t, u, g, i) /\ u.act[g] = c
    BY <1>4, DepthChanges
<1>6. QED
    BY <1>3, <1>5

\* A span that is made and ended at once leaves the goroutine's context as it was.
LEMMA BriefSpan ==
    ASSUME NEW t \in Tracings, NEW g \in Async!All, NEW kind \in Kinds, NEW name \in Names,
           Async!Reuses(t, g, kind) =>
              t.act[g].span \in 1..Len(t.log) /\ t.log[t.act[g].span].depth = 1,
           NEW c, c = Async!Create(t, g, kind, name),
           NEW u, u = Async!EndSpan(c, g, Async!ActiveSpan(c, g))
    PROVE  /\ u \in Tracings /\ Len(u.log) >= Len(t.log)
           /\ \A i \in 1..Len(t.log) : u.log[i] = t.log[i]
           /\ \A i \in 1..Len(u.log) : i \notin 1..Len(t.log) => u.log[i].depth = 0
           /\ u.act[g].span = t.act[g].span
           /\ t.act[g].span # 0 => u.act[g] = t.act[g]
           /\ \A h \in Async!All : h # g => u.act[h] = t.act[h]
<1>1. /\ t.log \in Seq(LoggedSpans) /\ t.act \in [Async!All -> Contexts]
      /\ t.act[g] \in Contexts /\ Len(t.log) \in Nat /\ DOMAIN t.log = 1..Len(t.log)
      /\ t = [log |-> t.log, act |-> t.act]
    BY LenProperties DEF Tracings
<1>2. CASE Async!Reuses(t, g, kind)
    <2>1. PICK i \in 1..Len(t.log) : i = t.act[g].span /\ t.log[i].depth = 1
        BY <1>2
    <2>2. PICK r, q : r = t.log[i] /\ q = [r EXCEPT !.depth = 2]
        OBVIOUS
    <2>3. r \in LoggedSpans /\ r.depth = 1
        BY <1>1, <2>1, <2>2
    <2>4. q \in LoggedSpans /\ q.depth = 2 /\ [q EXCEPT !.depth = 1] = r
        <3>1. r = [kind |-> r.kind, name |-> r.name, parent |-> r.parent, depth |-> 1,
                   async |-> r.async]
            BY <2>3 DEF LoggedSpans
        <3>2. q = [kind |-> r.kind, name |-> r.name, parent |-> r.parent, depth |-> 2,
                   async |-> r.async]
            BY <2>2, <3>1
        <3>3. QED
            BY <2>3, <3>1, <3>2 DEF LoggedSpans
    <2>5. c = [log |-> [t.log EXCEPT ![i] = q], act |-> t.act]
        <3>1. c = [t EXCEPT !.log[i].depth = @ + 1]
            BY <1>2, <2>1 DEF Async!Create
        <3>2. c = [log |-> [t.log EXCEPT ![i] = [r EXCEPT !.depth = r.depth + 1]], act |-> t.act]
            BY <1>1, <2>2, <3>1
        <3>3. r.depth + 1 = 2
            BY <2>3
        <3>4. QED
            BY <2>2, <3>2, <3>3
    <2>6. c.log[i] = q /\ c.log = [t.log EXCEPT ![i] = q] /\ c.act = t.act
        BY <1>1, <2>5
    <2>7. u = [c EXCEPT !.log[i].depth = @ - 1]
        <3>1. Async!ActiveSpan(c, g) = i
            BY <2>1, <2>6 DEF Async!ActiveSpan
        <3>2. u = Async!EndSpan(c, g, i)
            BY <3>1
        <3>3. c.log[i].depth > 1
            BY <2>4, <2>6
        <3>4. QED
            BY <3>2, <3>3 DEF Async!EndSpan
    <2>8. u = [log |-> [c.log EXCEPT ![i] = r], act |-> t.act]
        <3>1. u = [log |-> [c.log EXCEPT ![i] = [q EXCEPT !.depth = q.depth - 1]], act |-> c.act]
            BY <2>5, <2>6, <2>7
        <3>2. q.depth - 1 = 1
            BY <2>4
        <3>3. QED
            BY <2>4, <2>6, <3>1, <3>2
    <2>9. [c.log EXCEPT ![i] = r] = t.log
        <3>1. t.log \in [1..Len(t.log) -> LoggedSpans]
            BY <1>1, LenProperties
        <3>2. [c.log EXCEPT ![i] = r] = [[t.log EXCEPT ![i] = q] EXCEPT ![i] = t.log[i]]
            BY <2>2, <2>6
        <3>3. QED
            BY <3>1, <3>2
    <2>10. u = t
        BY <1>1, <2>8, <2>9
    <2>11. QED
        BY <1>1, <2>10
<1>3. CASE ~Async!Reuses(t, g, kind)
    <2>1. /\ c \in Tracings /\ Len(c.log) = Len(t.log) + 1
          /\ \A i \in 1..Len(t.log) : c.log[i] = t.log[i]
          /\ c.log[Len(c.log)].kind = kind /\ c.log[Len(c.log)].name = name
          /\ c.log[Len(c.log)].depth = 1
          /\ c.log[Len(c.log)].parent =
                 IF t.act[g] = Async!NoContext THEN Async!NoSpan ELSE t.act[g]
          /\ c.act[g].span = Len(c.log) /\ ~c.act[g].snap
          /\ \A h \in Async!All : h # g => c.act[h] = t.act[h]
        <3>1. Made(t, c, g, kind, name)
            BY <1>3, CreateMakes
        <3>2. QED
            BY <3>1 DEF Made
    <2>2. Len(c.log) \in 1..Len(c.log)
        BY <1>1, <2>1
    <2>3. u = Async!EndSpan(c, g, Len(c.log))
        BY <2>1 DEF Async!ActiveSpan
    <2>4. /\ u \in Tracings /\ Len(u.log) = Len(c.log)
          /\ \A j \in 1..Len(c.log) : j # Len(c.log) => u.log[j] = c.log[j]
          /\ u.log[Len(c.log)].depth = 0
          /\ u.act[g] = IF c.act[g] = Async!NoContext THEN c.act[g] ELSE c.log[Len(c.log)].parent
          /\ \A h \in Async!All : h # g => u.act[h] = c.act[h]
        BY <2>1, <2>2, <2>3, EndSpanEnds, SMTT(30)
    <2>5. c.act[g] # Async!NoContext
        BY <1>1, <2>1 DEF Async!NoContext
    <2>6. /\ u.act[g].span = t.act[g].span
          /\ t.act[g].span # 0 => u.act[g] = t.act[g]
        BY <2>1, <2>4, <2>5 DEF Async!NoContext, Async!NoSpan
    <2>7. \A i \in 1..Len(t.log) : u.log[i] = t.log[i]
        BY <1>1, <2>1, <2>4
    <2>8. \A i \in 1..Len(u.log) : i \notin 1..Len(t.log) => u.log[i].depth = 0
        BY <1>1, <2>1, <2>4
    <2>9. QED
        BY <1>1, <2>1, <2>4, <2>6, <2>7, <2>8
<1>4. QED
    BY <1>2, <1>3

\* The agent's part of a callback: a span below the send's, and no context after it.
LEMMA CallbackTraces ==
    ASSUME NEW t \in Tracings, t = sw, NEW g \in Async!All, NEW panics \in BOOLEAN,
           NEW i, NEW n \in Nat \ {0}, sends[i].snapshot = [span |-> n, snap |-> TRUE],
           NEW u, u = Async!TraceAsyncSendCallback(g, i, panics)
    PROVE  /\ u \in Tracings /\ Len(u.log) = Len(t.log) + 1
           /\ \A j \in 1..Len(t.log) : u.log[j] = t.log[j]
           /\ u.log[Len(u.log)].name = "callback" /\ u.log[Len(u.log)].parent.span = n
           /\ u.act[g].span = 0
           /\ \A h \in Async!All : h # g => u.act[h] = t.act[h]
<1>1. PICK k : k = [span |-> n, snap |-> TRUE]
    OBVIOUS
<1>2. k \in Contexts /\ k.span = n /\ k # Async!NoContext
    BY <1>1 DEF Contexts, Async!NoContext
<1>3. PICK s : s = Async!ContinueContext(t, g, k)
    OBVIOUS
<1>4. /\ s = [log |-> t.log, act |-> [t.act EXCEPT ![g] = k]]
      /\ t.act \in [Async!All -> Contexts] /\ t.log \in Seq(LoggedSpans)
    BY <1>3 DEF Async!ContinueContext, Tracings
<1>5. /\ s \in Tracings /\ s.log = t.log /\ s.act[g] = k
      /\ \A h \in Async!All : h # g => s.act[h] = t.act[h]
    BY <1>2, <1>4 DEF Tracings
<1>6. PICK c : c = Async!Create(s, g, "local", "callback")
    OBVIOUS
<1>7. ~Async!Reuses(s, g, "local") /\ "local" \in Kinds /\ "callback" \in Names
    BY DEF Async!Reuses, Kinds, Names
<1>8. /\ c \in Tracings /\ Len(c.log) = Len(t.log) + 1
      /\ \A j \in 1..Len(t.log) : c.log[j] = t.log[j]
      /\ c.log[Len(c.log)].name = "callback" /\ c.log[Len(c.log)].depth = 1
      /\ c.log[Len(c.log)].parent = k /\ c.act[g].span = Len(c.log)
      /\ \A h \in Async!All : h # g => c.act[h] = t.act[h]
    <2>1. /\ c \in Tracings /\ Len(c.log) = Len(s.log) + 1
          /\ \A j \in 1..Len(s.log) : c.log[j] = s.log[j]
          /\ c.log[Len(c.log)].kind = "local" /\ c.log[Len(c.log)].name = "callback"
          /\ c.log[Len(c.log)].depth = 1
          /\ c.log[Len(c.log)].parent =
                 IF s.act[g] = Async!NoContext THEN Async!NoSpan ELSE s.act[g]
          /\ c.act[g].span = Len(c.log) /\ ~c.act[g].snap
          /\ \A h \in Async!All : h # g => c.act[h] = s.act[h]
        <3>1. Made(s, c, g, "local", "callback")
            BY <1>5, <1>6, <1>7, CreateMakes
        <3>2. QED
            BY <3>1 DEF Made
    <2>2. QED
        BY <1>2, <1>5, <2>1
<1>9. PICK e : e = IF panics THEN c ELSE Async!EndSpan(c, g, Async!ActiveSpan(c, g))
    OBVIOUS
<1>10. Len(t.log) \in Nat
    BY <1>4, LenProperties
<1>11. /\ e \in Tracings /\ Len(e.log) = Len(t.log) + 1
       /\ \A j \in 1..Len(t.log) : e.log[j] = t.log[j]
       /\ e.log[Len(e.log)].name = "callback" /\ e.log[Len(e.log)].parent = k
       /\ \A h \in Async!All : h # g => e.act[h] = t.act[h]
    <2>1. CASE panics
        BY <1>8, <1>9, <2>1
    <2>2. CASE ~panics
        <3>1. PICK last \in 1..Len(c.log) : last = Len(c.log)
            BY <1>8, <1>10
        <3>2. e = Async!EndSpan(c, g, last) /\ c.log[last].depth = 1 /\ c \in Tracings
            BY <1>8, <1>9, <2>2, <3>1 DEF Async!ActiveSpan
        <3>3. /\ e \in Tracings /\ Len(e.log) = Len(c.log)
              /\ \A j \in 1..Len(c.log) :
                    /\ j # last => e.log[j] = c.log[j]
                    /\ e.log[j].kind = c.log[j].kind /\ e.log[j].name = c.log[j].name
                    /\ e.log[j].parent = c.log[j].parent
              /\ e.log[last].depth = 0
              /\ e.act[g] = IF c.act[g] = Async!NoContext THEN c.act[g] ELSE c.log[last].parent
              /\ \A h \in Async!All : h # g => e.act[h] = c.act[h]
            BY <3>2, EndSpanEnds
        <3>4. \A j \in 1..Len(t.log) : j \in 1..Len(c.log) /\ j # Len(c.log)
            BY <1>8, <1>10
        <3>5. QED
            BY <1>8, <3>1, <3>3, <3>4
    <2>3. QED
        BY <2>1, <2>2
<1>12. u = Async!CleanContext(e, g)
    BY <1>1, <1>3, <1>6, <1>9 DEF Async!TraceAsyncSendCallback
<1>13. Async!NoContext \in Contexts /\ Async!NoContext.span = 0
    BY DEF Async!NoContext, Contexts
<1>14. /\ u = [log |-> e.log, act |-> [e.act EXCEPT ![g] = Async!NoContext]]
       /\ e.act \in [Async!All -> Contexts] /\ e.log \in Seq(LoggedSpans)
    BY <1>11, <1>12 DEF Async!CleanContext, Tracings
<1>15. /\ u \in Tracings /\ u.log = e.log /\ u.act[g].span = 0
       /\ \A h \in Async!All : h # g => u.act[h] = e.act[h]
    BY <1>13, <1>14 DEF Tracings
<1>16. QED
    BY <1>2, <1>11, <1>15

\* Sizes and types that every step below needs.
LEMMA AsyncSizes ==
    ASSUME AsyncInv
    PROVE  /\ sw \in Tracings /\ sw.log \in Seq(LoggedSpans) /\ Len(sw.log) \in Nat
           /\ sends \in Seq(Sends) /\ Len(sends) \in Nat /\ 0 \notin lost
           /\ \A g \in Async!All : stack[g] \in Seq(Frames) /\ Len(stack[g]) \in Nat
<1>1. sw \in Tracings /\ sw.log \in Seq(LoggedSpans) /\ Len(sw.log) \in Nat
    BY LenProperties DEF AsyncInv, AsyncTypeOK, Tracings
<1>2. sends \in Seq(Sends) /\ Len(sends) \in Nat
    BY LenProperties DEF AsyncInv, AsyncTypeOK
<1>3. \A g \in Async!All : stack[g] \in Seq(Frames) /\ Len(stack[g]) \in Nat
    BY LenProperties DEF AsyncInv, AsyncTypeOK
<1>4. 0 \notin lost
    BY <1>1 DEF AsyncInv, LostInv
<1>5. QED
    BY <1>1, <1>2, <1>3, <1>4

\* The context of user code is one a call may begin in.
RunsUser(g) == stack[g] = <<>> \/ stack[g][Len(stack[g])].op # "SendAsync"
LEMMA ActIsContext ==
    ASSUME AsyncInv, NEW g \in Async!All, RunsUser(g)
    PROVE  Context(g, Len(stack[g]) + 1, sw.act[g])
<1> SUFFICES ASSUME sw.act[g].span # 0 PROVE Context(g, Len(stack[g]) + 1, sw.act[g])
    BY DEF Context
<1>1. ~sw.act[g].snap
    BY DEF AsyncInv, ActInv
<1>2. CASE sw.act[g].span \in lost
    <2>1. LeftBelow(g, Len(stack[g]) + 1, sw.act[g].span)
        BY <1>2 DEF AsyncInv, ActInv
    <2>2. sw.act[g].span \in 1..Len(sw.log)
        BY <1>2 DEF AsyncInv, LostInv
    <2>3. QED
        BY <1>1, <1>2, <2>1, <2>2 DEF Context
<1>3. CASE sw.act[g].span \notin lost
    <2>1. PICK k \in 1..Len(stack[g]) :
             /\ stack[g][k].span = sw.act[g].span
             /\ k < Len(stack[g]) => stack[g][k].op # "SendAsync"
        BY <1>3 DEF AsyncInv, ActInv, Covers
    <2>2. FrameOK(g, k)
        BY <2>1 DEF AsyncInv, FrameInv
    <2>3. sw.act[g].span \in 1..Len(sw.log)
        BY <2>1, <2>2 DEF FrameOK
    <2>4. stack[g][k].op # "SendAsync" /\ k \in 1..((Len(stack[g]) + 1) - 1)
        <3>1. Len(stack[g]) \in Nat /\ stack[g] # <<>>
            BY <2>1, AsyncSizes
        <3>2. k = Len(stack[g]) => stack[g][k].op # "SendAsync"
            BY <3>1 DEF RunsUser
        <3>3. QED
            BY <2>1, <3>1, <3>2
    <2>5. Below(g, Len(stack[g]) + 1, sw.act[g].span)
        BY <2>1, <2>4 DEF Below, HasContext
    <2>6. QED
        BY <1>1, <1>3, <2>3, <2>5 DEF Context
<1>4. QED
    BY <1>2, <1>3

\* User code is handed no span of a send, unless one was left open.
LEMMA ExitIsFresh ==
    ASSUME AsyncInv, NEW g \in Async!All, RunsUser(g), sw.act[g].span \notin lost
    PROVE  ~Async!Reuses(sw, g, "exit")
<1> SUFFICES ASSUME Async!Reuses(sw, g, "exit") PROVE FALSE
    OBVIOUS
<1>1. sw.act[g].span # 0 /\ sw.log[sw.act[g].span].kind = "exit"
    BY DEF Async!Reuses
<1>2. Below(g, Len(stack[g]) + 1, sw.act[g].span)
    BY <1>1, ActIsContext DEF Context
<1>3. PICK j \in 1..((Len(stack[g]) + 1) - 1) : HasContext(g, j, sw.act[g].span)
    BY <1>2 DEF Below
<1>4. j \in 1..Len(stack[g])
    BY <1>3, AsyncSizes
<1>5. FrameOK(g, j)
    BY <1>4 DEF AsyncInv, FrameInv
<1>6. "exit" = KindOf(stack[g][j].op) /\ stack[g][j].op # "SendAsync"
    BY <1>1, <1>3, <1>5 DEF FrameOK, HasContext
<1>7. QED
    BY <1>6 DEF KindOf

\* A goroutine's context, if it has one, is an open span.
LEMMA ActiveIsOpen ==
    ASSUME AsyncInv, NEW g \in Async!All, sw.act[g].span # 0, sw.act[g].span \notin lost
    PROVE  sw.act[g].span \in 1..Len(sw.log) /\ sw.log[sw.act[g].span].depth = 1
<1>1. PICK k \in 1..Len(stack[g]) : stack[g][k].span = sw.act[g].span
    BY DEF AsyncInv, ActInv, Covers
<1>2. QED
    BY <1>1 DEF AsyncInv, FrameInv, FrameOK

\* The tree of spans only grows, and only new ones are left open.
SpansKept ==
    /\ Len(sw.log) \in Nat /\ Len(sw'.log) \in Nat /\ Len(sw'.log) >= Len(sw.log)
    /\ lost \subseteq lost' /\ strayed \subseteq strayed' /\ 0 \notin lost'
    /\ \A i \in 1..Len(sw.log) : /\ sw'.log[i].parent = sw.log[i].parent
                                 /\ i \in lost' => i \in lost
CallsKept(g, k) == \A j \in 1..(k - 1) : stack'[g][j] = stack[g][j]

LEMMA BelowStays ==
    ASSUME NEW g, NEW k, NEW i, Below(g, k, i), CallsKept(g, k) PROVE Below(g, k, i)'
<1>1. PICK j \in 1..(k - 1) : HasContext(g, j, i)
    BY DEF Below
<1>2. HasContext(g, j, i)'
    BY <1>1 DEF HasContext, CallsKept
<1>3. QED
    BY <1>1, <1>2 DEF Below

LEMMA LeftStays ==
    ASSUME NEW g, NEW k, NEW i \in 1..Len(sw.log), LeftBelow(g, k, i), SpansKept, CallsKept(g, k)
    PROVE  LeftBelow(g, k, i)'
<1>1. PICK up : up = sw.log[i].parent /\ up = sw'.log[i].parent
    BY DEF SpansKept
<1>2. g \in strayed' /\ (up.span # 0 => ~up.snap /\ Below(g, k, up.span))
    BY <1>1 DEF LeftBelow, SpansKept
<1>3. PICK n : n = up.span
    OBVIOUS
<1>4. n # 0 => Below(g, k, n)'
    BY <1>2, <1>3, BelowStays
<1>5. QED
    BY <1>1, <1>2, <1>3, <1>4 DEF LeftBelow

LEMMA ContextStays ==
    ASSUME NEW g, NEW k, NEW c, Context(g, k, c), SpansKept, CallsKept(g, k)
    PROVE  Context(g, k, c)'
<1> SUFFICES ASSUME c.span # 0 PROVE Context(g, k, c)'
    BY DEF Context
<1>1. PICK n : n = c.span
    OBVIOUS
<1>2. n \in 1..Len(sw.log) /\ n \in 1..Len(sw'.log) /\ ~c.snap
    BY <1>1 DEF Context, SpansKept
<1>3. n \in lost' => LeftBelow(g, k, n)'
    BY <1>1, <1>2, LeftStays DEF Context, SpansKept
<1>4. n \notin lost' => Below(g, k, n)'
    BY <1>1, BelowStays DEF Context, SpansKept
<1>5. QED
    BY <1>1, <1>2, <1>3, <1>4 DEF Context

\* A frame is as good as it was if neither it nor its span has changed.
LEMMA FrameStays ==
    ASSUME NEW g, NEW k, FrameOK(g, k), stack'[g][k] = stack[g][k], CallsKept(g, k), SpansKept,
           stack[g][k].span # 0 /\ stack[g][k].span \notin lost =>
              sw'.log[stack[g][k].span] = sw.log[stack[g][k].span]
    PROVE  FrameOK(g, k)'
<1>1. PICK f : f = stack[g][k] /\ f = stack'[g][k]
    OBVIOUS
<1>2. PICK s : s = sw.log[f.span]
    OBVIOUS
<1>3. f.span = 0 => f.op \in {"callback", "consume"}
    BY <1>1 DEF FrameOK
<1>4. f.span # 0 => /\ f.span \in 1..Len(sw.log) /\ f.span \in 1..Len(sw'.log)
                    /\ f.span \in lost' => f.span \in lost
    BY <1>1 DEF FrameOK, SpansKept
<1>5. ASSUME f.span # 0, f.span \notin lost'
      PROVE  /\ sw'.log[f.span] = s /\ s.depth = 1 /\ s.kind = KindOf(f.op)
             /\ Context(g, k, s.parent)'
    <2>1. f.span \notin lost
        BY <1>5 DEF SpansKept
    <2>2. s.depth = 1 /\ s.kind = KindOf(f.op) /\ Context(g, k, s.parent)
        BY <1>1, <1>2, <1>5, <2>1 DEF FrameOK
    <2>3. PICK c : c = s.parent
        OBVIOUS
    <2>4. Context(g, k, c)'
        BY <2>2, <2>3, ContextStays
    <2>5. QED
        BY <1>1, <1>2, <1>5, <2>1, <2>2, <2>3, <2>4
<1>6. ASSUME f.span \in lost' PROVE f.op = "SendAsync" /\ LeftBelow(g, k, f.span)'
    <2>1. PICK n : n = f.span
        OBVIOUS
    <2>2. n \in lost /\ n \in 1..Len(sw.log)
        BY <1>4, <1>6, <2>1 DEF SpansKept
    <2>3. f.op = "SendAsync" /\ LeftBelow(g, k, n)
        BY <1>1, <2>1, <2>2 DEF FrameOK
    <2>4. QED
        BY <2>1, <2>2, <2>3, LeftStays
<1>7. QED
    BY <1>1, <1>3, <1>4, <1>5, <1>6 DEF FrameOK

\* A goroutine whose context and calls stay.
LEMMA ActStays ==
    ASSUME AsyncInv, NEW g \in Async!All, sw'.act[g] = sw.act[g], stack'[g] = stack[g], SpansKept,
           sw'.act[g].span # 0
    PROVE  /\ ~sw'.act[g].snap
           /\ sw'.act[g].span \in lost' => LeftBelow(g, Len(stack[g]) + 1, sw.act[g].span)'
           /\ sw'.act[g].span \notin lost' => Covers(g, sw.act[g].span)'
<1>1. PICK n, m : n = sw.act[g].span /\ m = Len(stack[g]) + 1
    OBVIOUS
<1>2. /\ ~sw.act[g].snap /\ (n \in lost => LeftBelow(g, m, n))
      /\ n \notin lost => Covers(g, n)
    BY <1>1 DEF AsyncInv, ActInv
<1>3. n \in 1..Len(sw.log)
    <2>1. CASE n \in lost
        BY <2>1 DEF AsyncInv, LostInv
    <2>2. CASE n \notin lost
        BY <1>1, <2>2, ActiveIsOpen
    <2>3. QED
        BY <2>1, <2>2
<1>4. n \in lost' => LeftBelow(g, m, n)'
    BY <1>2, <1>3, LeftStays DEF SpansKept, CallsKept
<1>5. n \notin lost' => Covers(g, n)'
    BY <1>2 DEF SpansKept, Covers
<1>6. m' = Len(stack'[g]) + 1
    BY <1>1
<1>7. QED
    BY <1>1, <1>2, <1>4, <1>5

\* Calls that stay own what they own.
LEMMA OwnersStay ==
    ASSUME AsyncInv, lost \subseteq lost',
           \A h \in Async!All : \A k \in 1..Len(stack'[h]) :
              stack'[h][k].span # 0 /\ stack'[h][k].span \notin lost' =>
                 k \in 1..Len(stack[h]) /\ stack'[h][k] = stack[h][k]
    PROVE  OwnerInv'
<1>1. OwnerInv
    BY DEF AsyncInv
<1>2. ASSUME NEW x \in Async!All, NEW y \in Async!All,
             NEW k \in 1..Len(stack'[x]), NEW l \in 1..Len(stack'[y]),
             stack'[x][k].span # 0, stack'[x][k].span \notin lost',
             stack'[x][k].span = stack'[y][l].span
      PROVE  x = y /\ k = l
    <2>1. stack'[y][l].span # 0 /\ stack'[y][l].span \notin lost' /\ stack'[x][k].span \notin lost
        BY <1>2
    <2>2. /\ k \in 1..Len(stack[x]) /\ stack'[x][k] = stack[x][k]
          /\ l \in 1..Len(stack[y]) /\ stack'[y][l] = stack[y][l]
        BY <1>2, <2>1
    <2>3. QED
        BY <1>1, <1>2, <2>1, <2>2 DEF OwnerInv
<1>3. QED
    BY <1>2 DEF OwnerInv

\* Goroutines whose contexts nest, where spans, calls and contexts stay.
LEMMA NestStays ==
    ASSUME AsyncInv, NEW g \in Async!All \ strayed, SpansKept,
           sw'.act[g].span = sw.act[g].span, stack'[g] = stack[g]
    PROVE  TopIsActive(g)' /\ \A k \in 1..Len(stack'[g]) : BelowIsParent(g, k)'
<1>1. TopIsActive(g) /\ \A k \in 1..Len(stack[g]) : BelowIsParent(g, k)
    BY DEF AsyncInv, NestInv
<1>2. TopIsActive(g)'
    BY <1>1 DEF TopIsActive
<1>3. ASSUME NEW k \in 1..Len(stack[g]) PROVE BelowIsParent(g, k)'
    <2>1. stack[g][k].span # 0 => stack[g][k].span \in 1..Len(sw.log)
        BY DEF AsyncInv, FrameInv, FrameOK
    <2>2. stack[g][k].span # 0 =>
              sw'.log[stack[g][k].span].parent = sw.log[stack[g][k].span].parent
        BY <2>1 DEF SpansKept
    <2>3. QED
        BY <1>1, <1>3, <2>2 DEF BelowIsParent
<1>4. QED
    BY <1>2, <1>3

LEMMA SendsStay == ASSUME AsyncInv, SpansKept, sends' = sends PROVE SendInv'
<1>1. \A i \in 1..Len(sw.log) : i \in 1..Len(sw'.log)
    BY DEF SpansKept
<1>2. QED
    BY <1>1 DEF AsyncInv, SendInv, SpansKept

\* Spans that stay: those left open and those of the sends.
LEMMA LogStays ==
    ASSUME AsyncInv, SpansKept, \A i \in lost : sw'.log[i].kind = sw.log[i].kind
    PROVE  /\ lost' = lost => LostInv'
           /\ sends' = sends => SendInv'
<1>1. \A i \in 1..Len(sw.log) : i \in 1..Len(sw'.log)
    BY DEF SpansKept
<1>2. ASSUME lost' = lost PROVE LostInv'
    <2>1. lost' \subseteq 1..Len(sw'.log)
        BY <1>1, <1>2 DEF AsyncInv, LostInv
    <2>2. ASSUME NEW i \in lost
          PROVE  /\ sw'.log[i].kind = "exit"
                 /\ sw'.log[i].parent.span \in 0..Len(sw'.log)
                 /\ sw'.log[i].parent.span \notin lost
        <3>1. i \in 1..Len(sw.log)
            BY DEF AsyncInv, LostInv
        <3>2. sw'.log[i].parent = sw.log[i].parent
            BY <3>1 DEF SpansKept
        <3>3. 0..Len(sw.log) \subseteq 0..Len(sw'.log)
            BY DEF SpansKept
        <3>4. QED
            BY <3>2, <3>3 DEF AsyncInv, LostInv
    <2>3. QED
        BY <1>2, <2>1, <2>2 DEF LostInv
<1>3. ASSUME sends' = sends PROVE SendInv'
    BY <1>3, SendsStay
<1>4. QED
    BY <1>2, <1>3

\* Spans that are over when the step ends, and contexts that stay.
LEMMA BriefSpansKeep ==
    ASSUME AsyncInv, sw' \in Tracings, Len(sw'.log) >= Len(sw.log),
           \A i \in 1..Len(sw.log) : sw'.log[i] = sw.log[i],
           \A i \in 1..Len(sw'.log) : i \notin 1..Len(sw.log) => sw'.log[i].depth = 0,
           \A h \in Async!All : /\ sw'.act[h].span = sw.act[h].span
                                /\ sw.act[h].span # 0 => sw'.act[h] = sw.act[h],
           UNCHANGED <<sends, stack, strayed, lost>>
    PROVE  AsyncInv'
<1>1. sw'.log \in Seq(LoggedSpans) /\ Len(sw'.log) \in Nat
    BY LenProperties DEF Tracings
<1>2. SpansKept
    BY <1>1, AsyncSizes DEF SpansKept
<1>3. AsyncTypeOK'
    BY DEF AsyncInv, AsyncTypeOK
<1>4. \A g, k : CallsKept(g, k)
    BY DEF CallsKept
<1>5. FrameInv'
    <2>1. ASSUME NEW g \in Async!All, NEW k \in 1..Len(stack[g]) PROVE FrameOK(g, k)'
        <3>1. FrameOK(g, k)
            BY DEF AsyncInv, FrameInv
        <3>2. stack[g][k].span # 0 => stack[g][k].span \in 1..Len(sw.log)
            BY <3>1 DEF FrameOK
        <3>3. QED
            BY <1>2, <1>4, <3>1, <3>2, FrameStays
    <2>2. QED
        BY <2>1 DEF FrameInv
<1>6. OwnerInv'
    BY DEF AsyncInv, OwnerInv
<1>7. ActInv'
    <2>1. ASSUME NEW g \in Async!All, sw'.act[g].span # 0
          PROVE  /\ ~sw'.act[g].snap
                 /\ sw'.act[g].span \in lost' => LeftBelow(g, Len(stack[g]) + 1, sw.act[g].span)'
                 /\ sw'.act[g].span \notin lost' => Covers(g, sw.act[g].span)'
        BY <1>2, <2>1, ActStays
    <2>2. QED
        BY <2>1 DEF ActInv
<1>8. NestInv'
    BY <1>2, NestStays DEF NestInv
<1>9. LogInv'
    <2>1. ASSUME NEW i \in 1..Len(sw'.log)
          PROVE  sw'.log[i].depth = 0 \/ sw'.log[i].name = "callback" \/ i \in lost \/ CallHas(i)'
        <3>1. CASE i \in 1..Len(sw.log)
            BY <3>1 DEF AsyncInv, LogInv, CallHas
        <3>2. CASE i \notin 1..Len(sw.log)
            BY <3>2
        <3>3. QED
            BY <3>1, <3>2
    <2>2. QED
        BY <2>1 DEF LogInv
<1>10. LostInv' /\ SendInv'
    <2>1. \A i \in lost : sw'.log[i].kind = sw.log[i].kind
        BY DEF AsyncInv, LostInv
    <2>2. QED
        BY <1>2, <2>1, LogStays
<1>11. QED
    BY <1>3, <1>5, <1>6, <1>7, <1>8, <1>9, <1>10 DEF AsyncInv

\* What a step does to the log that changes no more than the depth of span i.
OnlyDepthOf(i) ==
    /\ Len(sw'.log) = Len(sw.log)
    /\ \A j \in 1..Len(sw.log) :
          /\ j # i => sw'.log[j] = sw.log[j]
          /\ sw'.log[j].kind = sw.log[j].kind /\ sw'.log[j].name = sw.log[j].name
          /\ sw'.log[j].parent = sw.log[j].parent

\* A span that was left open is handed out again, or ended again, in user code.
LEMMA LostSpanMoves ==
    ASSUME AsyncInv, NEW g \in Async!All, NEW i \in lost, sw.act[g].span = i,
           sw' \in Tracings, OnlyDepthOf(i),
           \A h \in Async!All : h # g => sw'.act[h] = sw.act[h],
           sw'.act[g] = sw.act[g] \/ sw'.act[g] = sw.log[i].parent, RunsUser(g),
           UNCHANGED <<sends, stack, strayed, lost>>
    PROVE  AsyncInv'
<1>1. SpansKept
    BY AsyncSizes DEF SpansKept, OnlyDepthOf
<1>2. AsyncTypeOK'
    BY DEF AsyncInv, AsyncTypeOK
<1>3. (\A h, k : CallsKept(h, k)) /\ i # 0 /\ i \in 1..Len(sw.log)
    BY AsyncSizes DEF CallsKept, AsyncInv, LostInv
<1>4. FrameInv'
    <2>1. ASSUME NEW h \in Async!All, NEW k \in 1..Len(stack[h]) PROVE FrameOK(h, k)'
        <3>1. FrameOK(h, k)
            BY DEF AsyncInv, FrameInv
        <3>2. stack[h][k].span # 0 /\ stack[h][k].span \notin lost =>
                  sw'.log[stack[h][k].span] = sw.log[stack[h][k].span]
            BY <3>1 DEF FrameOK, OnlyDepthOf
        <3>3. QED
            BY <1>1, <1>3, <3>1, <3>2, FrameStays
    <2>2. QED
        BY <2>1 DEF FrameInv
<1>5. OwnerInv'
    BY DEF AsyncInv, OwnerInv
<1>6. ActInv'
    <2>1. ASSUME NEW h \in Async!All, sw'.act[h].span # 0, sw'.act[h] = sw.act[h]
          PROVE  /\ ~sw'.act[h].snap
                 /\ sw'.act[h].span \in lost' => LeftBelow(h, Len(stack[h]) + 1, sw.act[h].span)'
                 /\ sw'.act[h].span \notin lost' => Covers(h, sw.act[h].span)'
        BY <1>1, <2>1, ActStays
    <2>2. PICK n : n = sw.log[i].parent.span
        OBVIOUS
    <2>3. ASSUME sw'.act[g].span # 0, sw'.act[g] = sw.log[i].parent
          PROVE  ~sw'.act[g].snap /\ sw'.act[g].span = n /\ n \notin lost' /\ Covers(g, n)'
        <3>1. PICK up : up = sw.log[i].parent
            OBVIOUS
        <3>2. LeftBelow(g, Len(stack[g]) + 1, i)
            BY <1>3 DEF AsyncInv, ActInv
        <3>3. ~up.snap /\ Below(g, Len(stack[g]) + 1, n) /\ n \notin lost
            BY <2>2, <2>3, <3>1, <3>2 DEF LeftBelow, AsyncInv, LostInv
        <3>4. PICK j \in 1..((Len(stack[g]) + 1) - 1) : HasContext(g, j, n)
            BY <3>3 DEF Below
        <3>5. j \in 1..Len(stack[g])
            BY <3>4, AsyncSizes
        <3>6. Covers(g, n)'
            BY <3>4, <3>5 DEF Covers, HasContext
        <3>7. QED
            BY <2>2, <2>3, <3>1, <3>3, <3>6
    <2>4. ASSUME NEW h \in Async!All, sw'.act[h].span # 0
          PROVE  /\ ~sw'.act[h].snap
                 /\ sw'.act[h].span \in lost' => LeftBelow(h, Len(stack[h]) + 1, sw.act[h].span)'
                                                 /\ sw'.act[h] = sw.act[h]
                 /\ sw'.act[h].span \notin lost' => \/ Covers(h, sw.act[h].span)' /\ sw'.act[h] = sw.act[h]
                                                    \/ Covers(h, n)' /\ sw'.act[h].span = n
        <3>1. CASE sw'.act[h] = sw.act[h]
            BY <2>1, <2>4, <3>1
        <3>2. CASE sw'.act[h] # sw.act[h]
            <4>1. h = g /\ sw'.act[g] = sw.log[i].parent
                BY <3>2
            <4>2. QED
                BY <2>3, <2>4, <4>1
        <3>3. QED
            BY <3>1, <3>2
    <2>5. QED
        BY <2>4 DEF ActInv
<1>7. NestInv'
    <2>1. LeftBelow(g, Len(stack[g]) + 1, i)
        BY <1>3 DEF AsyncInv, ActInv
    <2>2. g \in strayed
        BY <2>1 DEF LeftBelow
    <2>3. ASSUME NEW h \in Async!All \ strayed
          PROVE  TopIsActive(h)' /\ \A k \in 1..Len(stack'[h]) : BelowIsParent(h, k)'
        <3>1. sw'.act[h] = sw.act[h] /\ stack'[h] = stack[h]
            BY <2>2
        <3>2. QED
            BY <1>1, <3>1, NestStays
    <2>4. QED
        BY <2>3 DEF NestInv
<1>8. LogInv'
    BY DEF AsyncInv, LogInv, OnlyDepthOf, CallHas
<1>9. LostInv' /\ SendInv'
    <2>1. \A j \in lost : sw'.log[j].kind = sw.log[j].kind
        BY DEF AsyncInv, LostInv, OnlyDepthOf
    <2>2. QED
        BY <1>1, <2>1, LogStays
<1>10. QED
    BY <1>2, <1>4, <1>5, <1>6, <1>7, <1>8, <1>9 DEF AsyncInv

\* What a push does to the calls.
PushedBy(g, f, m) ==
    /\ stack' \in [Async!All -> Seq(Frames)]
    /\ Len(stack'[g]) = m /\ stack'[g][m] = f /\ stack'[g] # <<>> /\ m \in Nat
    /\ \A h \in Async!All : h # g => stack'[h] = stack[h]
    /\ \A h \in Async!All : \A k \in 1..Len(stack[h]) :
          k \in 1..Len(stack'[h]) /\ stack'[h][k] = stack[h][k]
    /\ \A h \in Async!All : \A k \in 1..Len(stack'[h]) :
          \/ h = g /\ k = m
          \/ k \in 1..Len(stack[h]) /\ stack'[h][k] = stack[h][k]
    /\ \A h \in Async!All : \A k \in 1..(Len(stack[h]) + 1) : CallsKept(h, k)
LEMMA Pushed ==
    ASSUME AsyncInv, NEW g \in Async!All, NEW f \in Frames, NEW m, m = Len(stack[g]) + 1,
           stack' = [stack EXCEPT ![g] = Append(stack[g], f)]
    PROVE  PushedBy(g, f, m)
<1>1. /\ stack[g] \in Seq(Frames) /\ Len(stack[g]) \in Nat /\ m = Len(stack[g]) + 1
      /\ stack \in [Async!All -> Seq(Frames)]
    BY AsyncSizes DEF AsyncInv, AsyncTypeOK
<1>2. PICK s : s = Append(stack[g], f)
    OBVIOUS
<1>3. /\ s \in Seq(Frames) /\ Len(s) = m /\ s[m] = f
      /\ \A k \in 1..Len(stack[g]) : s[k] = stack[g][k]
      /\ s # <<>>
    BY <1>1, <1>2, AppendProperties
<1>4. /\ stack' \in [Async!All -> Seq(Frames)] /\ stack'[g] = s
      /\ \A h \in Async!All : h # g => stack'[h] = stack[h]
    BY <1>1, <1>2, <1>3
<1>5. \A k : k \in 1..m <=> k = m \/ k \in 1..Len(stack[g])
    BY <1>1
<1>6. \A h \in Async!All : \A k \in 1..Len(stack[h]) :
          k \in 1..Len(stack'[h]) /\ stack'[h][k] = stack[h][k]
    BY <1>3, <1>4, <1>5
<1>7. \A h \in Async!All : \A k \in 1..Len(stack'[h]) :
          \/ h = g /\ k = m
          \/ k \in 1..Len(stack[h]) /\ stack'[h][k] = stack[h][k]
    BY <1>3, <1>4, <1>5
<1>8. ASSUME NEW h \in Async!All, NEW k \in 1..(Len(stack[h]) + 1) PROVE CallsKept(h, k)
    <2>1. \A j \in 1..(k - 1) : j \in 1..Len(stack[h])
        BY AsyncSizes
    <2>2. QED
        BY <1>6, <2>1 DEF CallsKept
<1>9. QED
    BY <1>1, <1>3, <1>4, <1>6, <1>7, <1>8 DEF PushedBy

\* A call without a span goes under way: the others are as they were.
LEMMA PlainPushKeeps ==
    ASSUME AsyncInv, NEW g \in Async!All, NEW f \in Frames,
           f.span = 0, f.op \in {"callback", "consume"},
           stack' = [stack EXCEPT ![g] = Append(stack[g], f)], SpansKept, lost' = lost,
           \A i \in 1..Len(sw.log) : sw'.log[i] = sw.log[i],
           \A i \in 1..Len(sw'.log) : i \notin 1..Len(sw.log) => sw'.log[i].name = "callback"
    PROVE  FrameInv' /\ OwnerInv' /\ LogInv' /\ LostInv'
<1>1. PICK m : m = Len(stack[g]) + 1 /\ PushedBy(g, f, m)
    BY Pushed
<1>2. /\ stack'[g][m] = f
      /\ \A h \in Async!All : \A k \in 1..Len(stack[h]) :
            k \in 1..Len(stack'[h]) /\ stack'[h][k] = stack[h][k]
      /\ \A h \in Async!All : \A k \in 1..Len(stack'[h]) :
            \/ h = g /\ k = m
            \/ k \in 1..Len(stack[h]) /\ stack'[h][k] = stack[h][k]
      /\ \A h \in Async!All : \A k \in 1..(Len(stack[h]) + 1) : CallsKept(h, k)
    BY <1>1, Zenon DEF PushedBy
<1>3. FrameInv'
    <2>1. FrameOK(g, m)'
        <3>1. stack'[g][m].span = 0 /\ stack'[g][m].op \in {"callback", "consume"}
            BY <1>2
        <3>2. QED
            BY <3>1 DEF FrameOK, SpansKept
    <2>2. ASSUME NEW h \in Async!All, NEW k \in 1..Len(stack[h]) PROVE FrameOK(h, k)'
        <3>1. FrameOK(h, k) /\ stack'[h][k] = stack[h][k]
            BY <1>2 DEF AsyncInv, FrameInv
        <3>2. k \in 1..(Len(stack[h]) + 1)
            BY AsyncSizes
        <3>3. CallsKept(h, k)
            BY <1>2, <3>2
        <3>4. stack[h][k].span # 0 => sw'.log[stack[h][k].span] = sw.log[stack[h][k].span]
            BY <3>1 DEF FrameOK
        <3>5. QED
            BY <3>1, <3>3, <3>4, FrameStays
    <2>3. QED
        BY <1>2, <2>1, <2>2 DEF FrameInv
<1>4. OwnerInv'
    <2>1. ASSUME NEW h \in Async!All, NEW k \in 1..Len(stack'[h]), stack'[h][k].span # 0
          PROVE  k \in 1..Len(stack[h]) /\ stack'[h][k] = stack[h][k]
        BY <1>2, <2>1
    <2>2. QED
        BY <2>1, OwnersStay
<1>5. LogInv'
    <2>1. ASSUME NEW i \in 1..Len(sw.log), CallHas(i) PROVE CallHas(i)'
        <3>1. PICK h \in Async!All : \E k \in 1..Len(stack[h]) : stack[h][k].span = i
            BY <2>1 DEF CallHas
        <3>2. PICK k \in 1..Len(stack[h]) : stack[h][k].span = i
            BY <3>1
        <3>3. k \in 1..Len(stack'[h]) /\ stack'[h][k].span = i
            BY <1>2, <3>2
        <3>4. QED
            BY <3>3 DEF CallHas
    <2>2. ASSUME NEW i \in 1..Len(sw'.log)
          PROVE  sw'.log[i].depth = 0 \/ sw'.log[i].name = "callback" \/ i \in lost \/ CallHas(i)'
        <3>1. CASE i \in 1..Len(sw.log)
            BY <2>1, <3>1 DEF AsyncInv, LogInv
        <3>2. CASE i \notin 1..Len(sw.log)
            BY <3>2
        <3>3. QED
            BY <3>1, <3>2
    <2>3. QED
        BY <2>2 DEF LogInv
<1>6. LostInv'
    <2>1. \A i \in lost : sw'.log[i].kind = sw.log[i].kind
        BY DEF AsyncInv, LostInv
    <2>2. QED
        BY <2>1, LogStays
<1>7. QED
    BY <1>3, <1>4, <1>5, <1>6

\* What the start of the call f does to the log, to the context and to the calls of g.
LogsCall(g, f) ==
    /\ Len(sw'.log) = Len(sw.log) + 1 /\ f.span = Len(sw'.log)
    /\ \A i \in 1..Len(sw.log) : sw'.log[i] = sw.log[i]
    /\ sw'.log[Len(sw'.log)].kind = KindOf(f.op) /\ sw'.log[Len(sw'.log)].depth = 1
    /\ sw'.log[Len(sw'.log)].parent =
          IF sw.act[g] = Async!NoContext THEN Async!NoSpan ELSE sw.act[g]
ActsForCall(g) ==
    /\ sw'.act[g].span = Len(sw'.log) /\ ~sw'.act[g].snap
    /\ \A h \in Async!All : h # g => sw'.act[h] = sw.act[h]
PushesCall(g, f) ==
    /\ RunsUser(g)
    /\ stack' = [stack EXCEPT ![g] = Append(stack[g], f)]

\* A call starts a span and goes under way with it.
LEMMA CallStarts ==
    ASSUME AsyncInv, NEW g \in Async!All, NEW f \in Frames, f.op \in {"app", "SendAsync", "consume"},
           sw' \in Tracings, LogsCall(g, f), ActsForCall(g), PushesCall(g, f),
           strayed' = strayed, lost' = lost
    PROVE  /\ (sends' \in Seq(Sends)) => AsyncTypeOK'
           /\ FrameInv' /\ OwnerInv' /\ ActInv' /\ NestInv' /\ LogInv' /\ LostInv' /\ SpansKept
<1>1. /\ stack[g] \in Seq(Frames) /\ Len(stack[g]) \in Nat
      /\ Len(sw.log) \in Nat /\ 0 \notin lost /\ lost \subseteq 1..Len(sw.log)
    BY AsyncSizes DEF AsyncInv, LostInv
<1>2. PICK n, m : n = Len(sw'.log) /\ m = Len(stack[g]) + 1 /\ PushedBy(g, f, m)
    BY Pushed DEF PushesCall
<1>3. /\ n \in Nat \ {0} /\ n \notin 1..Len(sw.log) /\ m \in Nat \ {0} /\ m \notin 1..Len(stack[g])
      /\ \A i : i \in 1..n <=> i = n \/ i \in 1..Len(sw.log)
      /\ m \in 1..(Len(stack[g]) + 1) /\ n \notin lost
    <2>1. n = Len(sw.log) + 1
        BY <1>2 DEF LogsCall
    <2>2. QED
        BY <1>1, <1>2, <2>1
<1>4. /\ Len(sw'.log) = n /\ f.span = n /\ \A i \in 1..Len(sw.log) : sw'.log[i] = sw.log[i]
      /\ sw'.log[n].kind = KindOf(f.op) /\ sw'.log[n].depth = 1
    BY <1>2 DEF LogsCall
<1>5. /\ sw'.act[g].span = n /\ ~sw'.act[g].snap
      /\ \A h \in Async!All : h # g => sw'.act[h] = sw.act[h]
    BY <1>2 DEF ActsForCall
<1>6. /\ stack' \in [Async!All -> Seq(Frames)] /\ Len(stack'[g]) = m /\ stack'[g][m] = f
      /\ stack'[g] # <<>> /\ \A h \in Async!All : h # g => stack'[h] = stack[h]
    BY <1>2, Zenon DEF PushedBy
<1>7. /\ \A h \in Async!All : \A k \in 1..Len(stack[h]) :
            k \in 1..Len(stack'[h]) /\ stack'[h][k] = stack[h][k]
      /\ \A h \in Async!All : \A k \in 1..Len(stack'[h]) :
            \/ h = g /\ k = m
            \/ k \in 1..Len(stack[h]) /\ stack'[h][k] = stack[h][k]
      /\ \A h \in Async!All : \A k \in 1..(Len(stack[h]) + 1) : CallsKept(h, k)
    BY <1>2, Zenon DEF PushedBy
<1>8. sends' \in Seq(Sends) => AsyncTypeOK'
    BY <1>6 DEF AsyncTypeOK
<1>9. SpansKept
    <2>1. Len(sw'.log) >= Len(sw.log) /\ Len(sw'.log) \in Nat
        BY <1>1 DEF LogsCall
    <2>2. QED
        BY <1>1, <1>4, <2>1 DEF SpansKept
\* Frames that were there are unchanged, and so are their spans.
<1>10. ASSUME NEW h \in Async!All, NEW k \in 1..Len(stack[h]), stack[h][k].span # 0
       PROVE  /\ stack[h][k].span \in 1..Len(sw.log) /\ stack[h][k].span # n
              /\ sw'.log[stack[h][k].span] = sw.log[stack[h][k].span]
    <2>1. FrameOK(h, k)
        BY DEF AsyncInv, FrameInv
    <2>2. stack[h][k].span \in 1..Len(sw.log)
        BY <1>10, <2>1 DEF FrameOK
    <2>3. QED
        BY <1>3, <1>4, <2>2
<1>11. PICK up : up = sw'.log[n].parent
    OBVIOUS
<1>12. up.span = sw.act[g].span /\ Context(g, m, up)
    <2>1. up = IF sw.act[g] = Async!NoContext THEN Async!NoSpan ELSE sw.act[g]
        BY <1>2, <1>11 DEF LogsCall
    <2>2. Async!NoContext.span = 0 /\ Async!NoSpan.span = 0
        BY DEF Async!NoContext, Async!NoSpan
    <2>3. Context(g, m, sw.act[g])
        BY <1>2, ActIsContext DEF PushesCall
    <2>4. CASE sw.act[g] = Async!NoContext
        BY <2>1, <2>2, <2>4 DEF Context
    <2>5. CASE sw.act[g] # Async!NoContext
        BY <2>1, <2>3, <2>5
    <2>6. QED
        BY <2>4, <2>5
<1>13. FrameInv'
    <2>1. FrameOK(g, m)'
        <3>1. Context(g, m, up)'
            BY <1>3, <1>7, <1>9, <1>12, ContextStays
        <3>2. /\ stack'[g][m].span = n /\ stack'[g][m].op = f.op /\ sw'.log[n].parent = up
              /\ n \in 1..Len(sw'.log) /\ n # 0 /\ n \notin lost'
            BY <1>3, <1>4, <1>6, <1>11
        <3>3. QED
            BY <1>4, <3>1, <3>2 DEF FrameOK
    <2>2. ASSUME NEW h \in Async!All, NEW k \in 1..Len(stack[h]) PROVE FrameOK(h, k)'
        <3>1. FrameOK(h, k) /\ stack'[h][k] = stack[h][k]
            BY <1>7 DEF AsyncInv, FrameInv
        <3>2. k \in 1..(Len(stack[h]) + 1)
            BY AsyncSizes
        <3>3. CallsKept(h, k)
            BY <1>7, <3>2
        <3>4. QED
            BY <1>9, <1>10, <3>1, <3>3, FrameStays
    <2>3. QED
        BY <1>7, <2>1, <2>2 DEF FrameInv
<1>14. OwnerInv'
    <2>1. ASSUME NEW h \in Async!All, NEW k \in 1..Len(stack'[h]), stack'[h][k].span = n
          PROVE  h = g /\ k = m
        <3>1. ASSUME k \in 1..Len(stack[h]), stack'[h][k] = stack[h][k] PROVE FALSE
            BY <1>3, <1>10, <2>1, <3>1
        <3>2. QED
            BY <1>7, <3>1
    <2>2. ASSUME NEW x \in Async!All, NEW y \in Async!All,
                 NEW k \in 1..Len(stack'[x]), NEW l \in 1..Len(stack'[y]),
                 stack'[x][k].span # 0, stack'[x][k].span \notin lost,
                 stack'[x][k].span = stack'[y][l].span
          PROVE  x = y /\ k = l
        <3>1. CASE stack'[x][k].span = n
            BY <2>1, <2>2, <3>1
        <3>2. CASE stack'[x][k].span # n
            <4>1. /\ k \in 1..Len(stack[x]) /\ stack'[x][k] = stack[x][k]
                  /\ l \in 1..Len(stack[y]) /\ stack'[y][l] = stack[y][l]
                BY <1>4, <1>6, <1>7, <2>2, <3>2
            <4>2. QED
                BY <2>2, <4>1 DEF AsyncInv, OwnerInv
        <3>3. QED
            BY <3>1, <3>2
    <2>3. QED
        BY <2>2 DEF OwnerInv
<1>15. ActInv'
    <2>1. Covers(g, n)'
        <3>1. m \in 1..Len(stack'[g]) /\ stack'[g][m].span = n /\ ~(m < Len(stack'[g]))
            BY <1>3, <1>4, <1>6
        <3>2. QED
            BY <3>1 DEF Covers
    <2>2. ASSUME NEW h \in Async!All, h # g, sw'.act[h].span # 0
          PROVE  /\ ~sw'.act[h].snap
                 /\ sw'.act[h].span \in lost' => LeftBelow(h, Len(stack[h]) + 1, sw.act[h].span)'
                 /\ sw'.act[h].span \notin lost' => Covers(h, sw.act[h].span)'
        BY <1>5, <1>6, <1>9, <2>2, ActStays
    <2>3. \A h \in Async!All : h # g => sw'.act[h] = sw.act[h] /\ stack'[h] = stack[h]
        BY <1>5, <1>6
    <2>4. QED
        BY <1>3, <1>5, <2>1, <2>2, <2>3 DEF ActInv
<1>16. NestInv'
    <2>1. ASSUME NEW h \in Async!All \ strayed, h # g
          PROVE  TopIsActive(h)' /\ \A k \in 1..Len(stack'[h]) : BelowIsParent(h, k)'
        BY <1>5, <1>6, <1>9, <2>1, NestStays
    <2>2. ASSUME g \notin strayed
          PROVE  TopIsActive(g)' /\ \A k \in 1..Len(stack'[g]) : BelowIsParent(g, k)'
        <3>1. TopIsActive(g) /\ \A k \in 1..Len(stack[g]) : BelowIsParent(g, k)
            BY <2>2 DEF AsyncInv, NestInv
        <3>2. TopIsActive(g)'
            BY <1>4, <1>5, <1>6 DEF TopIsActive
        <3>3. ASSUME NEW k \in 1..Len(stack[g]) PROVE BelowIsParent(g, k)'
            <4>1. stack'[g][k] = stack[g][k] /\ (k # 1 => stack'[g][k - 1] = stack[g][k - 1])
                <5>1. k # 1 => k - 1 \in 1..Len(stack[g])
                    BY <1>1
                <5>2. QED
                    BY <1>7, <5>1
            <4>2. PICK i, below : i = stack[g][k].span /\ below = stack[g][k - 1]
                OBVIOUS
            <4>3. i # 0 => sw'.log[i] = sw.log[i]
                BY <1>10, <4>2
            <4>4. /\ i = 0 => k = 1
                  /\ i # 0 => sw.log[i].parent.span = IF k = 1 THEN 0 ELSE below.span
                BY <3>1, <4>2 DEF BelowIsParent
            <4>5. stack'[g][k].span = i /\ (k # 1 => stack'[g][k - 1] = below)
                BY <4>1, <4>2
            <4>6. QED
                BY <4>3, <4>4, <4>5 DEF BelowIsParent
        <3>4. BelowIsParent(g, m)'
            <4>1. up.span = IF m = 1 THEN 0 ELSE stack'[g][m - 1].span
                <5>1. CASE stack[g] = <<>>
                    BY <1>2, <1>12, <3>1, <5>1 DEF TopIsActive
                <5>2. CASE stack[g] # <<>>
                    <6>1. Len(stack[g]) \in 1..Len(stack[g]) /\ m # 1 /\ m - 1 = Len(stack[g])
                        BY <1>1, <1>2, <5>2, EmptySeq
                    <6>2. QED
                        BY <1>7, <1>12, <3>1, <5>2, <6>1 DEF TopIsActive
                <5>3. QED
                    BY <5>1, <5>2
            <4>2. stack'[g][m].span = n /\ n # 0 /\ sw'.log[n].parent = up
                BY <1>3, <1>4, <1>6, <1>11
            <4>3. QED
                BY <4>1, <4>2 DEF BelowIsParent
        <3>5. \A k \in 1..Len(stack'[g]) : k = m \/ k \in 1..Len(stack[g])
            BY <1>7
        <3>6. QED
            BY <3>2, <3>3, <3>4, <3>5
    <2>3. QED
        BY <2>1, <2>2 DEF NestInv
<1>17. LogInv'
    <2>1. CallHas(n)'
        <3>1. m \in 1..Len(stack'[g]) /\ stack'[g][m].span = n
            BY <1>3, <1>4, <1>6
        <3>2. QED
            BY <3>1 DEF CallHas
    <2>2. ASSUME NEW i \in 1..Len(sw.log), CallHas(i) PROVE CallHas(i)'
        <3>1. PICK h \in Async!All : \E k \in 1..Len(stack[h]) : stack[h][k].span = i
            BY <2>2 DEF CallHas
        <3>2. PICK k \in 1..Len(stack[h]) : stack[h][k].span = i
            BY <3>1
        <3>3. k \in 1..Len(stack'[h]) /\ stack'[h][k].span = i
            BY <1>7, <3>2
        <3>4. QED
            BY <3>3 DEF CallHas
    <2>3. ASSUME NEW i \in 1..Len(sw'.log)
          PROVE  sw'.log[i].depth = 0 \/ sw'.log[i].name = "callback" \/ i \in lost \/ CallHas(i)'
        <3>1. CASE i = n
            BY <2>1, <3>1
        <3>2. CASE i \in 1..Len(sw.log)
            BY <1>4, <2>2, <3>2 DEF AsyncInv, LogInv
        <3>3. QED
            BY <1>3, <1>4, <3>1, <3>2
    <2>4. QED
        BY <2>3 DEF LogInv
<1>18. LostInv'
    <2>1. \A i \in lost : sw'.log[i].kind = sw.log[i].kind
        BY <1>1, <1>4
    <2>2. QED
        BY <1>9, <2>1, LogStays
<1>19. QED
    BY <1>8, <1>9, <1>13, <1>14, <1>15, <1>16, <1>17, <1>18

\* What the return of f, the innermost call of g, does to the calls and to the trace.
PopsCall(g, f) ==
    /\ stack[g] # <<>> /\ f = stack[g][Len(stack[g])]
    /\ stack' = [stack EXCEPT ![g] = Front(stack[g])]
EndsCall(g, f) == sw' = IF f.span = 0 THEN sw ELSE Async!EndSpan(sw, g, f.span)

ActEnds(g, f) ==
    \/ /\ sw'.act[g] = sw.act[g]
       /\ f.span # 0 /\ f.span \notin lost => sw.act[g] = Async!NoContext
    \/ f.span # 0 /\ sw'.act[g] = sw.log[f.span].parent

\* What it does to the log: only its own span changes, which is over unless it was
\* one left open.
LEMMA CallEndsSpan ==
    ASSUME AsyncInv, NEW g \in Async!All, NEW f, FrameOK(g, Len(stack[g])),
           f = stack[g][Len(stack[g])], EndsCall(g, f)
    PROVE  /\ sw' \in Tracings /\ OnlyDepthOf(f.span)
           /\ f.span # 0 /\ f.span \notin lost => sw'.log[f.span].depth = 0
           /\ \A h \in Async!All : h # g => sw'.act[h] = sw.act[h]
           /\ ActEnds(g, f)
<1>1. sw \in Tracings
    BY AsyncSizes
<1>2. CASE f.span = 0
    BY <1>1, <1>2, AsyncSizes DEF EndsCall, OnlyDepthOf, ActEnds
<1>3. CASE f.span # 0
    <2>1. PICK i \in 1..Len(sw.log) : i = f.span
        BY <1>3 DEF FrameOK
    <2>2. PICK t, u : t \in Tracings /\ t = sw /\ u = sw'
        BY <1>1
    <2>3. i \in 1..Len(t.log) /\ u = Async!EndSpan(t, g, i)
        BY <1>3, <2>1, <2>2 DEF EndsCall
    <2>4. DepthMoves(t, u, g, i) /\ (u.act[g] = t.act[g] \/ u.act[g] = t.log[i].parent)
        BY <2>2, <2>3, EndAnySpan
    <2>5. sw' \in Tracings /\ OnlyDepthOf(i) /\ \A h \in Async!All : h # g => sw'.act[h] = sw.act[h]
        BY <2>2, <2>4 DEF OnlyDepthOf, DepthMoves
    <2>6. CASE i \in lost
        BY <1>3, <2>1, <2>2, <2>4, <2>5, <2>6 DEF ActEnds
    <2>7. CASE i \notin lost
        <3>1. t.log[i].depth = 1
            BY <1>3, <2>1, <2>2, <2>7 DEF FrameOK
        <3>2. /\ u.log[i].depth = 0
              /\ u.act[g] = IF t.act[g] = Async!NoContext THEN t.act[g] ELSE t.log[i].parent
            BY <2>2, <2>3, <3>1, EndSpanEnds
        <3>3. QED
            BY <1>3, <2>1, <2>2, <2>5, <3>2 DEF ActEnds
    <2>8. QED
        BY <2>6, <2>7
<1>4. QED
    BY <1>2, <1>3

\* A context that remains when the innermost call of g, the m-th, has gone.
ContextAfter(g, m, c) ==
    /\ ~c.snap
    /\ c.span \in lost => LeftBelow(g, m, c.span)
    /\ c.span \notin lost => Below(g, m, c.span)

\* The context does not hang on a call that has no span, or one that was left open.
LEMMA ContextWithout ==
    ASSUME AsyncInv, NEW g \in Async!All, NEW f, NEW m \in Nat \ {0}, m = Len(stack[g]),
           f = stack[g][m], f.span = 0 \/ f.span \in lost, f.span # 0 => f.op = "SendAsync",
           sw.act[g].span # 0
    PROVE  ContextAfter(g, m, sw.act[g])
<1>1. PICK n : n = sw.act[g].span
    OBVIOUS
<1>2. /\ ~sw.act[g].snap /\ (n \in lost => LeftBelow(g, m + 1, n))
      /\ n \notin lost => Covers(g, n)
    BY <1>1 DEF AsyncInv, ActInv
<1>3. CASE n \in lost
    <2>1. PICK up : up = sw.log[n].parent
        OBVIOUS
    <2>2. g \in strayed /\ (up.span # 0 => ~up.snap /\ Below(g, m + 1, up.span))
        BY <1>2, <1>3, <2>1 DEF LeftBelow
    <2>3. ASSUME up.span # 0 PROVE Below(g, m, up.span)
        <3>1. PICK j \in 1..((m + 1) - 1) : HasContext(g, j, up.span)
            BY <2>2, <2>3 DEF Below
        <3>2. j # m
            BY <2>3, <3>1 DEF HasContext
        <3>3. j \in 1..(m - 1)
            BY <3>1, <3>2
        <3>4. QED
            BY <3>1, <3>3 DEF Below
    <2>4. LeftBelow(g, m, n)
        BY <2>1, <2>2, <2>3 DEF LeftBelow
    <2>5. QED
        BY <1>1, <1>2, <1>3, <2>4 DEF ContextAfter
<1>4. CASE n \notin lost
    <2>1. PICK k \in 1..Len(stack[g]) :
             stack[g][k].span = n /\ (k < Len(stack[g]) => stack[g][k].op # "SendAsync")
        BY <1>2, <1>4 DEF Covers
    <2>2. k # m
        BY <1>1, <1>4, <2>1
    <2>3. k \in 1..(m - 1) /\ k < Len(stack[g])
        BY <2>1, <2>2
    <2>4. Below(g, m, n)
        BY <2>1, <2>3 DEF Below, HasContext
    <2>5. QED
        BY <1>1, <1>2, <1>4, <2>4 DEF ContextAfter
<1>5. QED
    BY <1>3, <1>4

\* A call is over: its span ends, and the one below is the context again.
LEMMA CallReturns ==
    ASSUME AsyncInv, NEW g \in Async!All, NEW f, PopsCall(g, f), EndsCall(g, f),
           UNCHANGED <<sends, strayed, lost>>
    PROVE  AsyncInv'
<1>1. PICK m : m = Len(stack[g])
    OBVIOUS
<1>2. stack[g] \in Seq(Frames) /\ m \in Nat \ {0} /\ m \in 1..Len(stack[g]) /\ f = stack[g][m]
    BY <1>1, AsyncSizes, EmptySeq DEF PopsCall
<1>3. /\ stack' \in [Async!All -> Seq(Frames)] /\ Len(stack'[g]) = m - 1
      /\ \A k \in 1..(m - 1) : stack'[g][k] = stack[g][k]
      /\ \A h \in Async!All : h # g => stack'[h] = stack[h]
    <2>1. /\ Front(stack[g]) \in Seq(Frames) /\ Len(Front(stack[g])) = m - 1
          /\ \A k \in 1..(m - 1) : Front(stack[g])[k] = stack[g][k]
        BY <1>1, <1>2, FrontProperties
    <2>2. QED
        BY <2>1 DEF AsyncInv, AsyncTypeOK, PopsCall
<1>4. /\ \A k : k \in 1..(m - 1) <=> (k \in 1..Len(stack[g]) /\ k # m)
      /\ \A k \in 1..Len(stack[g]) : k <= m /\ (k # m => k < m)
    BY <1>1, <1>2
<1>5. \A h \in Async!All : \A k \in 1..Len(stack'[h]) :
          /\ k \in 1..Len(stack[h]) /\ stack'[h][k] = stack[h][k] /\ ~(h = g /\ k = m)
    BY <1>1, <1>3, <1>4
<1>6. FrameOK(g, m) /\ (g \notin strayed => BelowIsParent(g, m) /\ TopIsActive(g))
    BY <1>2 DEF AsyncInv, FrameInv, NestInv
\* What becomes of the log and of the context.
<1>7. /\ sw' \in Tracings /\ OnlyDepthOf(f.span)
      /\ f.span # 0 /\ f.span \notin lost => sw'.log[f.span].depth = 0
      /\ \A h \in Async!All : h # g => sw'.act[h] = sw.act[h]
    <2>1. FrameOK(g, Len(stack[g])) /\ f = stack[g][Len(stack[g])]
        BY <1>1, <1>2, <1>6
    <2>2. QED
        BY <2>1, CallEndsSpan
<1>8. ActEnds(g, f)
    <2>1. FrameOK(g, Len(stack[g])) /\ f = stack[g][Len(stack[g])]
        BY <1>1, <1>2, <1>6
    <2>2. QED
        BY <2>1, CallEndsSpan
<1>9. AsyncTypeOK' /\ SpansKept
    <2>1. SpansKept
        BY <1>7, AsyncSizes DEF SpansKept, OnlyDepthOf
    <2>2. QED
        BY <1>3, <1>7, <2>1 DEF AsyncInv, AsyncTypeOK
<1>10. ASSUME NEW h \in Async!All, NEW k \in 1..(Len(stack'[h]) + 1) PROVE CallsKept(h, k)
    <2>1. Len(stack'[h]) \in Nat
        BY <1>3, LenProperties
    <2>2. \A j \in 1..(k - 1) : j \in 1..Len(stack'[h])
        BY <2>1
    <2>3. QED
        BY <1>5, <2>2 DEF CallsKept
\* The spans of the calls that go on are not the one that ended.
<1>11. ASSUME NEW h \in Async!All, NEW k \in 1..Len(stack'[h]), stack[h][k].span # 0,
              stack[h][k].span \notin lost
       PROVE  /\ stack[h][k].span \in 1..Len(sw.log) /\ stack[h][k].span # f.span
              /\ sw'.log[stack[h][k].span] = sw.log[stack[h][k].span]
    <2>1. k \in 1..Len(stack[h]) /\ ~(h = g /\ k = m)
        BY <1>5
    <2>2. stack[h][k].span # f.span
        BY <1>2, <1>11, <2>1 DEF AsyncInv, OwnerInv
    <2>3. FrameOK(h, k)
        BY <2>1 DEF AsyncInv, FrameInv
    <2>4. stack[h][k].span \in 1..Len(sw.log)
        BY <1>11, <2>3 DEF FrameOK
    <2>5. QED
        BY <1>7, <2>2, <2>4 DEF OnlyDepthOf
<1>12. FrameInv'
    <2>1. ASSUME NEW h \in Async!All, NEW k \in 1..Len(stack'[h]) PROVE FrameOK(h, k)'
        <3>1. FrameOK(h, k) /\ stack'[h][k] = stack[h][k]
            BY <1>5 DEF AsyncInv, FrameInv
        <3>2. k \in 1..(Len(stack'[h]) + 1)
            BY <1>3, LenProperties
        <3>3. CallsKept(h, k)
            BY <1>10, <3>2
        <3>4. QED
            BY <1>9, <1>11, <3>1, <3>3, FrameStays
    <2>2. QED
        BY <2>1 DEF FrameInv
<1>13. OwnerInv'
    BY <1>5, OwnersStay
<1>14. ActInv'
    <2>1. ASSUME NEW h \in Async!All, h # g, sw'.act[h].span # 0
          PROVE  /\ ~sw'.act[h].snap
                 /\ sw'.act[h].span \in lost' => LeftBelow(h, Len(stack[h]) + 1, sw.act[h].span)'
                 /\ sw'.act[h].span \notin lost' => Covers(h, sw.act[h].span)'
        BY <1>3, <1>7, <1>9, <2>1, ActStays
    <2>2. \A h \in Async!All : h # g => sw'.act[h] = sw.act[h] /\ stack'[h] = stack[h]
        BY <1>3, <1>7
    <2>3. ASSUME sw'.act[g].span # 0 PROVE ContextAfter(g, m, sw'.act[g])
        <3>1. CASE /\ sw'.act[g] = sw.act[g]
                   /\ f.span # 0 /\ f.span \notin lost => sw.act[g] = Async!NoContext
            <4>1. f.span = 0 \/ f.span \in lost
                BY <2>3, <3>1 DEF Async!NoContext
            <4>2. f.span # 0 => f.op = "SendAsync"
                BY <1>2, <1>6, <4>1 DEF FrameOK
            <4>3. QED
                BY <1>1, <1>2, <2>3, <3>1, <4>1, <4>2, ContextWithout
        <3>2. CASE f.span # 0 /\ sw'.act[g] = sw.log[f.span].parent
            <4>1. PICK up : up = sw.log[f.span].parent
                OBVIOUS
            <4>2. CASE f.span \in lost
                <5>1. LeftBelow(g, m, f.span) /\ up.span \notin lost
                    BY <1>2, <1>6, <4>1, <4>2 DEF FrameOK, AsyncInv, LostInv
                <5>2. QED
                    BY <2>3, <3>2, <4>1, <5>1 DEF LeftBelow, ContextAfter
            <4>3. CASE f.span \notin lost
                <5>1. Context(g, m, up)
                    BY <1>2, <1>6, <3>2, <4>1, <4>3 DEF FrameOK
                <5>2. QED
                    BY <2>3, <3>2, <4>1, <5>1 DEF Context, ContextAfter
            <4>4. QED
                BY <4>2, <4>3
        <3>3. QED
            BY <1>8, <3>1, <3>2 DEF ActEnds
    <2>4. PICK n : n = sw'.act[g].span
        OBVIOUS
    <2>5. ASSUME n # 0
          PROVE  /\ ~sw'.act[g].snap
                 /\ n \in lost' => LeftBelow(g, m, n)'
                 /\ n \notin lost' => Covers(g, n)'
        <3>1. /\ ~sw'.act[g].snap /\ (n \in lost => LeftBelow(g, m, n))
              /\ n \notin lost => \E k \in 1..(m - 1) : HasContext(g, k, n)
            BY <2>3, <2>4, <2>5 DEF ContextAfter, Below
        <3>2. CASE n \in lost
            <4>1. n \in 1..Len(sw.log) /\ CallsKept(g, m)
                <5>1. m \in 1..(Len(stack'[g]) + 1)
                    BY <1>2, <1>3
                <5>2. QED
                    BY <1>10, <3>2, <5>1 DEF AsyncInv, LostInv
            <4>2. LeftBelow(g, m, n)'
                BY <1>9, <3>1, <3>2, <4>1, LeftStays
            <4>3. QED
                BY <3>1, <3>2, <4>2
        <3>3. CASE n \notin lost
            <4>1. Covers(g, n)'
                BY <1>3, <3>1, <3>3 DEF Covers, HasContext
            <4>2. QED
                BY <3>1, <3>3, <4>1
        <3>4. QED
            BY <3>2, <3>3
    <2>6. Len(stack'[g]) + 1 = m
        BY <1>2, <1>3
    <2>7. QED
        BY <2>1, <2>2, <2>4, <2>5, <2>6 DEF ActInv
<1>15. NestInv'
    <2>1. ASSUME NEW h \in Async!All \ strayed, h # g
          PROVE  TopIsActive(h)' /\ \A k \in 1..Len(stack'[h]) : BelowIsParent(h, k)'
        BY <1>3, <1>7, <1>9, <2>1, NestStays
    <2>2. ASSUME g \notin strayed
          PROVE  TopIsActive(g)' /\ \A k \in 1..Len(stack'[g]) : BelowIsParent(g, k)'
        <3>1. f.span \notin lost
            BY <1>2, <1>6, <2>2 DEF FrameOK, LeftBelow
        <3>2. sw.act[g].span = f.span
            BY <1>1, <1>2, <1>6, <2>2 DEF TopIsActive
        <3>3. sw'.act[g].span = IF m = 1 THEN 0 ELSE stack[g][m - 1].span
            <4>1. CASE f.span = 0
                BY <1>2, <1>6, <1>8, <2>2, <3>2, <4>1 DEF BelowIsParent, ActEnds
            <4>2. CASE f.span # 0
                <5>1. sw'.act[g] = sw.log[f.span].parent
                    BY <1>8, <3>1, <3>2, <4>2 DEF Async!NoContext, ActEnds
                <5>2. QED
                    BY <1>2, <1>6, <2>2, <4>2, <5>1 DEF BelowIsParent
            <4>3. QED
                BY <4>1, <4>2
        <3>4. TopIsActive(g)'
            <4>1. stack'[g] \in Seq(Frames)
                BY <1>3
            <4>2. m = 1 <=> stack'[g] = <<>>
                BY <1>2, <1>3, <4>1, EmptySeq
            <4>3. m # 1 => m - 1 \in 1..(m - 1)
                BY <1>2
            <4>4. QED
                BY <1>3, <3>3, <4>2, <4>3 DEF TopIsActive
        <3>5. ASSUME NEW k \in 1..Len(stack'[g]) PROVE BelowIsParent(g, k)'
            <4>1. BelowIsParent(g, k) /\ stack'[g][k] = stack[g][k]
                BY <1>5, <2>2 DEF AsyncInv, NestInv
            <4>2. k # 1 => stack'[g][k - 1] = stack[g][k - 1]
                <5>1. Len(stack'[g]) \in Nat
                    BY <1>3, LenProperties
                <5>2. k # 1 => k - 1 \in 1..Len(stack'[g])
                    BY <5>1
                <5>3. QED
                    BY <1>5, <5>2
            <4>3. PICK i, below : i = stack[g][k].span /\ below = stack[g][k - 1]
                OBVIOUS
            <4>4. /\ i = 0 => k = 1
                  /\ i # 0 => sw.log[i].parent.span = IF k = 1 THEN 0 ELSE below.span
                BY <4>1, <4>3 DEF BelowIsParent
            <4>5. i # 0 => sw'.log[i].parent = sw.log[i].parent
                <5>1. i # 0 => i \in 1..Len(sw.log)
                    BY <1>5, <4>3 DEF AsyncInv, FrameInv, FrameOK
                <5>2. QED
                    BY <1>7, <5>1 DEF OnlyDepthOf
            <4>6. stack'[g][k].span = i /\ (k # 1 => stack'[g][k - 1] = below)
                BY <4>1, <4>2, <4>3
            <4>7. QED
                BY <4>4, <4>5, <4>6 DEF BelowIsParent
        <3>6. QED
            BY <3>4, <3>5
    <2>3. QED
        BY <2>1, <2>2 DEF NestInv
<1>16. LogInv'
    <2>1. ASSUME NEW i \in 1..Len(sw.log), i # f.span, CallHas(i) PROVE CallHas(i)'
        <3>1. PICK h \in Async!All : \E k \in 1..Len(stack[h]) : stack[h][k].span = i
            BY <2>1 DEF CallHas
        <3>2. PICK k \in 1..Len(stack[h]) : stack[h][k].span = i
            BY <3>1
        <3>3. k \in 1..Len(stack'[h]) /\ stack'[h][k].span = i
            BY <1>2, <1>3, <1>4, <2>1, <3>2
        <3>4. QED
            BY <3>3 DEF CallHas
    <2>2. ASSUME NEW i \in 1..Len(sw.log)
          PROVE  sw'.log[i].depth = 0 \/ sw'.log[i].name = "callback" \/ i \in lost \/ CallHas(i)'
        <3>1. CASE i = f.span /\ f.span # 0
            BY <1>7, <3>1
        <3>2. CASE i # f.span
            <4>1. sw'.log[i] = sw.log[i]
                BY <1>7, <3>2 DEF OnlyDepthOf
            <4>2. QED
                BY <2>1, <3>2, <4>1 DEF AsyncInv, LogInv
        <3>3. QED
            BY AsyncSizes, <3>1, <3>2
    <2>3. QED
        BY <1>7, <2>2 DEF LogInv, OnlyDepthOf
<1>17. LostInv' /\ SendInv'
    <2>1. \A i \in lost : sw'.log[i].kind = sw.log[i].kind
        BY <1>7 DEF AsyncInv, LostInv, OnlyDepthOf
    <2>2. QED
        BY <1>9, <2>1, LogStays
<1>18. QED
    BY <1>9, <1>12, <1>13, <1>14, <1>15, <1>16, <1>17 DEF AsyncInv

\* swTraceAsyncSendCallback and the user's callback after it.
LEMMA CallbackKeeps ==
    ASSUME AsyncInv, NEW g \in Async!All, NEW i \in 1..Len(sends), NEW panics \in BOOLEAN,
           Async!Callback(g, i, panics)
    PROVE  AsyncInv'
<1>1. PICK f : f = [op |-> "callback", span |-> 0, send |-> i]
    OBVIOUS
<1>2. /\ sends \in Seq(Sends) /\ Len(sends) \in Nat /\ stack[g] \in Seq(Frames)
      /\ sends[i] \in Sends /\ sw \in Tracings
      /\ sw.log \in Seq(LoggedSpans) /\ Len(sw.log) \in Nat /\ Len(stack[g]) \in Nat
    BY AsyncSizes
<1>3. f \in Frames /\ f.span = 0 /\ f.op = "callback"
    BY <1>1, <1>2 DEF Frames
<1>4. PICK n \in Nat \ {0} : n = sends[i].span /\ sends[i].snapshot = [span |-> n, snap |-> TRUE]
    BY <1>2 DEF AsyncInv, SendInv, Sends
<1>5. PICK t, u : t \in Tracings /\ t = sw /\ u = sw'
    BY <1>2
<1>6. u = Async!TraceAsyncSendCallback(g, i, panics)
    BY <1>5 DEF Async!Callback
<1>7. /\ u \in Tracings /\ Len(u.log) = Len(t.log) + 1
      /\ \A j \in 1..Len(t.log) : u.log[j] = t.log[j]
      /\ u.log[Len(u.log)].name = "callback" /\ u.log[Len(u.log)].parent.span = n
      /\ u.act[g].span = 0
      /\ \A h \in Async!All : h # g => u.act[h] = t.act[h]
    BY <1>4, <1>5, <1>6, CallbackTraces, SMTT(30)
<1>8. /\ sw' \in Tracings /\ Len(sw'.log) = Len(sw.log) + 1
      /\ \A j \in 1..Len(sw.log) : sw'.log[j] = sw.log[j] /\ j \in 1..Len(sw'.log)
      /\ \A j \in 1..Len(sw'.log) : j \notin 1..Len(sw.log) => j = Len(sw'.log)
      /\ sw'.log[Len(sw'.log)].name = "callback" /\ sw'.log[Len(sw'.log)].parent.span = n
      /\ sw'.act[g].span = 0
      /\ \A h \in Async!All : h # g => sw'.act[h] = sw.act[h]
    BY <1>2, <1>5, <1>7
<1>9. /\ stack' = [stack EXCEPT ![g] = Append(stack[g], f)]
      /\ sends' = [sends EXCEPT ![i].callback = Len(sw.log) + 1]
      /\ strayed' = IF stack[g] = <<>> THEN strayed ELSE strayed \cup {g}
      /\ lost' = lost
    BY <1>1 DEF Async!Callback, Async!Push
<1>10. PICK m : m = Len(stack[g]) + 1 /\ PushedBy(g, f, m)
    BY <1>3, <1>9, Pushed
<1>11. /\ stack' \in [Async!All -> Seq(Frames)] /\ Len(stack'[g]) = m /\ stack'[g][m] = f
       /\ stack'[g] # <<>> /\ \A h \in Async!All : h # g => stack'[h] = stack[h]
    BY <1>10 DEF PushedBy
<1>12. SpansKept
    <2>1. /\ Len(sw'.log) \in Nat /\ Len(sw'.log) >= Len(sw.log)
          /\ \A j \in 1..Len(sw.log) : sw'.log[j].parent = sw.log[j].parent
        BY <1>2, <1>8
    <2>2. lost' = lost /\ strayed \subseteq strayed' /\ 0 \notin lost
        BY <1>9, AsyncSizes
    <2>3. QED
        BY <1>2, <2>1, <2>2 DEF SpansKept
<1>13. /\ sends' \in Seq(Sends) /\ Len(sends') = Len(sends)
       /\ \A j \in 1..Len(sends) : j # i => sends'[j] = sends[j]
       /\ sends'[i].span = n /\ sends'[i].snapshot = sends[i].snapshot
       /\ sends'[i].callback = Len(sw.log) + 1
    <2>1. PICK s : s = [sends[i] EXCEPT !.callback = Len(sw.log) + 1]
        OBVIOUS
    <2>2. /\ s \in Sends /\ s.span = n /\ s.snapshot = sends[i].snapshot
          /\ s.callback = Len(sw.log) + 1
        <3>1. s = [span |-> n, snapshot |-> sends[i].snapshot, callback |-> Len(sw.log) + 1]
            BY <1>2, <1>4, <2>1 DEF Sends
        <3>2. sends[i].snapshot \in Contexts /\ Len(sw.log) + 1 \in Nat
            BY <1>2 DEF Sends
        <3>3. QED
            BY <3>1, <3>2 DEF Sends
    <2>3. sends' = [sends EXCEPT ![i] = s]
        BY <1>9, <2>1
    <2>4. QED
        BY <1>2, <2>2, <2>3, ExceptSeq
<1>14. AsyncTypeOK'
    BY <1>8, <1>11, <1>13 DEF AsyncTypeOK
<1>15. FrameInv' /\ OwnerInv' /\ LogInv' /\ LostInv'
    <2>1. \A j \in 1..Len(sw.log) : sw'.log[j] = sw.log[j]
        BY <1>8
    <2>2. \A j \in 1..Len(sw'.log) : j \notin 1..Len(sw.log) => sw'.log[j].name = "callback"
        BY <1>8
    <2>3. QED
        BY <1>3, <1>9, <1>12, <2>1, <2>2, PlainPushKeeps
<1>16. ActInv'
    <2>1. ASSUME NEW h \in Async!All, sw'.act[h].span # 0
          PROVE  /\ sw'.act[h] = sw.act[h] /\ stack'[h] = stack[h] /\ ~sw'.act[h].snap
                 /\ sw'.act[h].span \in lost' => LeftBelow(h, Len(stack[h]) + 1, sw.act[h].span)'
                 /\ sw'.act[h].span \notin lost' => Covers(h, sw.act[h].span)'
        <3>1. sw'.act[h] = sw.act[h] /\ stack'[h] = stack[h]
            BY <1>8, <1>11, <2>1
        <3>2. QED
            BY <1>12, <2>1, <3>1, ActStays
    <2>2. QED
        BY <2>1 DEF ActInv
<1>17. NestInv'
    <2>1. ASSUME NEW h \in Async!All \ strayed', h # g
          PROVE  TopIsActive(h)' /\ \A k \in 1..Len(stack'[h]) : BelowIsParent(h, k)'
        <3>1. h \in Async!All \ strayed /\ sw'.act[h] = sw.act[h] /\ stack'[h] = stack[h]
            BY <1>8, <1>9, <1>11, <2>1
        <3>2. QED
            BY <1>12, <3>1, NestStays
    <2>2. ASSUME g \notin strayed'
          PROVE  TopIsActive(g)' /\ \A k \in 1..Len(stack'[g]) : BelowIsParent(g, k)'
        <3>1. stack[g] = <<>> /\ m = 1
            BY <1>2, <1>9, <1>10, <2>2
        <3>2. stack'[g] # <<>> /\ stack'[g][Len(stack'[g])] = f
            BY <1>11, <3>1
        <3>3. TopIsActive(g)'
            BY <1>3, <1>8, <3>2 DEF TopIsActive
        <3>4. \A k \in 1..Len(stack'[g]) : k = 1
            BY <1>11, <3>1
        <3>5. BelowIsParent(g, 1)'
            BY <1>3, <1>11, <3>1 DEF BelowIsParent
        <3>6. QED
            BY <3>3, <3>4, <3>5
    <2>3. QED
        BY <2>1, <2>2 DEF NestInv
<1>18. SendInv'
    <2>1. Len(sw.log) + 1 \in 1..Len(sw'.log) /\ sw'.log[Len(sw.log) + 1].parent.span = n
        BY <1>2, <1>8
    <2>2. sends'[i].snapshot = [span |-> n, snap |-> TRUE] /\ n # 0
        BY <1>4, <1>13
    <2>3. ASSUME NEW j \in 1..Len(sends), j # i
          PROVE  /\ sends[j].span # 0 /\ sends[j].snapshot = [span |-> sends[j].span, snap |-> TRUE]
                 /\ sends[j].callback # 0 =>
                       /\ sends[j].callback \in 1..Len(sw'.log)
                       /\ sw'.log[sends[j].callback].parent.span = sends[j].span
        BY <1>8 DEF AsyncInv, SendInv
    <2>4. QED
        BY <1>13, <2>1, <2>2, <2>3, ZenonT(30) DEF SendInv
<1>19. QED
    BY <1>14, <1>15, <1>16, <1>17, <1>18 DEF AsyncInv

\* A span that is over when the call returns.
BriefCall(g, kind, name) ==
    /\ sw' = Async!EndSpan(Async!Create(sw, g, kind, name), g,
                           Async!ActiveSpan(Async!Create(sw, g, kind, name), g))
    /\ UNCHANGED <<sends, stack, strayed, lost>>
LEMMA BriefCallKeeps ==
    ASSUME AsyncInv, NEW g \in Async!All, NEW kind \in Kinds, NEW name \in Names,
           BriefCall(g, kind, name), Async!Reuses(sw, g, kind) => sw.act[g].span \notin lost
    PROVE  AsyncInv'
<1>1. PICK t, c, u : t \in Tracings /\ t = sw /\ u = sw' /\ c = Async!Create(t, g, kind, name)
    BY AsyncSizes
<1>2. u = Async!EndSpan(c, g, Async!ActiveSpan(c, g))
    BY <1>1 DEF BriefCall
<1>3. Async!Reuses(t, g, kind) =>
          t.act[g].span \in 1..Len(t.log) /\ t.log[t.act[g].span].depth = 1
    BY <1>1, ActiveIsOpen DEF Async!Reuses
<1>4. /\ u \in Tracings /\ Len(u.log) >= Len(t.log)
      /\ \A i \in 1..Len(t.log) : u.log[i] = t.log[i]
      /\ \A i \in 1..Len(u.log) : i \notin 1..Len(t.log) => u.log[i].depth = 0
      /\ u.act[g].span = t.act[g].span
      /\ t.act[g].span # 0 => u.act[g] = t.act[g]
      /\ \A h \in Async!All : h # g => u.act[h] = t.act[h]
    BY <1>1, <1>2, <1>3, BriefSpan
<1>5. UNCHANGED <<sends, stack, strayed, lost>>
    BY DEF BriefCall
<1>6. QED
    BY <1>1, <1>4, <1>5, BriefSpansKeep

LEMMA ReceiveKeeps == ASSUME AsyncInv, NEW g \in Async!All, Async!Receive(g) PROVE AsyncInv'
<1>1. BriefCall(g, "entry", "receive")
    BY DEF Async!Receive, BriefCall
<1>2. "entry" \in Kinds /\ "receive" \in Names
    BY DEF Kinds, Names
<1>3. Async!Reuses(sw, g, "entry") => sw.act[g].span \notin lost
    BY DEF Async!Reuses, AsyncInv, LostInv
<1>4. QED
    BY <1>1, <1>2, <1>3, BriefCallKeeps

\* SendSync panics: the span it made stays, and stays the goroutine's context.
LEMMA PanicLeaves ==
    ASSUME AsyncInv, NEW g \in Async!All, RunsUser(g), sw.act[g].span \notin lost,
           sw' \in Tracings, NEW n, n = Len(sw.log) + 1, Len(sw'.log) = n,
           \A i \in 1..Len(sw.log) : sw'.log[i] = sw.log[i],
           sw'.log[n].kind = "exit",
           sw'.log[n].parent = IF sw.act[g] = Async!NoContext THEN Async!NoSpan ELSE sw.act[g],
           sw'.act[g].span = n, ~sw'.act[g].snap,
           \A h \in Async!All : h # g => sw'.act[h] = sw.act[h],
           UNCHANGED <<sends, stack>>, strayed' = strayed \cup {g}, lost' = lost \cup {n}
    PROVE  AsyncInv'
<1>1. /\ n \in Nat \ {0} /\ n \notin 1..Len(sw.log) /\ Len(sw.log) \in Nat
      /\ \A i : i \in 1..n <=> i = n \/ i \in 1..Len(sw.log)
      /\ n \notin lost /\ lost \subseteq 1..Len(sw.log) /\ 0 \notin lost
    BY AsyncSizes DEF AsyncInv, LostInv
<1>2. SpansKept
    <2>1. Len(sw'.log) \in Nat /\ Len(sw'.log) >= Len(sw.log) /\ 0 \notin lost'
        BY <1>1
    <2>2. QED
        BY <1>1, <2>1 DEF SpansKept
<1>3. AsyncTypeOK' /\ \A h, k : CallsKept(h, k)
    BY DEF AsyncInv, AsyncTypeOK, CallsKept
<1>4. ASSUME NEW h \in Async!All, NEW k \in 1..Len(stack[h])
      PROVE  FrameOK(h, k) /\ (stack[h][k].span # 0 => stack[h][k].span \in 1..Len(sw.log))
    <2>1. FrameOK(h, k)
        BY DEF AsyncInv, FrameInv
    <2>2. QED
        BY <2>1 DEF FrameOK
<1>5. FrameInv'
    <2>1. ASSUME NEW h \in Async!All, NEW k \in 1..Len(stack[h]) PROVE FrameOK(h, k)'
        <3>1. FrameOK(h, k) /\ stack'[h][k] = stack[h][k] /\ CallsKept(h, k)
            BY <1>3, <1>4
        <3>2. stack[h][k].span # 0 => sw'.log[stack[h][k].span] = sw.log[stack[h][k].span]
            BY <1>4
        <3>3. QED
            BY <1>2, <3>1, <3>2, FrameStays
    <2>2. QED
        BY <2>1 DEF FrameInv
<1>6. OwnerInv'
    BY OwnersStay
<1>7. PICK up : up = sw'.log[n].parent
    OBVIOUS
<1>8. /\ up.span \in 0..Len(sw.log) /\ up.span \notin lost
      /\ up.span # 0 => ~up.snap /\ Below(g, Len(stack[g]) + 1, up.span)
    <2>1. Async!NoContext.span = 0 /\ Async!NoSpan.span = 0
        BY DEF Async!NoContext, Async!NoSpan
    <2>2. Context(g, Len(stack[g]) + 1, sw.act[g])
        BY ActIsContext
    <2>3. CASE sw.act[g] = Async!NoContext
        BY <1>1, <1>7, <2>1, <2>3
    <2>4. CASE sw.act[g] # Async!NoContext
        BY <1>1, <1>7, <2>2, <2>4 DEF Context
    <2>5. QED
        BY <2>3, <2>4
<1>9. ActInv'
    <2>1. LeftBelow(g, Len(stack[g]) + 1, n)'
        <3>1. up.span # 0 => ~up.snap /\ Below(g, Len(stack[g]) + 1, up.span)'
            BY <1>8 DEF Below, HasContext
        <3>2. QED
            BY <1>7, <3>1 DEF LeftBelow
    <2>2. ASSUME NEW h \in Async!All, h # g, sw'.act[h].span # 0
          PROVE  /\ ~sw'.act[h].snap
                 /\ sw'.act[h].span \in lost' => LeftBelow(h, Len(stack[h]) + 1, sw.act[h].span)'
                 /\ sw'.act[h].span \notin lost' => Covers(h, sw.act[h].span)'
        BY <1>2, <2>2, ActStays
    <2>3. QED
        BY <2>1, <2>2 DEF ActInv
<1>10. NestInv'
    <2>1. ASSUME NEW h \in Async!All \ strayed'
          PROVE  TopIsActive(h)' /\ \A k \in 1..Len(stack'[h]) : BelowIsParent(h, k)'
        <3>1. h \in Async!All \ strayed /\ sw'.act[h] = sw.act[h] /\ stack'[h] = stack[h]
            BY <2>1
        <3>2. QED
            BY <1>2, <3>1, NestStays
    <2>2. QED
        BY <2>1 DEF NestInv
<1>11. LogInv'
    BY <1>1 DEF AsyncInv, LogInv, CallHas
<1>12. SendInv'
    <2>1. \A i \in lost : sw'.log[i].kind = sw.log[i].kind
        BY <1>1
    <2>2. QED
        BY <1>2, <2>1, LogStays
<1>13. LostInv'
    <2>1. ASSUME NEW i \in lost
          PROVE  /\ sw'.log[i] = sw.log[i] /\ sw.log[i].kind = "exit"
                 /\ sw.log[i].parent.span \in 0..n /\ sw.log[i].parent.span \notin lost'
        <3>1. /\ sw.log[i].kind = "exit" /\ sw.log[i].parent.span \in 0..Len(sw.log)
              /\ sw.log[i].parent.span \notin lost /\ sw'.log[i] = sw.log[i]
            BY <1>1 DEF AsyncInv, LostInv
        <3>2. QED
            BY <1>1, <3>1
    <2>2. up.span \in 0..n /\ up.span \notin lost'
        BY <1>1, <1>8
    <2>3. lost' \subseteq 1..Len(sw'.log)
        BY <1>1
    <2>4. QED
        BY <1>7, <2>1, <2>2, <2>3 DEF LostInv
<1>14. QED
    BY <1>3, <1>5, <1>6, <1>9, <1>10, <1>11, <1>12, <1>13 DEF AsyncInv

\* RunsUserCode, without its operator on sequences.
LEMMA UserRuns == ASSUME AsyncInv, NEW g \in Async!All, Async!RunsUserCode(g) PROVE RunsUser(g)
BY AsyncSizes DEF Async!RunsUserCode, Async!Last, RunsUser

\* SendSync where the context is a span that an earlier one left open.
LEMMA LostSendSyncKeeps ==
    ASSUME AsyncInv, NEW g \in Async!All, NEW panics \in BOOLEAN, Async!SendSync(g, panics),
           sw.act[g].span \in lost
    PROVE  AsyncInv'
<1>1. PICK i \in lost : i = sw.act[g].span
    OBVIOUS
<1>2. PICK t, c, u : /\ t \in Tracings /\ t = sw /\ u = sw'
                     /\ c = Async!Create(t, g, "exit", "send")
    BY AsyncSizes
<1>3. i \in 1..Len(t.log) /\ i # 0 /\ t.log[i].kind = "exit"
    BY <1>2, AsyncSizes DEF AsyncInv, LostInv
<1>4. ~t.act[g].snap /\ LeftBelow(g, Len(stack[g]) + 1, i)
    BY <1>1, <1>2, <1>3 DEF AsyncInv, ActInv
<1>5. Async!Reuses(t, g, "exit") /\ g \in strayed
    BY <1>1, <1>2, <1>3, <1>4 DEF Async!Reuses, LeftBelow
<1>6. DepthMoves(t, c, g, i) /\ c.act[g] = t.act[g]
    BY <1>1, <1>2, <1>3, <1>5, CreateReuses
<1>7. Async!ActiveSpan(c, g) = i
    BY <1>1, <1>2, <1>6 DEF Async!ActiveSpan
<1>8. /\ UNCHANGED <<sends, stack, strayed, lost>>
      /\ u = IF panics THEN c ELSE Async!EndSpan(c, g, i)
    BY <1>2, <1>5, <1>7 DEF Async!SendSync
<1>9. /\ u \in Tracings /\ Len(u.log) = Len(t.log)
      /\ \A j \in 1..Len(t.log) :
            /\ j # i => u.log[j] = t.log[j]
            /\ u.log[j].kind = t.log[j].kind /\ u.log[j].name = t.log[j].name
            /\ u.log[j].parent = t.log[j].parent
      /\ u.act[g] = t.act[g] \/ u.act[g] = t.log[i].parent
      /\ \A h \in Async!All : h # g => u.act[h] = t.act[h]
    <2>1. CASE panics
        BY <1>6, <1>8, <2>1 DEF DepthMoves
    <2>2. CASE ~panics
        <3>1. c \in Tracings /\ i \in 1..Len(c.log) /\ u = Async!EndSpan(c, g, i)
            BY <1>3, <1>6, <1>8, <2>2 DEF DepthMoves
        <3>2. DepthMoves(c, u, g, i) /\ (u.act[g] = c.act[g] \/ u.act[g] = c.log[i].parent)
            BY <3>1, EndAnySpan
        <3>3. QED
            BY <1>3, <1>6, <3>2 DEF DepthMoves
    <2>3. QED
        BY <2>1, <2>2
<1>10. sw' \in Tracings /\ OnlyDepthOf(i)
    BY <1>2, <1>9 DEF OnlyDepthOf
<1>11. /\ sw'.act[g] = sw.act[g] \/ sw'.act[g] = sw.log[i].parent
       /\ \A h \in Async!All : h # g => sw'.act[h] = sw.act[h]
    BY <1>2, <1>9
<1>12. RunsUser(g)
    BY UserRuns DEF Async!SendSync
<1>13. UNCHANGED <<sends, stack, strayed, lost>>
    BY <1>8
<1>14. QED
    BY <1>1, <1>10, <1>11, <1>12, <1>13, LostSpanMoves

LEMMA SendSyncKeeps ==
    ASSUME AsyncInv, NEW g \in Async!All, NEW panics \in BOOLEAN, Async!SendSync(g, panics)
    PROVE  AsyncInv'
<1>1. "exit" \in Kinds /\ "send" \in Names /\ RunsUser(g)
    BY UserRuns DEF Kinds, Names, Async!SendSync
<1>2. CASE sw.act[g].span \in lost
    BY <1>2, LostSendSyncKeeps
<1>3. CASE sw.act[g].span \notin lost /\ ~panics
    <2>1. BriefCall(g, "exit", "send")
        BY <1>3 DEF Async!SendSync, BriefCall
    <2>2. QED
        BY <1>1, <1>3, <2>1, BriefCallKeeps
<1>4. CASE sw.act[g].span \notin lost /\ panics
    <2>1. PICK t, u : t \in Tracings /\ t = sw /\ u = sw'
        BY AsyncSizes
    <2>2. ~Async!Reuses(t, g, "exit")
        BY <1>1, <1>4, <2>1, ExitIsFresh
    <2>3. u = Async!Create(t, g, "exit", "send")
        BY <1>4, <2>1 DEF Async!SendSync
    <2>4. Made(t, u, g, "exit", "send")
        BY <1>1, <2>1, <2>2, <2>3, CreateMakes
    <2>5. PICK n : n = Len(sw.log) + 1
        OBVIOUS
    <2>6. /\ sw' \in Tracings /\ Len(sw'.log) = n
          /\ \A i \in 1..Len(sw.log) : sw'.log[i] = sw.log[i]
          /\ sw'.log[n].kind = "exit"
          /\ sw'.log[n].parent = IF sw.act[g] = Async!NoContext THEN Async!NoSpan ELSE sw.act[g]
          /\ sw'.act[g].span = n /\ ~sw'.act[g].snap
          /\ \A h \in Async!All : h # g => sw'.act[h] = sw.act[h]
        BY <2>1, <2>4, <2>5 DEF Made
    <2>7. /\ UNCHANGED <<sends, stack>> /\ strayed' = strayed \cup {g} /\ lost' = lost \cup {n}
        BY <1>4, <2>1, <2>3, <2>6 DEF Async!SendSync, Async!ActiveSpan
    <2>8. QED
        BY <1>1, <1>4, <2>5, <2>6, <2>7, PanicLeaves
<1>5. QED
    BY <1>2, <1>3, <1>4

\* A call that goes under way makes a span of its own.
StartsCall(g, kind, name, op, send) ==
    /\ sw' = Async!Create(sw, g, kind, name)
    /\ stack' = [stack EXCEPT ![g] = Append(stack[g], [op |-> op,
                         span |-> Async!ActiveSpan(sw', g), send |-> send])]
    /\ strayed' = strayed /\ lost' = lost
CallIsMade(g) ==
    /\ (sends' \in Seq(Sends)) => AsyncTypeOK'
    /\ FrameInv' /\ OwnerInv' /\ ActInv' /\ NestInv' /\ LogInv' /\ LostInv' /\ SpansKept
    /\ sw' \in Tracings /\ sw'.act[g].span # 0
LEMMA CallStartsFresh ==
    ASSUME AsyncInv, NEW g \in Async!All, NEW kind \in Kinds, NEW name \in Names,
           NEW op \in {"app", "SendAsync", "consume"}, kind = KindOf(op), NEW send \in Nat,
           RunsUser(g), ~Async!Reuses(sw, g, kind), StartsCall(g, kind, name, op, send)
    PROVE  CallIsMade(g)
<1>1. PICK t, u : t \in Tracings /\ t = sw /\ u = sw'
    BY AsyncSizes
<1>2. ~Async!Reuses(t, g, kind) /\ u = Async!Create(t, g, kind, name)
    BY <1>1 DEF StartsCall
<1>3. Made(t, u, g, kind, name)
    BY <1>1, <1>2, CreateMakes
<1>4. PICK f : f = [op |-> op, span |-> Async!ActiveSpan(sw', g), send |-> send]
    OBVIOUS
<1>5. u.log \in Seq(LoggedSpans) /\ Len(u.log) \in Nat
    BY <1>3, LenProperties DEF Tracings, Made
<1>6. f \in Frames /\ f.op = op /\ f.span = Len(u.log)
    BY <1>1, <1>3, <1>4, <1>5 DEF Frames, Async!ActiveSpan, Made
<1>7. PushesCall(g, f) /\ strayed' = strayed /\ lost' = lost
    BY <1>4 DEF StartsCall, PushesCall
<1>8. LogsCall(g, f)
    BY <1>1, <1>3, <1>6 DEF LogsCall, Made
<1>9. ActsForCall(g) /\ sw' \in Tracings /\ sw'.act[g].span # 0
    <2>1. Len(u.log) # 0
        BY <1>1, <1>3, AsyncSizes DEF Made
    <2>2. QED
        BY <1>1, <1>3, <2>1 DEF ActsForCall, Made
<1>10. /\ (sends' \in Seq(Sends)) => AsyncTypeOK'
       /\ FrameInv' /\ OwnerInv' /\ ActInv' /\ NestInv' /\ LogInv' /\ LostInv' /\ SpansKept
    <2>1. f.op \in {"app", "SendAsync", "consume"} /\ sw' \in Tracings
        BY <1>6, <1>9
    <2>2. QED
        BY <1>6, <1>7, <1>8, <1>9, <2>1, CallStarts
<1>11. QED
    BY <1>9, <1>10 DEF CallIsMade

\* With no call under way there is nothing for an entry or a local span to be but new.
LEMMA OuterIsFresh ==
    ASSUME AsyncInv, NEW g \in Async!All, stack[g] = <<>>, NEW kind \in {"local", "entry"}
    PROVE  ~Async!Reuses(sw, g, kind) /\ RunsUser(g)
<1> SUFFICES ASSUME Async!Reuses(sw, g, kind) PROVE FALSE
    BY DEF RunsUser
<1>1. sw.act[g].span # 0 /\ sw.log[sw.act[g].span].kind = "entry"
    BY DEF Async!Reuses
<1>2. sw.act[g].span \notin lost
    BY <1>1 DEF AsyncInv, LostInv
<1>3. \A k \in 1..Len(stack[g]) : FALSE
    OBVIOUS
<1>4. QED
    BY <1>1, <1>2, <1>3 DEF AsyncInv, ActInv, Covers

LEMMA AppStartKeeps == ASSUME AsyncInv, NEW g \in Async!All, Async!AppStart(g) PROVE AsyncInv'
<1>1. stack[g] = <<>> /\ StartsCall(g, "local", "app", "app", 0) /\ sends' = sends
    BY DEF Async!AppStart, Async!Push, StartsCall
<1>2. "local" \in Kinds /\ "app" \in Names /\ "local" = KindOf("app")
    BY DEF Kinds, Names, KindOf
<1>3. CallIsMade(g)
    BY <1>1, <1>2, OuterIsFresh, CallStartsFresh
<1>4. AsyncTypeOK' /\ SendInv'
    <2>1. SpansKept /\ (sends' \in Seq(Sends) => AsyncTypeOK')
        BY <1>3 DEF CallIsMade
    <2>2. QED
        BY <1>1, <2>1, AsyncSizes, SendsStay
<1>5. QED
    BY <1>3, <1>4 DEF AsyncInv, CallIsMade

\* What is below a call is below one further in.
LEMMA LeftGrows ==
    ASSUME NEW g, NEW k \in Nat, NEW i, LeftBelow(g, k, i) PROVE LeftBelow(g, k + 1, i)
<1>1. PICK up : up = sw.log[i].parent
    OBVIOUS
<1>2. ASSUME Below(g, k, up.span) PROVE Below(g, k + 1, up.span)
    <2>1. \A j \in 1..(k - 1) : j \in 1..((k + 1) - 1)
        OBVIOUS
    <2>2. QED
        BY <1>2, <2>1 DEF Below
<1>3. QED
    BY <1>1, <1>2 DEF LeftBelow

LEMMA ConsumeInnerKeeps ==
    ASSUME AsyncInv, NEW g \in Async!All, NEW n \in 0..MaxBatch, Async!ConsumeInner(g, n)
    PROVE  AsyncInv'
<1>1. /\ stack[g] = <<>>
      /\ sw' = IF n = 0 THEN sw ELSE Async!Create(sw, g, "entry", "consume")
      /\ stack' = [stack EXCEPT ![g] = Append(stack[g], [op |-> "consume", send |-> 0,
                           span |-> IF n = 0 THEN 0 ELSE Async!ActiveSpan(sw', g)])]
      /\ UNCHANGED <<sends, strayed, lost>>
    BY DEF Async!ConsumeInner, Async!CreateConsumerEntrySpan, Async!Push
<1>2. CASE n # 0
    <2>1. "entry" \in Kinds /\ "consume" \in Names /\ "entry" = KindOf("consume")
        BY DEF Kinds, Names, KindOf
    <2>2. StartsCall(g, "entry", "consume", "consume", 0)
        <3>1. PICK f : f = [op |-> "consume", span |-> Async!ActiveSpan(sw', g), send |-> 0]
            OBVIOUS
        <3>2. f = [op |-> "consume", send |-> 0,
                   span |-> IF n = 0 THEN 0 ELSE Async!ActiveSpan(sw', g)]
            BY <1>2, <3>1
        <3>3. QED
            BY <1>1, <1>2, <3>1, <3>2 DEF StartsCall
    <2>3. CallIsMade(g)
        BY <1>1, <2>1, <2>2, OuterIsFresh, CallStartsFresh
    <2>4. AsyncTypeOK' /\ SendInv'
        <3>1. SpansKept /\ (sends' \in Seq(Sends) => AsyncTypeOK')
            BY <2>3 DEF CallIsMade
        <3>2. QED
            BY <1>1, <3>1, AsyncSizes, SendsStay
    <2>5. QED
        BY <2>3, <2>4 DEF AsyncInv, CallIsMade
\* An empty batch has no span, and its call none either.
<1>3. CASE n = 0
    <2>1. PICK f : f = [op |-> "consume", span |-> 0, send |-> 0]
        OBVIOUS
    <2>2. f \in Frames /\ f.op = "consume" /\ f.span = 0
        BY <2>1 DEF Frames
    <2>3. sw' = sw /\ stack' = [stack EXCEPT ![g] = Append(stack[g], f)]
        <3>1. f = [op |-> "consume", send |-> 0,
                   span |-> IF n = 0 THEN 0 ELSE Async!ActiveSpan(sw', g)]
            BY <1>3, <2>1
        <3>2. QED
            BY <1>1, <1>3, <3>1
    <2>4. PICK m : m = Len(stack[g]) + 1 /\ PushedBy(g, f, m)
        BY <2>2, <2>3, Pushed
    <2>5. /\ stack' \in [Async!All -> Seq(Frames)] /\ Len(stack'[g]) = 1 /\ stack'[g][1] = f
          /\ stack'[g] # <<>> /\ \A h \in Async!All : h # g => stack'[h] = stack[h]
        BY <1>1, <2>4 DEF PushedBy
    <2>6. SpansKept
        BY <1>1, <2>3, AsyncSizes DEF SpansKept
    <2>7. AsyncTypeOK' /\ SendInv'
        BY <1>1, <2>3, <2>5 DEF AsyncInv, AsyncTypeOK, SendInv
    <2>8. FrameInv' /\ OwnerInv' /\ LogInv' /\ LostInv'
        BY <1>1, <2>2, <2>3, <2>6, PlainPushKeeps
    <2>9. ActInv'
        <3>1. ASSUME NEW h \in Async!All, h # g, sw'.act[h].span # 0
              PROVE  /\ ~sw'.act[h].snap
                     /\ sw'.act[h].span \in lost' => LeftBelow(h, Len(stack[h]) + 1, sw.act[h].span)'
                     /\ sw'.act[h].span \notin lost' => Covers(h, sw.act[h].span)'
            BY <2>3, <2>5, <2>6, <3>1, ActStays
        <3>2. PICK i : i = sw.act[g].span
            OBVIOUS
        <3>3. ASSUME i # 0 PROVE ~sw.act[g].snap /\ i \in lost /\ LeftBelow(g, 1, i)
            <4>1. ~Covers(g, i) /\ Len(stack[g]) + 1 = 1
                BY <1>1 DEF Covers
            <4>2. /\ ~sw.act[g].snap /\ (i \in lost => LeftBelow(g, Len(stack[g]) + 1, i))
                  /\ i \notin lost => Covers(g, i)
                BY <3>2, <3>3 DEF AsyncInv, ActInv
            <4>3. QED
                BY <4>1, <4>2
        <3>4. ASSUME i # 0 PROVE LeftBelow(g, 2, i)'
            <4>1. i \in 1..Len(sw.log) /\ CallsKept(g, 1)
                <5>1. i \in 1..Len(sw.log)
                    BY <3>3, <3>4 DEF AsyncInv, LostInv
                <5>2. CallsKept(g, 1)
                    BY DEF CallsKept
                <5>3. QED
                    BY <5>1, <5>2
            <4>2. LeftBelow(g, 1, i)'
                BY <2>6, <3>3, <3>4, <4>1, LeftStays
            <4>3. QED
                BY <4>2, LeftGrows DEF LeftBelow, Below, HasContext
        <3>5. Len(stack'[g]) + 1 = 2
            BY <2>5
        <3>6. QED
            BY <1>1, <2>3, <2>5, <3>1, <3>2, <3>3, <3>4, <3>5 DEF ActInv
    <2>10. NestInv'
        <3>1. ASSUME NEW h \in Async!All \ strayed, h # g
              PROVE  TopIsActive(h)' /\ \A k \in 1..Len(stack'[h]) : BelowIsParent(h, k)'
            BY <2>3, <2>5, <2>6, <3>1, NestStays
        <3>2. ASSUME g \notin strayed PROVE TopIsActive(g)'
            <4>1. TopIsActive(g)
                BY <3>2 DEF AsyncInv, NestInv
            <4>2. QED
                BY <1>1, <2>2, <2>3, <2>5, <4>1 DEF TopIsActive
        <3>3. \A k \in 1..Len(stack'[g]) : BelowIsParent(g, k)'
            <4>1. \A k \in 1..Len(stack'[g]) : k = 1
                BY <2>5
            <4>2. QED
                BY <2>2, <2>5, <4>1 DEF BelowIsParent
        <3>4. QED
            BY <1>1, <3>1, <3>2, <3>3 DEF NestInv
    <2>11. QED
        BY <2>7, <2>8, <2>9, <2>10 DEF AsyncInv
<1>4. QED
    BY <1>2, <1>3

\* SendAsync where the context is a span that a SendSync left open: it is handed out
\* once more.
LEMMA SendAsyncReuses ==
    ASSUME AsyncInv, NEW g \in Async!All, RunsUser(g), NEW i \in lost, i = sw.act[g].span,
           NEW f \in Frames, f.op = "SendAsync", f.span = i, PushesCall(g, f),
           sw' \in Tracings, OnlyDepthOf(i), \A h \in Async!All : sw'.act[h] = sw.act[h],
           strayed' = strayed, lost' = lost
    PROVE  CallIsMade(g)
<1>1. PICK m : m = Len(stack[g]) + 1 /\ PushedBy(g, f, m)
    BY Pushed DEF PushesCall
<1>2. /\ stack' \in [Async!All -> Seq(Frames)] /\ Len(stack'[g]) = m /\ stack'[g][m] = f
      /\ stack'[g] # <<>> /\ \A h \in Async!All : h # g => stack'[h] = stack[h]
      /\ m \in Nat
    BY <1>1 DEF PushedBy
<1>3. /\ \A h \in Async!All : \A k \in 1..Len(stack[h]) :
            k \in 1..Len(stack'[h]) /\ stack'[h][k] = stack[h][k]
      /\ \A h \in Async!All : \A k \in 1..Len(stack'[h]) :
            \/ h = g /\ k = m
            \/ k \in 1..Len(stack[h]) /\ stack'[h][k] = stack[h][k]
      /\ \A h \in Async!All : \A k \in 1..(Len(stack[h]) + 1) : CallsKept(h, k)
    BY <1>1, Zenon DEF PushedBy
<1>4. SpansKept
    BY AsyncSizes DEF SpansKept, OnlyDepthOf
<1>5. i \in 1..Len(sw.log) /\ i # 0
    BY AsyncSizes DEF AsyncInv, LostInv
<1>6. ~sw.act[g].snap /\ LeftBelow(g, m, i)'
    <2>1. ~sw.act[g].snap /\ LeftBelow(g, m, i)
        BY <1>1, <1>5 DEF AsyncInv, ActInv
    <2>2. m \in 1..(Len(stack[g]) + 1)
        BY <1>1, AsyncSizes
    <2>3. CallsKept(g, m)
        BY <1>3, <2>2
    <2>4. QED
        BY <1>4, <1>5, <2>1, <2>3, LeftStays
<1>7. FrameInv'
    <2>1. FrameOK(g, m)'
        <3>1. i \in 1..Len(sw'.log)
            BY <1>5 DEF OnlyDepthOf
        <3>2. stack'[g][m].span = i /\ stack'[g][m].op = "SendAsync"
            BY <1>2
        <3>3. QED
            BY <1>5, <1>6, <3>1, <3>2 DEF FrameOK
    <2>2. ASSUME NEW h \in Async!All, NEW k \in 1..Len(stack[h]) PROVE FrameOK(h, k)'
        <3>1. FrameOK(h, k) /\ stack'[h][k] = stack[h][k]
            BY <1>3 DEF AsyncInv, FrameInv
        <3>2. k \in 1..(Len(stack[h]) + 1)
            BY AsyncSizes
        <3>3. CallsKept(h, k)
            BY <1>3, <3>2
        <3>4. stack[h][k].span # 0 /\ stack[h][k].span \notin lost =>
                  sw'.log[stack[h][k].span] = sw.log[stack[h][k].span]
            BY <3>1 DEF FrameOK, OnlyDepthOf
        <3>5. QED
            BY <1>4, <3>1, <3>3, <3>4, FrameStays
    <2>3. QED
        BY <1>3, <2>1, <2>2 DEF FrameInv
<1>8. OwnerInv'
    <2>1. ASSUME NEW h \in Async!All, NEW k \in 1..Len(stack'[h]), stack'[h][k].span \notin lost'
          PROVE  k \in 1..Len(stack[h]) /\ stack'[h][k] = stack[h][k]
        BY <1>2, <1>3, <2>1
    <2>2. lost \subseteq lost'
        OBVIOUS
    <2>3. QED
        BY <2>1, <2>2, OwnersStay
<1>9. ActInv'
    <2>1. LeftBelow(g, m + 1, i)'
        <3>1. PICK up : up = sw'.log[i].parent
            OBVIOUS
        <3>2. /\ g \in strayed'
              /\ up.span # 0 => ~up.snap /\ Below(g, m, up.span)'
            BY <1>6, <3>1 DEF LeftBelow
        <3>3. \A j \in 1..(m - 1) : j \in 1..((m + 1) - 1)
            BY <1>2
        <3>4. up.span # 0 => Below(g, m + 1, up.span)'
            BY <3>2, <3>3 DEF Below
        <3>5. QED
            BY <3>1, <3>2, <3>4 DEF LeftBelow
    <2>2. ASSUME NEW h \in Async!All, h # g, sw'.act[h].span # 0
          PROVE  /\ ~sw'.act[h].snap
                 /\ sw'.act[h].span \in lost' => LeftBelow(h, Len(stack[h]) + 1, sw.act[h].span)'
                 /\ sw'.act[h].span \notin lost' => Covers(h, sw.act[h].span)'
        BY <1>2, <1>4, <2>2, ActStays
    <2>3. QED
        BY <1>2, <1>6, <2>1, <2>2 DEF ActInv
<1>10. NestInv'
    <2>1. g \in strayed
        BY <1>6 DEF LeftBelow
    <2>2. ASSUME NEW h \in Async!All \ strayed
          PROVE  TopIsActive(h)' /\ \A k \in 1..Len(stack'[h]) : BelowIsParent(h, k)'
        BY <1>2, <1>4, <2>1, NestStays
    <2>3. QED
        BY <2>2 DEF NestInv
<1>11. LogInv'
    <2>1. ASSUME NEW j \in 1..Len(sw.log), CallHas(j) PROVE CallHas(j)'
        <3>1. PICK h \in Async!All : \E k \in 1..Len(stack[h]) : stack[h][k].span = j
            BY <2>1 DEF CallHas
        <3>2. PICK k \in 1..Len(stack[h]) : stack[h][k].span = j
            BY <3>1
        <3>3. k \in 1..Len(stack'[h]) /\ stack'[h][k].span = j
            BY <1>3, <3>2
        <3>4. QED
            BY <3>3 DEF CallHas
    <2>2. ASSUME NEW j \in 1..Len(sw.log)
          PROVE  sw'.log[j].depth = 0 \/ sw'.log[j].name = "callback" \/ j \in lost \/ CallHas(j)'
        BY <2>1 DEF AsyncInv, LogInv, OnlyDepthOf
    <2>3. QED
        BY <2>2 DEF LogInv, OnlyDepthOf
<1>12. LostInv'
    <2>1. \A j \in lost : sw'.log[j].kind = sw.log[j].kind
        BY DEF AsyncInv, LostInv, OnlyDepthOf
    <2>2. QED
        BY <1>4, <2>1, LogStays
<1>13. QED
    <2>1. sends' \in Seq(Sends) => AsyncTypeOK'
        BY <1>2 DEF AsyncTypeOK
    <2>2. QED
        BY <1>4, <1>5, <1>7, <1>8, <1>9, <1>10, <1>11, <1>12, <2>1 DEF CallIsMade

LEMMA SendAsyncStarts ==
    ASSUME AsyncInv, NEW g \in Async!All, NEW k \in Nat, RunsUser(g),
           StartsCall(g, "exit", "send", "SendAsync", k)
    PROVE  CallIsMade(g)
<1>1. CASE sw.act[g].span \notin lost
    <2>1. "exit" \in Kinds /\ "send" \in Names /\ "exit" = KindOf("SendAsync")
        BY DEF Kinds, Names, KindOf
    <2>2. ~Async!Reuses(sw, g, "exit")
        BY <1>1, ExitIsFresh
    <2>3. QED
        BY <2>1, <2>2, CallStartsFresh
<1>2. CASE sw.act[g].span \in lost
    <2>1. PICK i \in lost : i = sw.act[g].span
        BY <1>2
    <2>2. PICK t, u : t \in Tracings /\ t = sw /\ u = sw'
        BY AsyncSizes
    <2>3. i \in 1..Len(t.log) /\ i # 0 /\ i \in Nat /\ t.log[i].kind = "exit"
        BY <2>2, AsyncSizes DEF AsyncInv, LostInv
    <2>4. ~t.act[g].snap
        BY <2>1, <2>2, <2>3 DEF AsyncInv, ActInv
    <2>5. Async!Reuses(t, g, "exit") /\ u = Async!Create(t, g, "exit", "send")
        BY <2>1, <2>2, <2>3, <2>4 DEF Async!Reuses, StartsCall
    <2>6. DepthMoves(t, u, g, i) /\ u.act[g] = t.act[g]
        BY <2>1, <2>2, <2>3, <2>5, CreateReuses
    <2>7. sw' \in Tracings /\ OnlyDepthOf(i) /\ \A h \in Async!All : sw'.act[h] = sw.act[h]
        BY <2>2, <2>6 DEF DepthMoves, OnlyDepthOf
    <2>8. PICK f : f = [op |-> "SendAsync", span |-> Async!ActiveSpan(sw', g), send |-> k]
        OBVIOUS
    <2>9. f \in Frames /\ f.op = "SendAsync" /\ f.span = i
        BY <2>1, <2>3, <2>7, <2>8 DEF Frames, Async!ActiveSpan
    <2>10. PushesCall(g, f) /\ strayed' = strayed /\ lost' = lost
        BY <2>8 DEF StartsCall, PushesCall
    <2>11. QED
        BY <2>1, <2>7, <2>9, <2>10, SendAsyncReuses
<1>3. QED
    BY <1>1, <1>2

LEMMA SendAsyncKeeps == ASSUME AsyncInv, NEW g \in Async!All, Async!SendAsync(g) PROVE AsyncInv'
<1>1. sends \in Seq(Sends) /\ Len(sends) \in Nat /\ RunsUser(g)
    BY AsyncSizes, UserRuns DEF Async!SendAsync
<1>2. PICK k \in Nat : k = Len(sends) + 1
    BY <1>1
<1>3. /\ StartsCall(g, "exit", "send", "SendAsync", k)
      /\ sends' = Append(sends, [span |-> Async!ActiveSpan(sw', g),
                                 snapshot |-> Async!CaptureContext(sw', g), callback |-> 0])
    BY <1>2 DEF Async!SendAsync, Async!Push, StartsCall
<1>4. CallIsMade(g)
    BY <1>1, <1>3, SendAsyncStarts
<1>5. sw' \in Tracings /\ sw'.act[g].span # 0 /\ SpansKept
    BY <1>4 DEF CallIsMade
<1>6. PICK n \in Nat \ {0} : n = sw'.act[g].span
    <2>1. sw'.act[g] \in Contexts
        BY <1>5 DEF Tracings
    <2>2. QED
        BY <1>5, <2>1 DEF Contexts
<1>7. Async!CaptureContext(sw', g) = [span |-> n, snap |-> TRUE]
    <2>1. PICK c : c = sw'.act[g]
        OBVIOUS
    <2>2. c \in Contexts /\ c.span = n
        BY <1>5, <1>6, <2>1 DEF Tracings
    <2>3. c # Async!NoContext /\ [c EXCEPT !.snap = TRUE] = [span |-> n, snap |-> TRUE]
        <3>1. Async!NoContext.span = 0
            BY DEF Async!NoContext
        <3>2. c # Async!NoContext
            BY <1>6, <2>2, <3>1
        <3>3. PICK d : d = [c EXCEPT !.snap = TRUE]
            OBVIOUS
        <3>4. d \in [span : Nat, snap : {TRUE}] /\ d.span = n
            BY <2>2, <3>3 DEF Contexts
        <3>5. d = [span |-> n, snap |-> TRUE]
            BY <3>4
        <3>6. QED
            BY <3>2, <3>3, <3>5
    <2>4. QED
        BY <2>1, <2>3 DEF Async!CaptureContext
<1>8. PICK s : s = [span |-> n, snapshot |-> [span |-> n, snap |-> TRUE], callback |-> 0]
    OBVIOUS
<1>9. /\ s \in Sends /\ s.span = n /\ s.snapshot = [span |-> n, snap |-> TRUE]
      /\ s.callback = 0
    BY <1>8 DEF Sends, Contexts
<1>10. sends' = Append(sends, s)
    BY <1>3, <1>6, <1>7, <1>8 DEF Async!ActiveSpan
<1>11. /\ sends' \in Seq(Sends) /\ Len(sends') = k /\ sends'[k] = s
       /\ \A i \in 1..Len(sends) : sends'[i] = sends[i]
       /\ \A i \in 1..k : i = k \/ i \in 1..Len(sends)
    BY <1>1, <1>2, <1>9, <1>10, AppendProperties
<1>12. SendInv'
    <2>1. \A i \in 1..Len(sw.log) : i \in 1..Len(sw'.log) /\ sw'.log[i].parent = sw.log[i].parent
        BY <1>5 DEF SpansKept
    <2>2. ASSUME NEW i \in 1..Len(sends)
          PROVE  /\ sends'[i].span # 0
                 /\ sends'[i].snapshot = [span |-> sends'[i].span, snap |-> TRUE]
                 /\ sends'[i].callback # 0 =>
                       /\ sends'[i].callback \in 1..Len(sw'.log)
                       /\ sw'.log[sends'[i].callback].parent.span = sends'[i].span
        BY <1>11, <2>1 DEF AsyncInv, SendInv
    <2>3. QED
        BY <1>6, <1>9, <1>11, <2>2 DEF SendInv
<1>13. QED
    BY <1>4, <1>11, <1>12 DEF AsyncInv, CallIsMade

LEMMA ReturnsKeep ==
    ASSUME AsyncInv, NEW g \in Async!All, Async!SendAsyncReturn(g) \/ Async!UserReturn(g)
    PROVE  AsyncInv'
<1>1. PICK f : f = stack[g][Len(stack[g])]
    OBVIOUS
<1>2. stack[g] \in Seq(Frames) /\ Len(stack[g]) \in Nat
    BY LenProperties DEF AsyncInv, AsyncTypeOK
<1>3. /\ Async!Last(stack[g]) = f /\ Async!Front(stack[g]) = Front(stack[g])
    BY <1>1 DEF Async!Last, Async!Front, Front
<1>4. /\ stack[g] # <<>> /\ stack' = [stack EXCEPT ![g] = Front(stack[g])]
      /\ UNCHANGED <<sends, strayed, lost>>
    BY <1>3 DEF Async!SendAsyncReturn, Async!UserReturn, Async!Pop
<1>5. sw' = IF f.span = 0 THEN sw ELSE Async!EndSpan(sw, g, f.span)
    <2>1. CASE Async!UserReturn(g)
        BY <1>3, <2>1 DEF Async!UserReturn
    <2>2. CASE Async!SendAsyncReturn(g)
        <3>1. f.op = "SendAsync" /\ sw' = Async!EndSpan(sw, g, f.span)
            BY <1>3, <2>2 DEF Async!SendAsyncReturn
        <3>2. Len(stack[g]) \in 1..Len(stack[g])
            BY <1>2, <1>4, EmptySeq
        <3>3. FrameOK(g, Len(stack[g]))
            BY <3>2 DEF AsyncInv, FrameInv
        <3>4. f.span # 0
            BY <1>1, <3>1, <3>3 DEF FrameOK
        <3>5. QED
            BY <3>1, <3>4
    <2>3. QED
        BY <2>1, <2>2
<1>6. QED
    BY <1>1, <1>4, <1>5, CallReturns DEF PopsCall, EndsCall

LEMMA AsyncInit == Async!Init => AsyncInv
<1> SUFFICES ASSUME Async!Init PROVE AsyncInv
    OBVIOUS
<1>1. /\ sw.log = <<>> /\ sends = <<>> /\ strayed = {} /\ lost = {}
      /\ \A g \in Async!All : stack[g] = <<>> /\ sw.act[g] = Async!NoContext
    BY DEF Async!Init, Async!Empty
<1>2. AsyncTypeOK
    <2>1. Async!NoContext \in Contexts
        BY DEF Async!NoContext, Contexts
    <2>2. sw \in Tracings
        BY <2>1 DEF Async!Init, Async!Empty, Tracings
    <2>3. QED
        BY <2>2 DEF Async!Init, AsyncTypeOK
<1>3. Len(sw.log) = 0 /\ Len(sends) = 0 /\ \A g \in Async!All : Len(stack[g]) = 0
    BY <1>1
<1>4. FrameInv /\ OwnerInv /\ LogInv /\ SendInv /\ LostInv
    BY <1>1, <1>3 DEF FrameInv, OwnerInv, LogInv, SendInv, LostInv
<1>5. ActInv /\ NestInv
    BY <1>1, <1>3 DEF ActInv, NestInv, TopIsActive, Async!NoContext
<1>6. QED
    BY <1>2, <1>4, <1>5 DEF AsyncInv

LEMMA AsyncNext == AsyncInv /\ (Async!Next \/ UNCHANGED asyncVars) => AsyncInv'
<1> SUFFICES ASSUME AsyncInv, Async!Next \/ UNCHANGED asyncVars PROVE AsyncInv'
    OBVIOUS
<1>1. CASE UNCHANGED asyncVars
    <2>1. UNCHANGED <<sw, sends, stack, strayed, lost>>
        BY <1>1 DEF asyncVars
    <2>2. sw.log \in Seq(LoggedSpans) /\ Len(sw.log) \in Nat /\ sw \in Tracings
        BY LenProperties DEF AsyncInv, AsyncTypeOK, Tracings
    <2>3. QED
        BY <2>1, <2>2, BriefSpansKeep
<1>2. ASSUME NEW g \in Async!All, NEW i \in DOMAIN sends, NEW panics \in BOOLEAN,
             Async!Callback(g, i, panics)
      PROVE  AsyncInv'
    <2>1. i \in 1..Len(sends)
        BY LenProperties DEF AsyncInv, AsyncTypeOK
    <2>2. QED
        BY <1>2, <2>1, CallbackKeeps
<1>3. ASSUME NEW g \in Async!All, NEW n \in 0..MaxBatch, Async!ConsumeInner(g, n) PROVE AsyncInv'
    BY <1>3, ConsumeInnerKeeps
<1>4. ASSUME NEW g \in Async!All, NEW panics \in BOOLEAN,
             Async!SendSync(g, panics) \/ Async!Receive(g)
      PROVE  AsyncInv'
    BY <1>4, SendSyncKeeps, ReceiveKeeps
<1>5. ASSUME NEW g \in Async!All, Async!SendAsyncReturn(g) \/ Async!UserReturn(g) PROVE AsyncInv'
    BY <1>5, ReturnsKeep
<1>6. ASSUME NEW g \in Async!All, Async!AppStart(g) \/ Async!SendAsync(g) PROVE AsyncInv'
    BY <1>6, AppStartKeeps, SendAsyncKeeps
<1>7. QED
    BY <1>1, <1>2, <1>3, <1>4, <1>5, <1>6 DEF Async!Next

\* The invariant holds in every state of the messaging hooks.
LEMMA AsyncInvariance == MessagingSpec => []AsyncInv
<1>1. MessagingInit => AsyncInv
    BY AsyncInit DEF MessagingInit
<1>2. AsyncInv /\ [MessagingNext]_<<hooks, vars, kafkaVars, asyncVars, deliverVars>> => AsyncInv'
    <2>1. MessagingNext \/ UNCHANGED <<hooks, vars, kafkaVars, asyncVars, deliverVars>>
              => Async!Next \/ UNCHANGED asyncVars
        BY DEF MessagingNext
    <2>2. QED
        BY <2>1, AsyncNext
<1>3. QED
    BY <1>1, <1>2, PTL DEF MessagingSpec

LEMMA NestedIsOwn == AsyncInv => ContextsAreOwn
<1> SUFFICES ASSUME AsyncInv, NEW g \in Async!All \ strayed
             PROVE  /\ stack[g] = <<>> => Async!ActiveSpan(sw, g) = 0
                    /\ stack[g] # <<>> => Async!ActiveSpan(sw, g) = Async!Last(stack[g]).span
    BY DEF ContextsAreOwn, Async!ContextsAreOwn
<1>1. TopIsActive(g)
    BY DEF AsyncInv, NestInv
<1>2. QED
    BY <1>1 DEF TopIsActive, Async!ActiveSpan, Async!Last

LEMMA LoggedIsReported == AsyncInv => SendsAreReported
<1> SUFFICES ASSUME AsyncInv PROVE Async!SendsAreReported
    BY DEF SendsAreReported
<1>1. /\ sw.log \in Seq(LoggedSpans) /\ DOMAIN sw.log = 1..Len(sw.log)
      /\ DOMAIN sends = 1..Len(sends)
      /\ \A g \in Async!All : DOMAIN stack[g] = 1..Len(stack[g])
    BY LenProperties DEF AsyncInv, AsyncTypeOK, Tracings
<1>2. ASSUME NEW i \in 1..Len(sw.log)
      PROVE  \/ Async!Reported(sw, i)
             \/ sw.log[i].name = "callback" \/ i \in lost
             \/ \E g \in Async!All : \E k \in 1..Len(stack[g]) : stack[g][k].span = i
    <2>1. sw.log[i].async = "no"
        <3>1. sw.log[i] \in LoggedSpans
            BY <1>1
        <3>2. QED
            BY <3>1 DEF LoggedSpans
    <2>2. QED
        BY <2>1 DEF AsyncInv, LogInv, CallHas, Async!Reported
<1>3. ASSUME NEW i \in DOMAIN sw.log
      PROVE  \/ Async!Reported(sw, i)
             \/ sw.log[i].name = "callback" \/ i \in lost
             \/ \E g \in Async!All : \E k \in DOMAIN stack[g] : stack[g][k].span = i
    BY <1>1, <1>2
<1>4. ASSUME NEW i \in DOMAIN sends, sends[i].callback # 0
      PROVE  sw.log[sends[i].callback].parent.span = sends[i].span
    BY <1>1, <1>4 DEF AsyncInv, SendInv
<1>5. QED
    BY <1>3, <1>4 DEF Async!SendsAreReported

\* SendAsync, its callbacks, consumeInner and Receive: wherever the SDK calls back and
\* whatever user code sends from there, a goroutine that no callback interrupted inside
\* SendAsync, and where no SendSync panicked, has the context of the call it is in, and
\* none outside.
THEOREM ContextsNest == MessagingSpec => []ContextsAreOwn
BY AsyncInvariance, NestedIsOwn, PTL

\* SendAsync, swTraceAsyncSendCallback and swCreateConsumerEntrySpan: every span of
\* theirs is reported when its call is over, except for a callback's that panicked and
\* for what SendSync left open when it panicked, and a callback's span hangs below that
\* of its send.
THEOREM SpansAreReported == MessagingSpec => []SendsAreReported
BY AsyncInvariance, LoggedIsReported, PTL
-----------------------------------------------------------------------------
(* otelc: kafka-go's messages, from the producer span to the consumer span.  *)

SpanRecords == [fn : {"app", "send", "receive"}, parent : Nat, ended : BOOLEAN, error : BOOLEAN,
                outcome : {"running", "ok", "error"}]
Logs == Seq(SpanRecords)
Messages == [producer : Nat, header : Nat, shared : BOOLEAN]
Queued == [producer : Nat, slice : Nat]
Calls == [slices : Seq(Nat), first : Nat, async : BOOLEAN, ctx : Nat, nested : BOOLEAN,
          got : Seq(Messages)]

KafkaTypeOK ==
    /\ kafkaPc \in {"app", "writing", "fetching", "reading"} /\ call \in Calls
    /\ spans \in Logs /\ tp \in [Kafka!Slices -> Nat] /\ used \in 0..MaxSlices
    /\ queue \in Seq(Queued) /\ topic \in Seq(Messages) /\ reads \in Nat
    /\ links \in SUBSET [producer : Nat, shared : BOOLEAN, parent : Nat]

\* A message carries its producer, unless its header was shared.
Carries(m) == m.producer # 0 /\ (~m.shared => m.header = m.producer)
\* And so will one that is still in memory.
WillCarry(producer, slice) ==
    slice \in 1..used /\ producer # 0 /\ (slice \notin shared => tp[slice] = producer)

\* Wherever a message is on its way, its header leads to its producer.
HeaderInv ==
    /\ \A i \in 1..Len(topic) : Carries(topic[i])
    /\ \A i \in 1..Len(call.got) : Carries(call.got[i])
    /\ \A i \in 1..Len(queue) : WillCarry(queue[i].producer, queue[i].slice)
    /\ \A i \in 1..Len(call.slices) : WillCarry(Kafka!SpanOf(i), call.slices[i])
    /\ \A l \in links : ~l.shared => l.parent = l.producer

\* The spans of the batch are the last ones.
CallInv ==
    IF kafkaPc = "writing" THEN call.first >= 1 /\ Len(spans) = call.first + Len(call.slices) - 1
    ELSE call.slices = <<>>

\* A hook's span has ended as its call did, unless the call is under way.
Settled(s) == s.fn # "app" => s.ended /\ (s.error <=> s.outcome = "error")
OutcomeInv ==
    \A i \in 1..Len(spans) : Settled(spans[i]) \/ (kafkaPc = "writing" /\ i >= call.first)

\* The consumer spans.
Receives(log) == {i \in 1..Len(log) : log[i].fn = "receive"}
ReadInv == Cardinality(Receives(spans)) = reads

KafkaInv == KafkaTypeOK /\ HeaderInv /\ CallInv /\ OutcomeInv /\ ReadInv

LEMMA SlicesAreBounded == MaxSlices \in Nat
BY QueueAssumption

\* KafkaHooks counts with the same operator.
LEMMA KafkaCounts == \A S : Kafka!Cardinality(S) = Cardinality(S)
BY DEF Kafka!Cardinality, Cardinality

\* u is the log with a span of the given context added.
Started(log, given, fn, u) ==
    /\ u \in Logs /\ Len(u) = Len(log) + 1 /\ \A i \in 1..Len(log) : u[i] = log[i]
    /\ u[Len(log) + 1].fn = fn /\ u[Len(log) + 1] \in SpanRecords
    /\ given # Kafka!NoParent => u[Len(log) + 1].parent = given

LEMMA SpanStarted ==
    ASSUME NEW log \in Logs, NEW given \in Nat, NEW fn \in {"app", "send", "receive"}
    PROVE  Started(log, given, fn, Kafka!Start(log, given, fn))
<1> DEFINE u == Kafka!Start(log, given, fn)
<1>1. Len(log) \in Nat /\ DOMAIN log = 1..Len(log)
    BY LenProperties DEF Logs
<1>2. PICK p : p = Kafka!SpanFromContext(log, given)
    OBVIOUS
<1>3. p \in Nat
    <2>1. Kafka!Live(log) \in SUBSET (0..Len(log))
        BY <1>1 DEF Kafka!Live
    <2>2. CASE Kafka!Live(log) = {}
        BY <1>2, <2>2 DEF Kafka!SpanFromContext, Kafka!Current, Kafka!NoParent
    <2>3. CASE Kafka!Live(log) # {}
        <3>1. PICK c : c = CHOOSE i \in Kafka!Live(log) : \A j \in Kafka!Live(log) : j <= i
            OBVIOUS
        <3>2. c \in Kafka!Live(log)
            BY <1>1, <2>1, <2>3, <3>1, ChosenGreatest
        <3>3. c \in Nat
            BY <1>1, <2>1, <3>2
        <3>4. QED
            BY <1>2, <2>3, <3>1, <3>3 DEF Kafka!SpanFromContext, Kafka!Current
    <2>4. QED
        BY <2>2, <2>3
<1>4. PICK r : r = [fn |-> fn, parent |-> p, ended |-> FALSE, error |-> FALSE,
                    outcome |-> "running"]
    OBVIOUS
<1>5. r \in SpanRecords /\ r.fn = fn /\ r.parent = p
    BY <1>3, <1>4 DEF SpanRecords
<1>6. u = Append(log, r)
    BY <1>2, <1>4 DEF Kafka!Start
<1>7. given # Kafka!NoParent => p = given
    BY <1>2 DEF Kafka!SpanFromContext
<1>8. /\ u \in Logs /\ Len(u) = Len(log) + 1 /\ \A i \in 1..Len(log) : u[i] = log[i]
      /\ u[Len(log) + 1] = r
    BY <1>5, <1>6, AppendProperties DEF Logs
<1>9. QED
    BY <1>5, <1>7, <1>8 DEF Started

\* The recursion of StartBatch.
Grown(log, given, k, f) ==
    f = [i \in 0..k |-> IF i = 0 THEN log ELSE Kafka!Start(f[i - 1], given, "send")]

LEMMA BatchIsGrown ==
    ASSUME NEW log, NEW given, NEW k \in Nat
    PROVE  \E g : Grown(log, given, k, g) /\ Kafka!StartBatch(log, given, k) = g[k]
<1>1. PICK S : S = {j \in Nat : \E f : Grown(log, given, j, f)}
    OBVIOUS
<1>2. 0 \in S
    <2>1. PICK f : f = [i \in 0..0 |-> IF i = 0 THEN log ELSE log]
        OBVIOUS
    <2>2. \A i \in 0..0 : i = 0
        OBVIOUS
    <2>3. Grown(log, given, 0, f)
        BY <2>1, <2>2 DEF Grown
    <2>4. QED
        BY <1>1, <2>3
<1>3. ASSUME NEW n \in Nat, n \in S PROVE n + 1 \in S
    <2>1. PICK f : Grown(log, given, n, f)
        BY <1>1, <1>3
    <2>2. PICK h : h = [i \in 0..(n + 1) |->
                          IF i = n + 1 THEN Kafka!Start(f[n], given, "send") ELSE f[i]]
        OBVIOUS
    <2>3. \A i \in 0..(n + 1) : /\ i # 0 => i - 1 \in 0..(n + 1) /\ i - 1 # n + 1
                                /\ i # n + 1 => i \in 0..n
                                /\ i = n + 1 => i # 0 /\ i - 1 = n
        OBVIOUS
    <2>4. \A i \in 0..(n + 1) : i # 0 => h[i - 1] = f[i - 1]
        BY <2>2, <2>3
    <2>5. \A i \in 0..n : f[i] = IF i = 0 THEN log ELSE Kafka!Start(f[i - 1], given, "send")
        BY <2>1 DEF Grown
    <2>6. \A i \in 0..(n + 1) : h[i] = IF i = 0 THEN log ELSE Kafka!Start(h[i - 1], given, "send")
        BY <2>2, <2>3, <2>4, <2>5
    <2>7. h = [i \in 0..(n + 1) |-> h[i]]
        BY <2>2
    <2>8. Grown(log, given, n + 1, h)
        BY <2>6, <2>7 DEF Grown
    <2>9. QED
        BY <1>1, <2>8
<1>4. k \in S
    BY <1>2, <1>3, Induction
<1>5. PICK g : g = CHOOSE h : Grown(log, given, k, h)
    OBVIOUS
<1>6. Grown(log, given, k, g)
    BY <1>1, <1>4, <1>5
<1>7. Kafka!StartBatch(log, given, k) = g[k]
    BY <1>5 DEF Kafka!StartBatch, Grown
<1>8. QED
    BY <1>6, <1>7

\* A batch starts a span for each of its messages.
LEMMA BatchStarted ==
    ASSUME NEW log \in Logs, NEW given \in Nat, NEW k \in Nat,
           NEW u, u = Kafka!StartBatch(log, given, k)
    PROVE  /\ u \in Logs /\ Len(u) = Len(log) + k /\ \A i \in 1..Len(log) : u[i] = log[i]
           /\ \A i \in 1..Len(u) : i \notin 1..Len(log) => u[i].fn = "send"
<1> DEFINE Batch(v, j) == /\ v \in Logs /\ Len(v) = Len(log) + j
                          /\ \A i \in 1..Len(log) : v[i] = log[i]
                          /\ \A i \in 1..Len(v) : i \notin 1..Len(log) => v[i].fn = "send"
<1>1. PICK g : Grown(log, given, k, g) /\ u = g[k]
    BY BatchIsGrown
<1>2. \A i \in 0..k : g[i] = IF i = 0 THEN log ELSE Kafka!Start(g[i - 1], given, "send")
    BY <1>1 DEF Grown
<1>3. PICK S : S = {j \in Nat : j <= k => Batch(g[j], j)}
    OBVIOUS
<1>4. Len(log) \in Nat
    BY LenProperties DEF Logs
<1>5. 0 \in S
    <2>1. 0 \in 0..k
        OBVIOUS
    <2>2. g[0] = log
        BY <1>2, <2>1
    <2>3. Batch(log, 0)
        BY <1>4
    <2>4. QED
        BY <1>3, <2>2, <2>3
<1>6. ASSUME NEW n \in Nat, n \in S PROVE n + 1 \in S
    <2>1. SUFFICES ASSUME n + 1 <= k PROVE Batch(g[n + 1], n + 1)
        BY <1>3
    <2>2. n + 1 \in 0..k /\ n + 1 # 0 /\ (n + 1) - 1 = n /\ n <= k
        BY <2>1
    <2>3. g[n + 1] = Kafka!Start(g[n], given, "send")
        BY <1>2, <2>2
    <2>4. Batch(g[n], n)
        BY <1>3, <1>6, <2>2
    <2>5. PICK v, w : v = g[n] /\ w = g[n + 1]
        OBVIOUS
    <2>6. /\ v \in Logs /\ Len(v) = Len(log) + n
          /\ \A i \in 1..Len(log) : v[i] = log[i]
          /\ \A i \in 1..Len(v) : i \notin 1..Len(log) => v[i].fn = "send"
        BY <2>4, <2>5
    <2>7. /\ w \in Logs /\ Len(w) = Len(v) + 1 /\ \A i \in 1..Len(v) : w[i] = v[i]
          /\ w[Len(v) + 1].fn = "send"
        <3>1. w = Kafka!Start(v, given, "send") /\ v \in Logs
            BY <2>3, <2>5, <2>6
        <3>2. "send" \in {"app", "send", "receive"}
            OBVIOUS
        <3>3. Started(v, given, "send", w)
            BY <3>1, <3>2, SpanStarted
        <3>4. QED
            BY <3>3 DEF Started
    <2>8. Len(w) = Len(log) + (n + 1) /\ Len(v) \in Nat
        BY <1>4, <2>6, <2>7
    <2>9. 1..Len(log) \subseteq 1..Len(v)
        BY <1>4, <2>6
    <2>10. \A i \in 1..Len(w) : i \in 1..Len(v) \/ i = Len(v) + 1
        BY <2>7, <2>8
    <2>11. QED
        BY <2>5, <2>6, <2>7, <2>8, <2>9, <2>10
<1>7. k \in S
    BY <1>5, <1>6, Induction
<1>8. QED
    BY <1>1, <1>3, <1>7

\* Each of the messages that are sent is one of the batch.
LEMMA Ranked ==
    ASSUME NEW n \in Nat, NEW ok \in SUBSET (1..n), NEW k \in 1..Cardinality(ok)
    PROVE  \E i \in ok : Cardinality({j \in ok : j <= i}) = k
<1> DEFINE Rank(s, i) == Cardinality({j \in s : j <= i})
<1>1. PICK S : S = {m \in Nat : \A s \in SUBSET (1..m) : \A r \in 1..Cardinality(s) :
                                   \E i \in s : Rank(s, i) = r}
    OBVIOUS
<1>2. 0 \in S
    <2>1. \A s \in SUBSET (1..0) : s = {}
        OBVIOUS
    <2>2. Cardinality({}) = 0 /\ 1..0 = {}
        BY FS_EmptySet
    <2>3. \A s \in SUBSET (1..0) : 1..Cardinality(s) = {}
        BY <2>1, <2>2
    <2>4. \A s \in SUBSET (1..0) : \A r \in 1..Cardinality(s) : \E i \in s : Rank(s, i) = r
        BY <2>3
    <2>5. QED
        BY <1>1, <2>4
<1>3. ASSUME NEW m \in Nat, m \in S PROVE m + 1 \in S
    <2>1. SUFFICES ASSUME NEW s \in SUBSET (1..(m + 1)), NEW r \in 1..Cardinality(s)
                   PROVE  \E i \in s : Rank(s, i) = r
        BY <1>1
    <2>2. PICK w : w = s \ {m + 1}
        OBVIOUS
    <2>3. w \in SUBSET (1..m)
        BY <2>2
    <2>4. IsFiniteSet(s) /\ Cardinality(s) \in Nat
        <3>1. IsFiniteSet(1..(m + 1)) /\ s \subseteq 1..(m + 1)
            BY FS_Interval
        <3>2. IsFiniteSet(s)
            BY <3>1, FS_Subset
        <3>3. QED
            BY <3>2, FS_CardinalityType
    <2>5. \A q \in 1..Cardinality(w) : \E i \in w : Rank(w, i) = q
        BY <1>1, <1>3, <2>3
    <2>6. CASE m + 1 \notin s
        <3>1. w = s
            BY <2>2, <2>6
        <3>2. QED
            BY <2>5, <3>1
    <2>7. CASE m + 1 \in s
        <3>1. Cardinality(w) = Cardinality(s) - 1
            BY <2>2, <2>4, <2>7, FS_RemoveElement
        <3>2. CASE r = Cardinality(s)
            <4>0. \A j \in s : j <= m + 1
                OBVIOUS
            <4>1. {j \in s : j <= m + 1} = s
                BY <4>0
            <4>2. QED
                BY <2>7, <3>2, <4>1
        <3>3. CASE r # Cardinality(s)
            <4>1. r \in 1..Cardinality(w)
                BY <2>4, <3>1, <3>3
            <4>2. PICK i \in w : Rank(w, i) = r
                BY <2>5, <4>1
            <4>3. i \in s /\ ~(m + 1 <= i)
                BY <2>2, <2>3, <4>2
            <4>4. {j \in s : j <= i} = {j \in w : j <= i}
                BY <2>2, <4>3
            <4>5. QED
                BY <4>2, <4>3, <4>4
        <3>4. QED
            BY <3>2, <3>3
    <2>8. QED
        BY <2>6, <2>7
<1>4. n \in S
    BY <1>2, <1>3, Induction
<1>5. QED
    BY <1>1, <1>4

LEMMA KafkaTypes ==
    ASSUME KafkaInv
    PROVE  /\ call \in Calls /\ spans \in Logs /\ tp \in [Kafka!Slices -> Nat]
           /\ used \in 0..MaxSlices
           /\ queue \in Seq(Queued) /\ topic \in Seq(Messages) /\ reads \in Nat
           /\ Len(spans) \in Nat /\ DOMAIN spans = 1..Len(spans)
           /\ \A i \in 1..Len(spans) : spans[i] \in SpanRecords
           /\ Len(call.slices) \in Nat /\ DOMAIN call.slices = 1..Len(call.slices)
           /\ call.slices \in Seq(Nat) /\ call.first \in Nat /\ call.ctx \in Nat
           /\ call.got \in Seq(Messages)
           /\ Len(queue) \in Nat /\ \A i \in 1..Len(queue) : queue[i] \in Queued
           /\ Len(topic) \in Nat /\ \A i \in 1..Len(topic) : topic[i] \in Messages
<1>1. /\ call \in Calls /\ spans \in Logs /\ tp \in [Kafka!Slices -> Nat] /\ used \in 0..MaxSlices
      /\ queue \in Seq(Queued) /\ topic \in Seq(Messages) /\ reads \in Nat
    BY DEF KafkaInv, KafkaTypeOK
<1>2. /\ call.slices \in Seq(Nat) /\ call.first \in Nat /\ call.ctx \in Nat
      /\ call.got \in Seq(Messages)
    BY <1>1 DEF Calls
<1>3. /\ Len(spans) \in Nat /\ DOMAIN spans = 1..Len(spans)
      /\ \A i \in 1..Len(spans) : spans[i] \in SpanRecords
    BY <1>1, LenProperties DEF Logs
<1>4. Len(call.slices) \in Nat /\ DOMAIN call.slices = 1..Len(call.slices)
    BY <1>2, LenProperties
<1>5. /\ Len(queue) \in Nat /\ \A i \in 1..Len(queue) : queue[i] \in Queued
      /\ Len(topic) \in Nat /\ \A i \in 1..Len(topic) : topic[i] \in Messages
    BY <1>1, LenProperties
<1>6. QED
    BY <1>1, <1>2, <1>3, <1>4, <1>5

LEMMA NoCallTyped ==
    Kafka!NoCall \in Calls /\ Kafka!NoCall.slices = <<>> /\ Kafka!NoCall.got = <<>>
<1>1. <<>> \in Seq(Nat) /\ <<>> \in Seq(Messages)
    OBVIOUS
<1>2. QED
    BY <1>1 DEF Kafka!NoCall, Calls, Kafka!NoParent

LEMMA KafkaInitInv == Kafka!Init => KafkaInv
<1> SUFFICES ASSUME Kafka!Init PROVE KafkaInv
    OBVIOUS
<1>1. /\ kafkaPc = "app" /\ call = Kafka!NoCall /\ spans = <<>> /\ used = 0
      /\ queue = <<>> /\ topic = <<>> /\ reads = 0 /\ links = {} /\ tp = [s \in Kafka!Slices |-> 0]
    BY DEF Kafka!Init, Kafka!NoParent
<1>2. <<>> \in Logs /\ <<>> \in Seq(Queued) /\ <<>> \in Seq(Messages) /\ 0 \in 0..MaxSlices
    <2>1. 0 \in 0..MaxSlices
        BY SlicesAreBounded
    <2>2. QED
        BY <2>1 DEF Logs
<1>3. KafkaTypeOK
    BY <1>1, <1>2, NoCallTyped DEF KafkaTypeOK
<1>4. Len(<<>>) = 0 /\ 1..0 = {}
    OBVIOUS
<1>5. HeaderInv /\ CallInv /\ OutcomeInv
    BY <1>1, <1>4, NoCallTyped DEF HeaderInv, CallInv, OutcomeInv
<1>6. ReadInv
    <2>1. Receives(spans) = {}
        BY <1>1, <1>4 DEF Receives
    <2>2. QED
        BY <1>1, <2>1, FS_EmptySet DEF ReadInv
<1>7. QED
    BY <1>3, <1>5, <1>6 DEF KafkaInv

\* Spans that are no reads are added.
LEMMA ReceivesStay ==
    ASSUME NEW log \in Logs, NEW u \in Logs, Len(log) <= Len(u),
           \A i \in 1..Len(log) : u[i].fn = log[i].fn,
           \A i \in 1..Len(u) : i \notin 1..Len(log) => u[i].fn # "receive"
    PROVE  Receives(u) = Receives(log)
<1>1. Len(log) \in Nat /\ Len(u) \in Nat
    BY LenProperties DEF Logs
<1>2. 1..Len(log) \subseteq 1..Len(u)
    BY <1>1
<1>3. QED
    BY <1>2 DEF Receives

LEMMA KafkaStartKeeps == ASSUME KafkaInv, Kafka!AppStart PROVE KafkaInv'
<1>1. /\ kafkaPc = "app" /\ spans' = Kafka!Start(spans, Kafka!NoParent, "app")
      /\ UNCHANGED <<kafkaPc, call, tp, used, queue, topic, reads, links, shared>>
    BY DEF Kafka!AppStart
<1>2. /\ spans \in Logs /\ Len(spans) \in Nat
    BY KafkaTypes
<1>3. /\ spans' \in Logs /\ Len(spans') = Len(spans) + 1
      /\ \A i \in 1..Len(spans) : spans'[i] = spans[i]
      /\ spans'[Len(spans) + 1].fn = "app"
    <2>1. "app" \in {"app", "send", "receive"} /\ Kafka!NoParent \in Nat
        BY DEF Kafka!NoParent
    <2>2. Started(spans, Kafka!NoParent, "app", spans')
        BY <1>1, <1>2, <2>1, SpanStarted
    <2>3. QED
        BY <2>2 DEF Started
<1>4. \A i \in 1..Len(spans') : i \in 1..Len(spans) \/ i = Len(spans) + 1
    BY <1>2, <1>3
<1>5. KafkaTypeOK'
    BY <1>1, <1>3 DEF KafkaInv, KafkaTypeOK
<1>6. HeaderInv' /\ CallInv'
    BY <1>1 DEF KafkaInv, HeaderInv, CallInv, WillCarry, Carries, Kafka!SpanOf
<1>7. OutcomeInv'
    BY <1>1, <1>3, <1>4 DEF KafkaInv, OutcomeInv, Settled
<1>8. ReadInv'
    <2>1. Receives(spans') = Receives(spans)
        BY <1>3, <1>4 DEF Receives
    <2>2. QED
        BY <1>1, <2>1 DEF KafkaInv, ReadInv
<1>9. QED
    BY <1>5, <1>6, <1>7, <1>8 DEF KafkaInv

LEMMA NewMessageKeeps == ASSUME KafkaInv, Kafka!NewMessage PROVE KafkaInv'
<1>1. /\ used < MaxSlices /\ used' = used + 1
      /\ UNCHANGED <<kafkaPc, call, spans, tp, queue, topic, reads, links, shared>>
    BY DEF Kafka!NewMessage
<1>2. used' \in 0..MaxSlices /\ 1..used \subseteq 1..used'
    BY <1>1, SlicesAreBounded, KafkaTypes
<1>3. KafkaTypeOK'
    BY <1>1, <1>2 DEF KafkaInv, KafkaTypeOK
<1>4. HeaderInv' /\ CallInv' /\ OutcomeInv' /\ ReadInv'
    BY <1>1, <1>2 DEF KafkaInv, HeaderInv, CallInv, OutcomeInv, ReadInv, WillCarry, Carries,
                      Kafka!SpanOf
<1>5. QED
    BY <1>3, <1>4 DEF KafkaInv

\* ReadMessage and FetchMessage begin.
LEMMA ReadBegins ==
    ASSUME KafkaInv, kafkaPc = "app", kafkaPc' = "fetching",
           call' \in Calls, call'.slices = <<>>, call'.got = <<>>,
           UNCHANGED <<spans, tp, used, queue, topic, reads, links, shared>>
    PROVE  KafkaInv'
<1>1. call' \in Calls /\ call'.slices = <<>> /\ call'.got = <<>>
    OBVIOUS
<1>2. KafkaTypeOK'
    BY <1>1 DEF KafkaInv, KafkaTypeOK
<1>3. Len(<<>>) = 0 /\ 1..0 = {}
    OBVIOUS
<1>4. HeaderInv' /\ CallInv' /\ OutcomeInv' /\ ReadInv'
    BY <1>1, <1>3 DEF KafkaInv, HeaderInv, CallInv, OutcomeInv, ReadInv, WillCarry, Carries
<1>5. QED
    BY <1>2, <1>4 DEF KafkaInv

\* A message that will carry its producer does so when it is sent.
LEMMA WireCarries ==
    ASSUME tp \in [Kafka!Slices -> Nat], used \in 0..MaxSlices,
           NEW q \in Queued, WillCarry(q.producer, q.slice)
    PROVE  Kafka!OnWire(q) \in Messages /\ Carries(Kafka!OnWire(q))
<1>1. q.producer \in Nat /\ q.slice \in Kafka!Slices
    BY SlicesAreBounded DEF Queued, WillCarry, Kafka!Slices
<1>2. tp[q.slice] \in Nat /\ (q.slice \in shared) \in BOOLEAN
    BY <1>1
<1>3. PICK m : m = Kafka!OnWire(q)
    OBVIOUS
<1>4. m \in Messages /\ m.producer = q.producer /\ m.header = tp[q.slice]
      /\ m.shared = (q.slice \in shared)
    BY <1>1, <1>2, <1>3 DEF Kafka!OnWire, Messages
<1>5. QED
    BY <1>3, <1>4 DEF Carries, WillCarry

LEMMA CompletionKeeps ==
    ASSUME KafkaInv, NEW sent \in BOOLEAN, Kafka!Completion(sent)
    PROVE  KafkaInv'
<1>1. /\ queue # <<>> /\ queue' = Tail(queue)
      /\ topic' = IF sent THEN Append(topic, Kafka!OnWire(Head(queue))) ELSE topic
      /\ UNCHANGED <<kafkaPc, call, spans, tp, used, reads, links, shared>>
    BY DEF Kafka!Completion
<1>2. /\ queue \in Seq(Queued) /\ topic \in Seq(Messages) /\ Len(queue) \in Nat
      /\ Len(topic) \in Nat /\ tp \in [Kafka!Slices -> Nat] /\ used \in 0..MaxSlices
    BY KafkaTypes
<1>3. /\ queue' \in Seq(Queued) /\ Len(queue') = Len(queue) - 1 /\ Len(queue) # 0
      /\ \A i \in 1..Len(queue') : queue'[i] = queue[i + 1]
      /\ Head(queue) = queue[1]
    BY <1>1, <1>2, HeadTailProperties, EmptySeq
<1>4. PICK q : q = queue[1]
    OBVIOUS
<1>5. q \in Queued /\ WillCarry(q.producer, q.slice) /\ q = Head(queue)
    BY <1>2, <1>3, <1>4 DEF KafkaInv, HeaderInv
<1>6. PICK m : m = Kafka!OnWire(q)
    OBVIOUS
<1>7. m \in Messages /\ Carries(m)
    BY <1>2, <1>5, <1>6, WireCarries
<1>8. topic' \in Seq(Messages) /\ \A i \in 1..Len(topic') : Carries(topic'[i])
    <2>1. CASE sent
        <3>1. topic' = Append(topic, m)
            BY <1>1, <1>5, <1>6, <2>1
        <3>2. /\ topic' \in Seq(Messages) /\ Len(topic') = Len(topic) + 1
              /\ topic'[Len(topic) + 1] = m
              /\ \A i \in 1..Len(topic) : topic'[i] = topic[i]
            BY <1>2, <1>7, <3>1, AppendProperties
        <3>3. \A i \in 1..Len(topic') : i \in 1..Len(topic) \/ i = Len(topic) + 1
            BY <1>2, <3>2
        <3>4. QED
            BY <1>7, <3>2, <3>3 DEF KafkaInv, HeaderInv
    <2>2. CASE ~sent
        BY <1>1, <1>2, <2>2 DEF KafkaInv, HeaderInv
    <2>3. QED
        BY <2>1, <2>2
<1>9. \A i \in 1..Len(queue') : i + 1 \in 1..Len(queue)
    BY <1>2, <1>3
<1>10. \A i \in 1..Len(queue') : WillCarry(queue'[i].producer, queue'[i].slice)
    BY <1>3, <1>9 DEF KafkaInv, HeaderInv
<1>11. KafkaTypeOK'
    BY <1>1, <1>3, <1>8 DEF KafkaInv, KafkaTypeOK
<1>12. HeaderInv'
    BY <1>1, <1>8, <1>10 DEF KafkaInv, HeaderInv, WillCarry, Carries, Kafka!SpanOf
<1>13. CallInv' /\ OutcomeInv' /\ ReadInv'
    BY <1>1 DEF KafkaInv, CallInv, OutcomeInv, ReadInv
<1>14. QED
    BY <1>11, <1>12, <1>13 DEF KafkaInv

\* Inject writes the producers into the slices of the batch, and nowhere else.
LEMMA Injected ==
    ASSUME KafkaInv, NEW k \in Nat, NEW b \in [1..k -> 1..used]
    PROVE  /\ Kafka!InjectBatch(b) \in [Kafka!Slices -> Nat]
           /\ \A s \in Kafka!Slices : (\A i \in 1..k : b[i] # s) => Kafka!InjectBatch(b)[s] = tp[s]
           /\ \A i \in 1..k : \/ b[i] \in Kafka!SharedBy(b)
                              \/ Kafka!InjectBatch(b)[b[i]] = Len(spans) + i
<1>1. tp \in [Kafka!Slices -> Nat] /\ used \in 0..MaxSlices /\ Len(spans) \in Nat
    BY KafkaTypes
<1>2. DOMAIN b = 1..k /\ \A i \in 1..k : b[i] \in Kafka!Slices
    BY <1>1, SlicesAreBounded DEF Kafka!Slices
<1> DEFINE at(s) == {i \in 1..k : b[i] = s}
           last(s) == CHOOSE i \in at(s) : \A j \in at(s) : j <= i
<1>3. Kafka!InjectBatch(b) = [s \in Kafka!Slices |->
                                IF at(s) = {} THEN tp[s] ELSE Len(spans) + last(s)]
    BY <1>2 DEF Kafka!InjectBatch
<1>4. ASSUME NEW s \in Kafka!Slices, at(s) # {} PROVE last(s) \in at(s)
    <2>1. at(s) \in SUBSET (0..k)
        OBVIOUS
    <2>2. PICK L, c : L = at(s) /\ c = last(s)
        OBVIOUS
    <2>3. L \in SUBSET (0..k) /\ L # {} /\ c = CHOOSE i \in L : \A j \in L : j <= i
        BY <1>4, <2>1, <2>2
    <2>4. c \in L
        BY <2>3, ChosenGreatest
    <2>5. QED
        BY <2>2, <2>4
<1>5. ASSUME NEW s \in Kafka!Slices, at(s) # {} PROVE Len(spans) + last(s) \in Nat
    <2>1. last(s) \in 1..k
        BY <1>4, <1>5
    <2>2. QED
        BY <1>1, <2>1
<1> HIDE DEF last
<1>6. Kafka!InjectBatch(b) \in [Kafka!Slices -> Nat]
    BY <1>1, <1>3, <1>5
<1>7. ASSUME NEW s \in Kafka!Slices, \A i \in 1..k : b[i] # s PROVE Kafka!InjectBatch(b)[s] = tp[s]
    BY <1>3, <1>7
<1>8. ASSUME NEW i \in 1..k, b[i] \notin Kafka!SharedBy(b)
      PROVE  Kafka!InjectBatch(b)[b[i]] = Len(spans) + i
    <2>1. \A j \in 1..k : b[j] = b[i] => j = i
        BY <1>2, <1>8 DEF Kafka!SharedBy
    <2>2. i \in at(b[i]) /\ b[i] \in Kafka!Slices
        BY <1>2
    <2>3. last(b[i]) \in at(b[i])
        BY <1>4, <2>2
    <2>4. last(b[i]) = i
        BY <2>1, <2>3
    <2>5. QED
        BY <1>3, <2>2, <2>4
<1>9. QED
    BY <1>6, <1>7, <1>8

LEMMA WriteMessagesKeeps ==
    ASSUME KafkaInv, NEW b \in Kafka!Batches, NEW async \in BOOLEAN, NEW given \in Nat,
           Kafka!WriteMessages(b, async, given)
    PROVE  KafkaInv'
<1>1. PICK k \in 1..MaxBatch : b \in [1..k -> 1..used]
    BY DEF Kafka!Batches
<1>2. /\ kafkaPc = "app" /\ kafkaPc' = "writing" /\ spans' = Kafka!StartBatch(spans, given, Len(b))
      /\ call' = [Kafka!NoCall EXCEPT !.slices = b, !.first = Len(spans) + 1, !.async = async]
      /\ tp' = Kafka!InjectBatch(b) /\ shared' = shared \cup Kafka!SharedBy(b)
      /\ UNCHANGED <<used, queue, topic, reads, links>>
    BY DEF Kafka!WriteMessages
<1>3. /\ spans \in Logs /\ Len(spans) \in Nat /\ used \in 0..MaxSlices
      /\ tp \in [Kafka!Slices -> Nat]
      /\ queue \in Seq(Queued) /\ \A i \in 1..Len(queue) : queue[i] \in Queued
    BY KafkaTypes
<1>4. k \in Nat /\ b \in Seq(Nat) /\ Len(b) = k
    <2>1. k \in Nat
        BY <1>1
    <2>2. b \in [1..k -> Nat]
        BY <1>1, <1>3
    <2>3. b \in Seq(Nat)
        BY <2>1, <2>2
    <2>4. QED
        BY <1>1, <2>1, <2>3, LenProperties
<1>5. /\ spans' \in Logs /\ Len(spans') = Len(spans) + k
      /\ \A i \in 1..Len(spans) : spans'[i] = spans[i]
      /\ \A i \in 1..Len(spans') : i \notin 1..Len(spans) => spans'[i].fn = "send"
    BY <1>2, <1>3, <1>4, BatchStarted
<1>6. /\ call' \in Calls /\ call'.slices = b /\ call'.first = Len(spans) + 1 /\ call'.got = <<>>
    <2>1. Len(spans) + 1 \in Nat
        BY <1>3
    <2>2. call' \in Calls
        BY <1>2, <1>4, <2>1, NoCallTyped DEF Calls
    <2>3. call'.slices = b /\ call'.first = Len(spans) + 1 /\ call'.got = Kafka!NoCall.got
        BY <1>2, NoCallTyped DEF Calls
    <2>4. QED
        BY <2>2, <2>3, NoCallTyped
<1>7. /\ tp' \in [Kafka!Slices -> Nat]
      /\ \A s \in Kafka!Slices : (\A i \in 1..k : b[i] # s) => tp'[s] = tp[s]
      /\ \A i \in 1..k : b[i] \in Kafka!SharedBy(b) \/ tp'[b[i]] = Len(spans) + i
    BY <1>1, <1>2, <1>4, Injected
<1>8. KafkaTypeOK'
    BY <1>2, <1>5, <1>6, <1>7 DEF KafkaInv, KafkaTypeOK
<1>9. ASSUME NEW i \in 1..Len(queue) PROVE WillCarry(queue[i].producer, queue[i].slice)'
    <2>1. PICK p, s : p = queue[i].producer /\ s = queue[i].slice
        OBVIOUS
    <2>2. s \in 1..used /\ p # 0 /\ (s \notin shared => tp[s] = p)
        BY <2>1 DEF KafkaInv, HeaderInv, WillCarry
    <2>3. s \in Kafka!Slices
        BY <1>3, <2>2, SlicesAreBounded DEF Kafka!Slices
    <2>4. s \notin shared' => tp'[s] = tp[s]
        <3>1. SUFFICES ASSUME NEW j \in 1..k, b[j] = s PROVE s \in Kafka!SharedBy(b)
            BY <1>2, <1>7, <2>3
        <3>2. s \in Kafka!Busy
            BY <1>3, <2>1 DEF Kafka!Busy
        <3>3. QED
            BY <1>1, <3>1, <3>2 DEF Kafka!SharedBy
    <2>5. s \in 1..used' /\ (s \notin shared' => s \notin shared)
        BY <1>2, <2>2
    <2>6. QED
        BY <1>2, <2>1, <2>2, <2>4, <2>5 DEF WillCarry
<1>10. ASSUME NEW i \in 1..k PROVE WillCarry(Kafka!SpanOf(i), b[i])'
    <2>1. Kafka!SpanOf(i)' = Len(spans) + i /\ Len(spans) + i # 0
        BY <1>3, <1>4, <1>6 DEF Kafka!SpanOf
    <2>2. b[i] \in 1..used' /\ (b[i] \notin shared' => tp'[b[i]] = Len(spans) + i)
        BY <1>1, <1>2, <1>7
    <2>3. QED
        BY <1>6, <2>1, <2>2 DEF WillCarry
<1>11. HeaderInv'
    <2>1. \A i \in 1..Len(topic) : Carries(topic[i])
        BY DEF KafkaInv, HeaderInv
    <2>2. \A l \in links : ~l.shared => l.parent = l.producer
        BY DEF KafkaInv, HeaderInv
    <2>3. Len(call'.got) = 0 /\ 1..0 = {}
        BY <1>6
    <2>4. \A i \in 1..Len(call'.slices) : WillCarry(Kafka!SpanOf(i), call.slices[i])'
        BY <1>4, <1>6, <1>10
    <2>5. \A i \in 1..Len(queue') : WillCarry(queue[i].producer, queue[i].slice)'
        BY <1>2, <1>9
    <2>6. QED
        BY <1>2, <2>1, <2>2, <2>3, <2>4, <2>5 DEF HeaderInv, Carries
<1>12. CallInv'
    <2>1. Len(spans) + 1 >= 1 /\ Len(spans) + k = (Len(spans) + 1) + k - 1
        BY <1>3, <1>4
    <2>2. call'.first >= 1 /\ Len(spans') = call'.first + Len(call'.slices) - 1
        BY <1>4, <1>5, <1>6, <2>1
    <2>3. QED
        BY <1>2, <2>2 DEF CallInv
<1>13. OutcomeInv'
    <2>1. \A i \in 1..Len(spans) : Settled(spans[i])
        BY <1>2 DEF KafkaInv, OutcomeInv
    <2>2. \A i \in 1..Len(spans') : i \in 1..Len(spans) \/ i >= Len(spans) + 1
        BY <1>3
    <2>3. QED
        BY <1>2, <1>5, <1>6, <2>1, <2>2 DEF OutcomeInv, Settled
<1>14. ReadInv'
    <2>1. Len(spans) <= Len(spans')
        BY <1>3, <1>4, <1>5
    <2>2. \A i \in 1..Len(spans') : i \notin 1..Len(spans) => spans'[i].fn # "receive"
        BY <1>5
    <2>3. Receives(spans') = Receives(spans)
        BY <1>3, <1>5, <2>1, <2>2, ReceivesStay
    <2>4. QED
        BY <1>2, <2>3 DEF KafkaInv, ReadInv
<1>15. QED
    BY <1>8, <1>11, <1>12, <1>13, <1>14 DEF KafkaInv

\* When the call returns, every span is settled.
LEMMA BatchEnded ==
    ASSUME KafkaInv, kafkaPc = "writing", NEW failed \in SUBSET (DOMAIN call.slices)
    PROVE  /\ Kafka!EndBatch(spans, failed) \in Logs
           /\ Len(Kafka!EndBatch(spans, failed)) = Len(spans)
           /\ \A i \in 1..Len(spans) : /\ Kafka!EndBatch(spans, failed)[i].fn = spans[i].fn
                                       /\ Settled(Kafka!EndBatch(spans, failed)[i])
<1>1. /\ Len(spans) \in Nat /\ DOMAIN spans = 1..Len(spans)
      /\ \A i \in 1..Len(spans) : spans[i] \in SpanRecords
      /\ Len(call.slices) \in Nat /\ DOMAIN call.slices = 1..Len(call.slices) /\ call.first \in Nat
    BY KafkaTypes
<1> DEFINE batch == {Kafka!SpanOf(i) : i \in 1..Len(call.slices)}
           wrong(k) == \E i \in failed : Kafka!SpanOf(i) = k
           ended(k) == [spans[k] EXCEPT !.ended = TRUE, !.error = wrong(k),
                                        !.outcome = IF wrong(k) THEN "error" ELSE "ok"]
<1>2. PICK u : u = Kafka!EndBatch(spans, failed)
    OBVIOUS
<1>3. u = [k \in 1..Len(spans) |-> IF k \in batch THEN ended(k) ELSE spans[k]]
    BY <1>1, <1>2 DEF Kafka!EndBatch
<1>4. ASSUME NEW k \in 1..Len(spans)
      PROVE  ended(k) \in SpanRecords /\ ended(k).fn = spans[k].fn /\ Settled(ended(k))
    <2>1. PICK w \in BOOLEAN : w = wrong(k)
        OBVIOUS
    <2>2. PICK e : e = [spans[k] EXCEPT !.ended = TRUE, !.error = w,
                                        !.outcome = IF w THEN "error" ELSE "ok"]
        OBVIOUS
    <2>3. e \in SpanRecords /\ e.fn = spans[k].fn /\ e.ended = TRUE /\ e.error = w
          /\ e.outcome = IF w THEN "error" ELSE "ok"
        BY <1>1, <2>2 DEF SpanRecords
    <2>4. Settled(e)
        BY <2>3 DEF Settled
    <2>5. e = ended(k)
        BY <2>1, <2>2
    <2>6. QED
        BY <2>3, <2>4, <2>5
<1>5. ASSUME NEW k \in 1..Len(spans), k \notin batch PROVE Settled(spans[k])
    <2>1. SUFFICES ASSUME k >= call.first PROVE FALSE
        BY DEF KafkaInv, OutcomeInv
    <2>2. PICK n, f, i : n = Len(call.slices) /\ f = call.first /\ i = k - f + 1
        OBVIOUS
    <2>3. Len(spans) = f + n - 1 /\ n \in Nat /\ f \in Nat /\ f >= 1
        BY <1>1, <2>2 DEF KafkaInv, CallInv
    <2>4. i \in 1..n /\ f + i - 1 = k
        <3>1. k \in Nat /\ k <= f + n - 1
            BY <2>3
        <3>2. k >= f
            BY <2>1, <2>2
        <3>3. QED
            BY <2>2, <2>3, <3>1, <3>2
    <2>5. k \in batch
        BY <2>2, <2>4 DEF Kafka!SpanOf
    <2>6. QED
        BY <1>5, <2>5
<1> HIDE DEF ended, batch
<1>6. \A k \in 1..Len(spans) : u[k] = ended(k) \/ (u[k] = spans[k] /\ k \notin batch)
    BY <1>3
<1>7. \A k \in 1..Len(spans) : u[k] \in SpanRecords /\ u[k].fn = spans[k].fn /\ Settled(u[k])
    BY <1>1, <1>4, <1>5, <1>6
<1>8. u \in [1..Len(spans) -> SpanRecords]
    BY <1>3, <1>7
<1>9. u \in Logs /\ Len(u) = Len(spans)
    BY <1>1, <1>8, LenProperties DEF Logs
<1>10. QED
    BY <1>2, <1>7, <1>9

\* What is sent will carry its producers.
LEMMA SentCarries ==
    ASSUME KafkaInv, kafkaPc = "writing", NEW failed \in SUBSET (DOMAIN call.slices)
    PROVE  /\ Kafka!Sent(failed) \in Seq(Queued)
           /\ \A k \in 1..Len(Kafka!Sent(failed)) :
                 WillCarry(Kafka!Sent(failed)[k].producer, Kafka!Sent(failed)[k].slice)
<1>1. /\ Len(call.slices) \in Nat /\ DOMAIN call.slices = 1..Len(call.slices)
      /\ call.slices \in Seq(Nat) /\ call.first \in Nat
    BY KafkaTypes
<1> DEFINE ok == {i \in 1..Len(call.slices) : i \notin failed}
           nth(k) == CHOOSE i \in ok : Cardinality({j \in ok : j <= i}) = k
           message(k) == [producer |-> Kafka!SpanOf(nth(k)), slice |-> call.slices[nth(k)]]
<1>2. PICK q, n : q = Kafka!Sent(failed) /\ n = Cardinality(ok)
    OBVIOUS
<1>3. q = [k \in 1..n |-> message(k)]
    BY <1>1, <1>2, KafkaCounts DEF Kafka!Sent
<1>4. n \in Nat
    <2>1. IsFiniteSet(1..Len(call.slices)) /\ ok \subseteq 1..Len(call.slices)
        BY <1>1, FS_Interval
    <2>2. IsFiniteSet(ok)
        BY <2>1, FS_Subset
    <2>3. QED
        BY <1>2, <2>2, FS_CardinalityType
<1>5. ASSUME NEW k \in 1..n PROVE nth(k) \in 1..Len(call.slices)
    <2>1. PICK s, m : s = ok /\ m = Len(call.slices)
        OBVIOUS
    <2>2. m \in Nat /\ s \in SUBSET (1..m) /\ k \in 1..Cardinality(s)
        BY <1>1, <1>2, <2>1
    <2>3. \E i \in s : Cardinality({j \in s : j <= i}) = k
        BY <2>2, Ranked
    <2>4. nth(k) \in ok
        BY <2>1, <2>3
    <2>5. QED
        BY <2>4
<1> HIDE DEF nth
<1>6. ASSUME NEW k \in 1..n
      PROVE  message(k) \in Queued /\ WillCarry(message(k).producer, message(k).slice)
    <2>1. PICK i \in 1..Len(call.slices) : i = nth(k)
        BY <1>5
    <2>2. WillCarry(Kafka!SpanOf(i), call.slices[i])
        BY DEF KafkaInv, HeaderInv
    <2>3. Kafka!SpanOf(i) \in Nat
        BY <1>1, <2>2 DEF Kafka!SpanOf, WillCarry
    <2>4. call.slices[i] \in Nat
        BY <1>1
    <2>5. QED
        BY <2>1, <2>2, <2>3, <2>4 DEF Queued
<1>7. q \in [1..n -> Queued] /\ \A k \in 1..n : q[k] = message(k)
    BY <1>3, <1>6
<1>8. q \in Seq(Queued) /\ Len(q) = n
    BY <1>4, <1>7, LenProperties
<1>9. \A k \in 1..n : WillCarry(q[k].producer, q[k].slice)
    BY <1>6, <1>7
<1>10. QED
    BY <1>2, <1>8, <1>9

\* What both ways of returning have in common.
LEMMA BatchReturns ==
    ASSUME KafkaInv, kafkaPc = "writing", NEW failed \in SUBSET (DOMAIN call.slices),
           spans' = Kafka!EndBatch(spans, failed), call' = Kafka!NoCall, kafkaPc' = "app",
           UNCHANGED <<tp, used, reads, links, shared>>,
           queue' \in Seq(Queued), topic' \in Seq(Messages),
           \A i \in 1..Len(topic') : Carries(topic'[i]),
           \A i \in 1..Len(queue') : WillCarry(queue'[i].producer, queue'[i].slice)
    PROVE  KafkaInv'
<1>1. /\ spans' \in Logs /\ Len(spans') = Len(spans)
      /\ \A i \in 1..Len(spans) : spans'[i].fn = spans[i].fn /\ Settled(spans'[i])
    BY BatchEnded
<1>2. spans \in Logs /\ Len(spans) \in Nat
    BY KafkaTypes
<1>3. KafkaTypeOK'
    BY <1>1, NoCallTyped DEF KafkaInv, KafkaTypeOK
<1>4. Len(<<>>) = 0 /\ 1..0 = {}
    OBVIOUS
<1>5. HeaderInv' /\ CallInv'
    BY <1>4, NoCallTyped DEF KafkaInv, HeaderInv, CallInv, WillCarry, Carries
<1>6. OutcomeInv'
    BY <1>1 DEF OutcomeInv, Settled
<1>7. ReadInv'
    <2>1. Receives(spans') = Receives(spans)
        BY <1>1 DEF Receives
    <2>2. QED
        BY <2>1 DEF KafkaInv, ReadInv
<1>8. QED
    BY <1>3, <1>5, <1>6, <1>7 DEF KafkaInv

LEMMA WriteReturnsKeeps ==
    ASSUME KafkaInv, NEW failed \in SUBSET (DOMAIN call.slices), Kafka!WriteReturns(failed)
    PROVE  KafkaInv'
<1>1. PICK q, w : q = Kafka!Sent(failed) /\ w = [k \in DOMAIN q |-> Kafka!OnWire(q[k])]
    OBVIOUS
<1>2. /\ kafkaPc = "writing" /\ kafkaPc' = "app" /\ call' = Kafka!NoCall
      /\ spans' = Kafka!EndBatch(spans, failed)
      /\ topic' = topic \o w /\ UNCHANGED <<tp, used, queue, reads, links, shared>>
    BY <1>1 DEF Kafka!WriteReturns
<1>3. q \in Seq(Queued) /\ \A k \in 1..Len(q) : WillCarry(q[k].producer, q[k].slice)
    BY <1>1, <1>2, SentCarries
<1>4. Len(q) \in Nat /\ DOMAIN q = 1..Len(q) /\ \A k \in 1..Len(q) : q[k] \in Queued
    BY <1>3, LenProperties
<1>5. topic \in Seq(Messages) /\ tp \in [Kafka!Slices -> Nat] /\ used \in 0..MaxSlices
      /\ queue \in Seq(Queued) /\ Len(topic) \in Nat
    BY KafkaTypes
<1>6. \A k \in 1..Len(q) : Kafka!OnWire(q[k]) \in Messages /\ Carries(Kafka!OnWire(q[k]))
    BY <1>3, <1>4, <1>5, WireCarries
<1>7. w \in [1..Len(q) -> Messages] /\ \A k \in 1..Len(q) : Carries(w[k])
    BY <1>1, <1>4, <1>6
<1>8. w \in Seq(Messages) /\ Len(w) = Len(q)
    BY <1>4, <1>7, LenProperties
<1>9. /\ topic' \in Seq(Messages) /\ Len(topic') = Len(topic) + Len(w)
      /\ \A i \in 1..(Len(topic) + Len(w)) :
            topic'[i] = IF i <= Len(topic) THEN topic[i] ELSE w[i - Len(topic)]
    <2>1. topic' = topic \o w
        BY <1>2
    <2>2. topic \in Seq(Messages) /\ w \in Seq(Messages)
        BY <1>5, <1>8
    <2>3. QED
        BY <2>1, <2>2, ConcatProperties
<1>10. \A i \in 1..(Len(topic) + Len(w)) :
          i \in 1..Len(topic) \/ (~(i <= Len(topic)) /\ i - Len(topic) \in 1..Len(w))
    BY <1>4, <1>5, <1>8
<1>11. \A i \in 1..Len(topic) : Carries(topic[i]) /\ i <= Len(topic)
    BY <1>5 DEF KafkaInv, HeaderInv
<1>12. \A i \in 1..Len(topic') : Carries(topic'[i])
    BY <1>7, <1>8, <1>9, <1>10, <1>11
<1>13. \A i \in 1..Len(queue') : WillCarry(queue'[i].producer, queue'[i].slice)
    BY <1>2 DEF KafkaInv, HeaderInv
<1>14. QED
    BY <1>2, <1>5, <1>9, <1>12, <1>13, BatchReturns

LEMMA AsyncWriteReturnsKeeps == ASSUME KafkaInv, Kafka!AsyncWriteReturns PROVE KafkaInv'
<1>1. PICK q : q = Kafka!Sent({})
    OBVIOUS
<1>2. /\ kafkaPc = "writing" /\ kafkaPc' = "app" /\ call' = Kafka!NoCall
      /\ spans' = Kafka!EndBatch(spans, {})
      /\ queue' = queue \o q /\ UNCHANGED <<tp, used, topic, reads, links, shared>>
    BY <1>1 DEF Kafka!AsyncWriteReturns
<1>3. {} \in SUBSET (DOMAIN call.slices)
    OBVIOUS
<1>4. q \in Seq(Queued) /\ \A k \in 1..Len(q) : WillCarry(q[k].producer, q[k].slice)
    BY <1>1, <1>2, <1>3, SentCarries
<1>5. topic \in Seq(Messages) /\ queue \in Seq(Queued) /\ Len(queue) \in Nat /\ Len(q) \in Nat
    BY <1>4, LenProperties, KafkaTypes
<1>6. /\ queue' \in Seq(Queued) /\ Len(queue') = Len(queue) + Len(q)
      /\ \A i \in 1..(Len(queue) + Len(q)) :
            queue'[i] = IF i <= Len(queue) THEN queue[i] ELSE q[i - Len(queue)]
    BY <1>2, <1>4, <1>5, ConcatProperties
<1>7. \A i \in 1..(Len(queue) + Len(q)) :
         i \in 1..Len(queue) \/ (~(i <= Len(queue)) /\ i - Len(queue) \in 1..Len(q))
    BY <1>5
<1>8. \A i \in 1..Len(queue) : WillCarry(queue[i].producer, queue[i].slice) /\ i <= Len(queue)
    BY <1>5 DEF KafkaInv, HeaderInv
<1>9. \A i \in 1..Len(queue') : WillCarry(queue'[i].producer, queue'[i].slice)
    BY <1>4, <1>6, <1>7, <1>8
<1>10. \A i \in 1..Len(topic') : Carries(topic'[i])
    BY <1>2 DEF KafkaInv, HeaderInv
<1>11. QED
    BY <1>2, <1>3, <1>5, <1>6, <1>9, <1>10, BatchReturns

\* The span of a read: settled, and the child of the span in the message's header.
LEMMA ConsumerSpanMade ==
    ASSUME KafkaInv, NEW m \in Seq(Messages), NEW failed \in BOOLEAN,
           NEW u, u = Kafka!ConsumerSpan(m, failed)
    PROVE  /\ u \in Logs /\ Len(u) = Len(spans) + 1
           /\ \A i \in 1..Len(spans) : u[i] = spans[i]
           /\ u[Len(spans) + 1].fn = "receive" /\ Settled(u[Len(spans) + 1])
           /\ m # <<>> /\ m[1].header # Kafka!NoParent => u[Len(spans) + 1].parent = m[1].header
<1>1. spans \in Logs /\ Len(spans) \in Nat /\ call.ctx \in Nat
    BY KafkaTypes
<1>2. PICK from : from = IF m # <<>> /\ m[1].header # Kafka!NoParent THEN m[1].header ELSE call.ctx
    OBVIOUS
<1>3. from \in Nat
    <2>1. m # <<>> => m[1] \in Messages
        BY EmptySeq, LenProperties
    <2>2. m # <<>> => m[1].header \in Nat
        BY <2>1 DEF Messages
    <2>3. QED
        BY <1>1, <1>2, <2>2
<1>4. PICK log : log = Kafka!Start(spans, from, "receive")
    OBVIOUS
<1>5. Started(spans, from, "receive", log)
    <2>1. "receive" \in {"app", "send", "receive"}
        OBVIOUS
    <2>2. QED
        BY <1>1, <1>3, <1>4, <2>1, SpanStarted
<1>6. PICK n : n = Len(spans) + 1
    OBVIOUS
<1>7. /\ log \in Logs /\ Len(log) = n /\ n \in Nat /\ n \in 1..n
      /\ \A i \in 1..Len(spans) : log[i] = spans[i]
      /\ log[n].fn = "receive" /\ log[n] \in SpanRecords
      /\ (from # Kafka!NoParent => log[n].parent = from)
    BY <1>1, <1>5, <1>6 DEF Started
<1>8. DOMAIN log = 1..n /\ \A i \in 1..n : log[i] \in SpanRecords
    <2>1. log \in Seq(SpanRecords) /\ Len(log) = n
        BY <1>7 DEF Logs
    <2>2. QED
        BY <2>1, LenProperties
<1>9. u = [log EXCEPT ![n].ended = TRUE, ![n].error = failed,
                      ![n].outcome = IF failed THEN "error" ELSE "ok"]
    BY <1>2, <1>4, <1>7, Zenon DEF Kafka!ConsumerSpan
<1>10. PICK e : e = [log[n] EXCEPT !.ended = TRUE, !.error = failed,
                                   !.outcome = IF failed THEN "error" ELSE "ok"]
    OBVIOUS
<1>11. /\ e \in SpanRecords /\ e.fn = "receive" /\ e.parent = log[n].parent /\ e.ended = TRUE
       /\ e.error = failed /\ e.outcome = IF failed THEN "error" ELSE "ok"
    BY <1>7, <1>10 DEF SpanRecords
<1>12. u = [log EXCEPT ![n] = e]
    BY <1>7, <1>8, <1>9, <1>10
<1>13. u \in [1..n -> SpanRecords] /\ u[n] = e /\ \A i \in 1..n : i # n => u[i] = log[i]
    BY <1>7, <1>8, <1>11, <1>12
<1>14. u \in Logs /\ Len(u) = n
    BY <1>7, <1>13, LenProperties DEF Logs
<1>15. \A i \in 1..Len(spans) : i \in 1..n /\ i # n
    BY <1>1, <1>6
<1>16. Settled(e)
    BY <1>11 DEF Settled
<1>17. QED
    BY <1>2, <1>6, <1>7, <1>11, <1>13, <1>14, <1>15, <1>16

\* One more span of a read.
LEMMA ReceivesGrow ==
    ASSUME NEW log \in Logs, NEW u \in Logs, Len(u) = Len(log) + 1,
           \A i \in 1..Len(log) : u[i] = log[i], u[Len(log) + 1].fn = "receive"
    PROVE  Cardinality(Receives(u)) = Cardinality(Receives(log)) + 1
<1>1. Len(log) \in Nat
    BY LenProperties DEF Logs
<1>2. PICK n : n = Len(log) + 1
    OBVIOUS
<1>3. 1..Len(u) = 1..Len(log) \cup {n} /\ n \notin 1..Len(log)
    BY <1>1, <1>2
<1>4. Receives(u) = Receives(log) \cup {n} /\ n \notin Receives(log)
    BY <1>2, <1>3 DEF Receives
<1>5. IsFiniteSet(1..Len(log)) /\ Receives(log) \subseteq 1..Len(log)
    BY <1>1, FS_Interval DEF Receives
<1>6. IsFiniteSet(Receives(log))
    BY <1>5, FS_Subset
<1>7. QED
    BY <1>4, <1>6, FS_AddElement

\* The outermost read returns m, which the topic or ReadMessage's FetchMessage gave.
LEMMA ReadReturnsKeeps ==
    ASSUME KafkaInv, kafkaPc # "writing", NEW m \in Seq(Messages), m # <<>> => Carries(m[1]),
           Kafka!ReadReturns(m), queue' = queue, topic' \in Seq(Messages),
           \A i \in 1..Len(topic') : Carries(topic'[i])
    PROVE  KafkaInv'
<1>1. PICK failed \in BOOLEAN : failed = (m = <<>>)
    OBVIOUS
<1>2. /\ kafkaPc' = "app" /\ call' = Kafka!NoCall /\ spans' = Kafka!ConsumerSpan(m, failed)
      /\ reads' = reads + 1 /\ shared' = shared /\ Kafka!HandOver(m)
      /\ links' = IF m = <<>> THEN links
                  ELSE links \cup {[producer |-> m[1].producer, shared |-> m[1].shared,
                                    parent |-> spans'[Len(spans')].parent]}
    BY <1>1 DEF Kafka!ReadReturns
<1>3. /\ spans \in Logs /\ Len(spans) \in Nat /\ used \in 0..MaxSlices
      /\ tp \in [Kafka!Slices -> Nat]
      /\ queue \in Seq(Queued) /\ reads \in Nat
    BY KafkaTypes
<1>4. links \in SUBSET [producer : Nat, shared : BOOLEAN, parent : Nat]
    BY DEF KafkaInv, KafkaTypeOK
<1>5. PICK u, n : u = spans' /\ n = Len(spans) + 1
    OBVIOUS
<1>6. /\ u \in Logs /\ Len(u) = n /\ \A i \in 1..Len(spans) : u[i] = spans[i]
      /\ u[n].fn = "receive" /\ Settled(u[n])
      /\ (m # <<>> /\ m[1].header # Kafka!NoParent => u[n].parent = m[1].header)
    <2>1. u = Kafka!ConsumerSpan(m, failed)
        BY <1>2, <1>5
    <2>2. /\ u \in Logs /\ Len(u) = Len(spans) + 1 /\ \A i \in 1..Len(spans) : u[i] = spans[i]
          /\ u[Len(spans) + 1].fn = "receive" /\ Settled(u[Len(spans) + 1])
          /\ (m # <<>> /\ m[1].header # Kafka!NoParent => u[Len(spans) + 1].parent = m[1].header)
        BY <2>1, ConsumerSpanMade
    <2>3. QED
        BY <1>5, <2>2
<1>7. n \in 1..n /\ \A i \in 1..n : i \in 1..Len(spans) \/ i = n
    BY <1>3, <1>5
<1>8. u[n].parent \in Nat
    <2>1. u[n] \in SpanRecords
        BY <1>6, <1>7, LenProperties DEF Logs
    <2>2. QED
        BY <2>1 DEF SpanRecords
<1>9. m # <<>> => m[1] \in Messages
    BY EmptySeq, LenProperties
<1>10. /\ links' \in SUBSET [producer : Nat, shared : BOOLEAN, parent : Nat]
       /\ \A l \in links' : ~l.shared => l.parent = l.producer
    <2>1. CASE m = <<>>
        BY <1>2, <1>4, <2>1 DEF KafkaInv, HeaderInv
    <2>2. CASE m # <<>>
        <3>1. PICK l : l = [producer |-> m[1].producer, shared |-> m[1].shared,
                            parent |-> u[n].parent]
            OBVIOUS
        <3>2. links' = links \cup {l}
            BY <1>2, <1>5, <1>6, <2>2, <3>1
        <3>3. l \in [producer : Nat, shared : BOOLEAN, parent : Nat]
            BY <1>8, <1>9, <2>2, <3>1 DEF Messages
        <3>4. ~l.shared => l.parent = l.producer
            <4>1. Carries(m[1])
                BY <2>2
            <4>2. ~m[1].shared => m[1].header = m[1].producer /\ m[1].header # Kafka!NoParent
                BY <4>1 DEF Carries, Kafka!NoParent
            <4>3. QED
                BY <1>6, <2>2, <3>1, <4>2
        <3>5. \A x \in links : ~x.shared => x.parent = x.producer
            BY DEF KafkaInv, HeaderInv
        <3>6. QED
            BY <1>4, <3>2, <3>3, <3>4, <3>5
    <2>3. QED
        BY <2>1, <2>2
<1>11. /\ used' \in 0..MaxSlices /\ tp' \in [Kafka!Slices -> Nat] /\ 1..used \subseteq 1..used'
       /\ \A s \in 1..used : tp'[s] = tp[s]
    <2>1. CASE used < MaxSlices /\ m # <<>>
        <3>1. used' = used + 1 /\ tp' = [tp EXCEPT ![used + 1] = m[1].header]
            BY <1>2, <2>1 DEF Kafka!HandOver
        <3>2. used + 1 \in Kafka!Slices /\ m[1].header \in Nat /\ used' \in 0..MaxSlices
            <4>1. used + 1 \in Kafka!Slices /\ used' \in 0..MaxSlices
                BY <1>3, <2>1, <3>1, SlicesAreBounded DEF Kafka!Slices
            <4>2. m[1].header \in Nat
                BY <1>9, <2>1 DEF Messages
            <4>3. QED
                BY <4>1, <4>2
        <3>3. /\ 1..used \subseteq 1..used' /\ 1..used \subseteq Kafka!Slices
              /\ \A s \in 1..used : s # used + 1
            BY <1>3, <3>1, SlicesAreBounded DEF Kafka!Slices
        <3>4. QED
            BY <1>3, <3>1, <3>2, <3>3
    <2>2. CASE ~(used < MaxSlices /\ m # <<>>)
        BY <1>2, <1>3, <2>2 DEF Kafka!HandOver
    <2>3. QED
        BY <2>1, <2>2
<1>12. KafkaTypeOK'
    <2>1. reads' \in Nat
        BY <1>2, <1>3
    <2>2. QED
        BY <1>2, <1>3, <1>5, <1>6, <1>10, <1>11, <2>1, NoCallTyped DEF KafkaTypeOK
<1>13. ASSUME NEW i \in 1..Len(queue) PROVE WillCarry(queue[i].producer, queue[i].slice)'
    <2>1. PICK p, s : p = queue[i].producer /\ s = queue[i].slice
        OBVIOUS
    <2>2. s \in 1..used /\ p # 0 /\ (s \notin shared => tp[s] = p)
        BY <2>1 DEF KafkaInv, HeaderInv, WillCarry
    <2>3. s \in 1..used' /\ tp'[s] = tp[s]
        BY <1>11, <2>2
    <2>4. queue' = queue
        OBVIOUS
    <2>5. QED
        BY <1>2, <2>1, <2>2, <2>3, <2>4 DEF WillCarry
<1>14. Len(<<>>) = 0 /\ 1..0 = {}
    OBVIOUS
<1>15. HeaderInv'
    <2>1. \A i \in 1..Len(queue') : WillCarry(queue[i].producer, queue[i].slice)'
        BY <1>13
    <2>2. \A i \in 1..Len(topic') : Carries(topic[i])'
        BY DEF Carries
    <2>3. call'.slices = <<>> /\ call'.got = <<>>
        BY <1>2, NoCallTyped
    <2>4. QED
        BY <1>10, <1>14, <2>1, <2>2, <2>3 DEF HeaderInv
<1>16. CallInv'
    BY <1>2, NoCallTyped DEF CallInv
<1>17. OutcomeInv'
    <2>1. \A i \in 1..Len(spans) : Settled(spans[i])
        BY DEF KafkaInv, OutcomeInv
    <2>2. \A i \in 1..n : Settled(u[i])
        BY <1>6, <1>7, <2>1
    <2>3. QED
        BY <1>5, <1>6, <2>2 DEF OutcomeInv, Settled
<1>18. ReadInv'
    <2>1. Cardinality(Receives(u)) = Cardinality(Receives(spans)) + 1
        BY <1>3, <1>5, <1>6, ReceivesGrow
    <2>2. QED
        BY <1>2, <1>5, <2>1 DEF KafkaInv, ReadInv
<1>19. QED
    BY <1>12, <1>15, <1>16, <1>17, <1>18 DEF KafkaInv

\* FetchMessage gives ReadMessage what it got.
LEMMA NestedFetchKeeps ==
    ASSUME KafkaInv, NEW m \in Seq(Messages), \A i \in 1..Len(m) : Carries(m[i]),
           Kafka!NestedFetchReturns(m), queue' = queue, topic' \in Seq(Messages),
           \A i \in 1..Len(topic') : Carries(topic'[i])
    PROVE  KafkaInv'
<1>1. /\ kafkaPc = "fetching" /\ kafkaPc' = "reading"
      /\ call' = [call EXCEPT !.nested = FALSE, !.got = m]
      /\ UNCHANGED <<spans, tp, used, reads, links, shared>>
    BY DEF Kafka!NestedFetchReturns
<1>2. call \in Calls /\ call.slices = <<>>
    BY <1>1, KafkaTypes DEF KafkaInv, CallInv
<1>3. call' \in Calls /\ call'.slices = <<>> /\ call'.got = m
    BY <1>1, <1>2 DEF Calls
<1>4. KafkaTypeOK'
    BY <1>1, <1>3 DEF KafkaInv, KafkaTypeOK
<1>5. Len(<<>>) = 0 /\ 1..0 = {}
    OBVIOUS
<1>6. HeaderInv'
    <2>1. \A i \in 1..Len(queue') : WillCarry(queue[i].producer, queue[i].slice)'
        BY <1>1 DEF KafkaInv, HeaderInv, WillCarry
    <2>2. /\ \A i \in 1..Len(topic') : Carries(topic[i])'
          /\ \A i \in 1..Len(call'.got) : Carries(call.got[i])'
        BY <1>3 DEF Carries
    <2>3. \A l \in links' : ~l.shared => l.parent = l.producer
        BY <1>1 DEF KafkaInv, HeaderInv
    <2>4. QED
        BY <1>3, <1>5, <2>1, <2>2, <2>3 DEF HeaderInv
<1>7. CallInv' /\ OutcomeInv' /\ ReadInv'
    BY <1>1, <1>3 DEF KafkaInv, CallInv, OutcomeInv, ReadInv
<1>8. QED
    BY <1>4, <1>6, <1>7 DEF KafkaInv

LEMMA FetchEndsKeeps == ASSUME KafkaInv, Kafka!FetchEnds PROVE KafkaInv'
<1>1. PICK m \in Seq(Messages) :
        /\ \A i \in 1..Len(m) : Carries(m[i])
        /\ topic' \in Seq(Messages) /\ \A i \in 1..Len(topic') : Carries(topic'[i])
        /\ kafkaPc = "fetching" /\ queue' = queue
        /\ Kafka!NestedFetchReturns(m) \/ Kafka!ReadReturns(m)
    <2>1. /\ topic \in Seq(Messages) /\ Len(topic) \in Nat
          /\ \A i \in 1..Len(topic) : topic[i] \in Messages /\ Carries(topic[i])
        BY KafkaTypes DEF KafkaInv, HeaderInv
    <2>2. kafkaPc = "fetching" /\ queue' = queue
        BY DEF Kafka!FetchEnds
    <2>3. CASE topic' = topic /\ (Kafka!NestedFetchReturns(<<>>) \/ Kafka!ReadReturns(<<>>))
        <3>1. <<>> \in Seq(Messages) /\ \A i \in 1..Len(<<>>) : Carries(<<>>[i])
            OBVIOUS
        <3>2. topic' \in Seq(Messages) /\ \A i \in 1..Len(topic') : Carries(topic'[i])
            BY <2>1, <2>3
        <3>3. QED
            BY <2>2, <2>3, <3>1, <3>2
    <2>4. CASE /\ topic # <<>> /\ topic' = Tail(topic)
               /\ Kafka!NestedFetchReturns(<<Head(topic)>>) \/ Kafka!ReadReturns(<<Head(topic)>>)
        <3>1. /\ topic' \in Seq(Messages) /\ Len(topic') = Len(topic) - 1 /\ Len(topic) # 0
              /\ \A i \in 1..Len(topic') : topic'[i] = topic[i + 1]
              /\ Head(topic) = topic[1]
            BY <2>1, <2>4, HeadTailProperties, EmptySeq
        <3>2. \A i \in 1..Len(topic') : i + 1 \in 1..Len(topic)
            BY <2>1, <3>1
        <3>3. \A i \in 1..Len(topic') : Carries(topic'[i])
            BY <2>1, <3>1, <3>2
        <3>4. PICK h : h = Head(topic)
            OBVIOUS
        <3>5. h \in Messages /\ Carries(h)
            BY <2>1, <3>1, <3>4
        <3>6. <<h>> \in Seq(Messages) /\ \A i \in 1..Len(<<h>>) : Carries(<<h>>[i])
            BY <3>5
        <3>7. QED
            BY <2>2, <2>4, <3>1, <3>3, <3>4, <3>6
    <2>5. QED
        BY <2>3, <2>4 DEF Kafka!FetchEnds
<1>2. CASE Kafka!NestedFetchReturns(m)
    BY <1>1, <1>2, NestedFetchKeeps
<1>3. CASE Kafka!ReadReturns(m)
    <2>1. m # <<>> => Carries(m[1])
        BY <1>1, EmptySeq, LenProperties
    <2>2. QED
        BY <1>1, <1>3, <2>1, ReadReturnsKeeps
<1>4. QED
    BY <1>1, <1>2, <1>3

LEMMA ReadEndsKeeps == ASSUME KafkaInv, Kafka!ReadEnds PROVE KafkaInv'
<1>1. /\ kafkaPc = "reading" /\ UNCHANGED <<queue, topic>>
      /\ \E m \in {call.got, <<>>} : Kafka!ReadReturns(m)
    BY DEF Kafka!ReadEnds
<1>2. call.got \in Seq(Messages) /\ topic \in Seq(Messages) /\ <<>> \in Seq(Messages)
    BY KafkaTypes
<1>3. PICK m \in {call.got, <<>>} : Kafka!ReadReturns(m)
    BY <1>1
<1>4. m \in Seq(Messages)
    BY <1>2, <1>3
<1>5. m # <<>> => Carries(m[1])
    <2>1. SUFFICES ASSUME m # <<>> PROVE Carries(call.got[1]) /\ m = call.got
        OBVIOUS
    <2>2. m = call.got
        BY <1>3, <2>1
    <2>3. 1 \in 1..Len(call.got)
        BY <1>4, <2>1, <2>2, EmptySeq, LenProperties
    <2>4. QED
        BY <2>2, <2>3 DEF KafkaInv, HeaderInv
<1>6. \A i \in 1..Len(topic') : Carries(topic'[i])
    BY <1>1 DEF KafkaInv, HeaderInv
<1>7. QED
    BY <1>1, <1>2, <1>3, <1>4, <1>5, <1>6, ReadReturnsKeeps

LEMMA KafkaNext == KafkaInv /\ (Kafka!Next \/ UNCHANGED kafkaVars) => KafkaInv'
<1> SUFFICES ASSUME KafkaInv, Kafka!Next \/ UNCHANGED kafkaVars PROVE KafkaInv'
    OBVIOUS
<1>1. CASE Kafka!AppStart
    BY <1>1, KafkaStartKeeps
<1>2. CASE Kafka!NewMessage
    BY <1>2, NewMessageKeeps
<1>3. ASSUME NEW given \in {Kafka!NoParent} \cup Kafka!AppSpans
      PROVE  /\ \A b \in Kafka!Batches, async \in BOOLEAN :
                   Kafka!WriteMessages(b, async, given) => KafkaInv'
             /\ (Kafka!ReadMessage(given) \/ Kafka!FetchMessage(given)) => KafkaInv'
    <2>1. given \in Nat
        <3>1. DOMAIN spans = 1..Len(spans)
            BY KafkaTypes
        <3>2. Kafka!AppSpans \subseteq 1..Len(spans)
            BY <3>1 DEF Kafka!AppSpans, Kafka!Live
        <3>3. QED
            BY <3>2 DEF Kafka!NoParent
    <2>2. ASSUME NEW b \in Kafka!Batches, NEW async \in BOOLEAN,
                 Kafka!WriteMessages(b, async, given)
          PROVE  KafkaInv'
        BY <2>1, <2>2, WriteMessagesKeeps
    <2>3. CASE Kafka!ReadMessage(given)
        <3>1. /\ kafkaPc = "app" /\ call' = [Kafka!NoCall EXCEPT !.ctx = given, !.nested = TRUE]
              /\ kafkaPc' = "fetching"
              /\ UNCHANGED <<spans, tp, used, queue, topic, reads, links, shared>>
            BY <2>3 DEF Kafka!ReadMessage
        <3>2. call' \in Calls /\ call'.slices = <<>> /\ call'.got = <<>>
            BY <2>1, <3>1, NoCallTyped DEF Calls
        <3>3. QED
            BY <3>1, <3>2, ReadBegins
    <2>4. CASE Kafka!FetchMessage(given)
        <3>1. /\ kafkaPc = "app" /\ call' = [Kafka!NoCall EXCEPT !.ctx = given]
              /\ kafkaPc' = "fetching"
              /\ UNCHANGED <<spans, tp, used, queue, topic, reads, links, shared>>
            BY <2>4 DEF Kafka!FetchMessage
        <3>2. call' \in Calls /\ call'.slices = <<>> /\ call'.got = <<>>
            BY <2>1, <3>1, NoCallTyped DEF Calls
        <3>3. QED
            BY <3>1, <3>2, ReadBegins
    <2>5. QED
        BY <2>2, <2>3, <2>4
<1>4. ASSUME NEW failed \in SUBSET (DOMAIN call.slices), Kafka!WriteReturns(failed) PROVE KafkaInv'
    BY <1>4, WriteReturnsKeeps
<1>5. CASE Kafka!AsyncWriteReturns
    BY <1>5, AsyncWriteReturnsKeeps
<1>6. ASSUME NEW sent \in BOOLEAN, Kafka!Completion(sent) PROVE KafkaInv'
    BY <1>6, CompletionKeeps
<1>7. CASE Kafka!FetchEnds
    BY <1>7, FetchEndsKeeps
<1>8. CASE Kafka!ReadEnds
    BY <1>8, ReadEndsKeeps
<1>9. CASE UNCHANGED kafkaVars
    BY <1>9 DEF kafkaVars, KafkaInv, KafkaTypeOK, HeaderInv, CallInv, OutcomeInv, ReadInv, Carries,
                WillCarry, Kafka!SpanOf
<1>10. QED
    BY <1>1, <1>2, <1>3, <1>4, <1>5, <1>6, <1>7, <1>8, <1>9 DEF Kafka!Next

LEMMA KafkaInvTraces == ASSUME KafkaInv PROVE MessagesAreTraced
<1>1. DOMAIN spans = 1..Len(spans)
    BY KafkaTypes
<1>2. {i \in DOMAIN spans : spans[i].fn = "receive"} = Receives(spans)
    BY <1>1 DEF Receives
<1>3. Kafka!ConsumerLinksToProducer
    <2>1. Kafka!Cardinality({i \in DOMAIN spans : spans[i].fn = "receive"}) = reads
        BY <1>2, KafkaCounts DEF KafkaInv, ReadInv
    <2>2. QED
        BY <2>1 DEF KafkaInv, HeaderInv, Kafka!ConsumerLinksToProducer
<1>4. Kafka!BatchOutcomesMatch
    BY <1>1 DEF KafkaInv, OutcomeInv, Settled, Kafka!BatchOutcomesMatch
<1>5. QED
    BY <1>3, <1>4 DEF MessagesAreTraced, Kafka!MessagesAreTraced

\* WriteMessages, its Completion, FetchMessage and ReadMessage: whatever batches are
\* written, forwarded and read, in whatever order the queued ones are sent, a consumer
\* span is the child of its message's producer span unless the header's memory was
\* shared, there is one for each read, and every span has its own message's outcome.
THEOREM MessagesTraced == MessagingSpec => []MessagesAreTraced
<1>1. MessagingInit => KafkaInv
    BY KafkaInitInv DEF MessagingInit
<1>2. KafkaInv /\ [MessagingNext]_<<hooks, vars, kafkaVars, asyncVars, deliverVars>> => KafkaInv'
    <2>1. MessagingNext \/ UNCHANGED <<hooks, vars, kafkaVars, asyncVars, deliverVars>>
              => Kafka!Next \/ UNCHANGED kafkaVars
        BY DEF MessagingNext
    <2>2. QED
        BY <2>1, KafkaNext
<1>3. QED
    BY <1>1, <1>2, KafkaInvTraces, PTL DEF MessagingSpec

=============================================================================
