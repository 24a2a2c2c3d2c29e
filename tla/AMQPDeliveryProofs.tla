------------------------- MODULE AMQPDeliveryProofs -------------------------
(***************************************************************************)
(* Safety of the settlement of AMQP consumer spans, for any number of        *)
(* consumers, callers, deliveries and settling calls.  The invariant follows *)
(* a delivery's tag: unused, queued, being registered by the one goroutine   *)
(* that has it, and from then on in the maps until some Settle or EndAll     *)
(* takes it out.                                                            *)
(***************************************************************************)
EXTENDS AMQPDelivery, SequenceLemmas, TLAPS

-----------------------------------------------------------------------------
(* The inductive invariant.                                                 *)

Registering(c) == wpc[c] \in {"addLocal", "addChannel"}
Working(c) == Registering(c) \/ wpc[c] = "send"
Ending(p) == pc[p] \in {"endInner", "endLocal", "endChannel"}
Covered(p) == Covers(op[p].tag, op[p].multiple)
Ops == [tag : 0..MaxTag, multiple : BOOLEAN, viaDelivery : BOOLEAN, failed : BOOLEAN]

\* A tag the broker has not used belongs to nobody.
TagInv == \A t \in Tags : t > next => origin[t] = Get /\ t \notin started

\* What is queued for a consumer is its own, and has no span yet.
InboxInv ==
    \A c \in Consumers :
        /\ IsInjective(inbox[c])
        /\ \A t \in Range(inbox[c]) : t <= next /\ origin[t] = c /\ t \notin started

\* A wrapper works on a delivery of its consumer that the application has not got.
WorkInv ==
    \A c \in Consumers :
        /\ Working(c) => wtag[c] \in started \ held /\ origin[wtag[c]] = c
        /\ wleft[c] # {} => wpc[c] = "endAll"
        /\ wpc[c] \in {"endAll", "closed"} => ~inOpen[c]

\* The maps hold started spans, a consumer's its own.
MapInv ==
    /\ held \subseteq started /\ channel \subseteq started
    /\ \A c \in Consumers : \A t \in local[c] \cup wleft[c] : t \in started /\ origin[t] = c
    /\ \A p \in Callers : toEnd[p] \subseteq started

\* A message from Get that is being registered is nowhere else.
GetInv ==
    \A p \in Callers : pc[p] = "getAdd" =>
        /\ op[p].tag \in started \ held /\ origin[op[p].tag] = Get
        /\ op[p].tag \notin channel /\ ends[op[p].tag] = 0
        /\ \A q \in Callers : /\ op[p].tag \notin toEnd[q]
                              /\ (q # p /\ pc[q] = "getAdd") => op[q].tag # op[p].tag

\* A settling call takes what it is about, and leaves nothing of its own delivery.
CallInv ==
    \A p \in Callers :
        /\ pc[p] \in {"idle", "getAdd", "settleInner"} => toEnd[p] = {}
        /\ toEnd[p] \subseteq Covered(p)
        /\ pc[p] = "settleInner" \/ Ending(p) => op[p].tag \in held /\ Covered(p) \subseteq covered
        /\ Ending(p) => /\ op[p].failed => Covered(p) \subseteq refused
                        /\ op[p].tag \notin channel
        /\ pc[p] \in {"endLocal", "endChannel"} => \A c \in Consumers : op[p].tag \notin local[c]

\* Somebody may still call End for tag t.
InHand(t) ==
    \/ t \in channel
    \/ BeingEnded(t)
    \/ \E c \in Consumers : t \in local[c] \/ (wtag[c] = t /\ Registering(c))

\* The sync.Once of a span that somebody may still end tells whether it was ended.
EndInv ==
    \A t \in Tags :
        /\ ends[t] \in {0, 1}
        /\ t \in onces => ends[t] = 1
        /\ t \notin started => ends[t] = 0
        /\ (InHand(t) /\ t \notin onces) => ends[t] = 0

\* A delivery whose own call has returned stays out of the maps.
ReturnInv ==
    \A t \in returned : /\ t \in held /\ t \notin channel
                        /\ \A c \in Consumers : t \notin local[c]

StructInv == TypeOK /\ TagInv /\ InboxInv /\ WorkInv /\ MapInv /\ GetInv /\ CallInv

\* The parts, and every action keeps all of them.
IInv == StructInv /\ EndInv /\ ReturnInv /\ OpenSpanIsReachable /\ EndedForAReason

-----------------------------------------------------------------------------
(* Every action keeps the invariant.                                        *)

LEMMA InitInv == Init => IInv
<1> SUFFICES ASSUME Init PROVE IInv
    OBVIOUS
<1>1. /\ NoOp \in [tag : 0..MaxTag, multiple : BOOLEAN, viaDelivery : BOOLEAN, failed : BOOLEAN]
      /\ 0 \in 0..MaxTag /\ 0 \in 0..MaxCalls /\ <<>> \in Seq(Tags) /\ Get \in Origins
    BY AMQPAssumption DEF NoOp, Origins
<1>2. TypeOK
    BY <1>1 DEF Init, TypeOK
<1>3. TagInv /\ WorkInv /\ MapInv /\ GetInv /\ CallInv
    BY DEF Init, TagInv, WorkInv, Working, Registering, MapInv, GetInv, CallInv, Ending
<1>4. InboxInv
    BY DEF Init, InboxInv, IsInjective, Range
<1>5. EndInv /\ ReturnInv /\ OpenSpanIsReachable /\ EndedForAReason
    BY DEF Init, EndInv, InHand, BeingEnded, Registering, ReturnInv, OpenSpanIsReachable,
       EndedForAReason, EndedAtMostOnce
<1>6. QED
    BY <1>2, <1>3, <1>4, <1>5 DEF IInv, StructInv

LEMMA DeliverStep ==
    ASSUME IInv, NEW c \in Consumers, Deliver(c) PROVE IInv'
<1> DEFINE n == next + 1
<1> USE DEF IInv, StructInv
<1>1. n \in Tags /\ n \notin started /\ n > next /\ next' = n /\ next' \in 0..MaxTag
    BY AMQPAssumption DEF Deliver, TypeOK, TagInv, Tags
<1>2. \A t \in Tags : t <= next => t # n /\ t <= n
    BY DEF TypeOK, Tags
<1>3. started \subseteq Tags /\ \A t \in started : t <= next
    BY DEF TypeOK, TagInv, Tags
<1>4. /\ origin' \in [Tags -> Origins] /\ origin'[n] = c
      /\ \A t \in Tags : t # n => origin'[t] = origin[t]
    BY <1>1 DEF Deliver, TypeOK, Origins
<1>5. \A t \in started : origin'[t] = origin[t]
    BY <1>2, <1>3, <1>4
<1>6. UNCHANGED <<inOpen, wpc, wtag, wleft, local, channel, held, started, ends, onces, errs,
                  pc, op, toEnd, calls, covered, refused, returned>>
    BY DEF Deliver, mapVars, spanVars, callVars, historyVars
<1>7. /\ inbox' \in [Consumers -> Seq(Tags)] /\ inbox'[c] = Append(inbox[c], n)
      /\ \A d \in Consumers : d # c => inbox'[d] = inbox[d]
    <2>1. Append(inbox[c], n) \in Seq(Tags)
        BY <1>1 DEF TypeOK
    <2>2. QED
        BY <2>1 DEF Deliver, TypeOK
<1> HIDE DEF n
<1>8. TypeOK'
    BY <1>1, <1>4, <1>6, <1>7 DEF TypeOK
<1>9. TagInv'
    BY <1>1, <1>4, <1>6 DEF TagInv, TypeOK, Tags
<1>10. InboxInv'
    <2>1. inbox[c] \in Seq(Tags) /\ n \notin Range(inbox[c])
        BY <1>1 DEF TypeOK, InboxInv, Tags
    <2>2. IsInjective(inbox'[c]) /\ Range(inbox'[c]) = Range(inbox[c]) \cup {n}
        BY <1>1, <1>7, <2>1, AppendInjectiveSeq DEF InboxInv
    <2>3. ASSUME NEW d \in Consumers, NEW t \in Range(inbox[d])
          PROVE  t <= n /\ origin'[t] = d /\ t \notin started
        <3>1. t \in Tags /\ t <= next /\ origin[t] = d /\ t \notin started
            BY DEF InboxInv, TypeOK, Range
        <3>2. QED
            BY <1>2, <1>4, <3>1
    <2>4. \A t \in Range(inbox'[c]) : t <= n /\ origin'[t] = c /\ t \notin started
        BY <1>1, <1>4, <2>2, <2>3
    <2>5. \A d \in Consumers : d # c => IsInjective(inbox'[d])
        BY <1>7 DEF InboxInv
    <2>6. QED
        BY <1>1, <1>6, <1>7, <2>2, <2>3, <2>4, <2>5 DEF InboxInv
<1>11. WorkInv'
    BY <1>5, <1>6 DEF WorkInv, Working, Registering
<1>12. MapInv' /\ GetInv' /\ CallInv'
    BY <1>5, <1>6 DEF MapInv, GetInv, CallInv, Ending, Covered, Covers
<1>13. EndInv' /\ ReturnInv' /\ OpenSpanIsReachable'
    BY <1>6 DEF EndInv, InHand, BeingEnded, Registering, ReturnInv, OpenSpanIsReachable
<1>14. EndedForAReason'
    BY <1>5, <1>6 DEF EndedForAReason, EndedAtMostOnce
<1>15. QED
    BY <1>8, <1>9, <1>10, <1>11, <1>12, <1>13, <1>14

LEMMA CloseDeliveriesStep ==
    ASSUME IInv, NEW c \in Consumers, CloseDeliveries(c) PROVE IInv'
<1> USE DEF IInv, StructInv
<1>1. /\ inOpen' \in [Consumers -> BOOLEAN]
      /\ \A d \in Consumers : ~inOpen[d] => ~inOpen'[d]
      /\ UNCHANGED <<next, origin, inbox, wpc, wtag, wleft, local, channel, held, started,
                     ends, onces, errs, pc, op, toEnd, calls, covered, refused, returned>>
    BY DEF CloseDeliveries, TypeOK, mapVars, spanVars, callVars, historyVars
<1>2. TypeOK' /\ WorkInv' /\ EndedForAReason'
    BY <1>1 DEF TypeOK, WorkInv, Working, Registering, EndedForAReason, EndedAtMostOnce
<1>3. TagInv' /\ InboxInv' /\ MapInv' /\ GetInv' /\ CallInv'
    BY <1>1 DEF TagInv, InboxInv, MapInv, GetInv, CallInv, Ending, Covered, Covers
<1>4. EndInv' /\ ReturnInv' /\ OpenSpanIsReachable'
    BY <1>1 DEF EndInv, InHand, BeingEnded, Registering, ReturnInv, OpenSpanIsReachable
<1>5. QED
    BY <1>2, <1>3, <1>4

LEMMA WrapperReceiveStep ==
    ASSUME IInv, NEW c \in Consumers, WrapperReceive(c) PROVE IInv'
<1> USE DEF IInv, StructInv
<1>1. /\ wpc[c] = "recv" /\ inbox[c] \in Seq(Tags) /\ inbox[c] # <<>>
      /\ IsInjective(inbox[c])
    BY DEF WrapperReceive, TypeOK, InboxInv
<1>head. PICK t \in Tags : t = Head(inbox[c])
    BY <1>1
<1>2. /\ Tail(inbox[c]) \in Seq(Tags) /\ IsInjective(Tail(inbox[c]))
      /\ t \in Range(inbox[c]) /\ Range(Tail(inbox[c])) = Range(inbox[c]) \ {t}
    BY <1>head, <1>1, TailInjective
<1>3. t \in Tags /\ t <= next /\ origin[t] = c /\ t \notin started
    BY <1>2 DEF InboxInv
<1>4. /\ inbox' \in [Consumers -> Seq(Tags)] /\ inbox'[c] = Tail(inbox[c])
      /\ \A d \in Consumers : d # c => inbox'[d] = inbox[d]
    BY <1>2 DEF WrapperReceive, TypeOK
<1>5. /\ wtag' \in [Consumers -> 0..MaxTag] /\ wtag'[c] = t
      /\ \A d \in Consumers : d # c => wtag'[d] = wtag[d]
    <2>1. t \in 0..MaxTag
        BY <1>3 DEF Tags
    <2>2. wtag' = [wtag EXCEPT ![c] = t]
        BY <1>head DEF WrapperReceive
    <2>3. QED
        BY <2>1, <2>2 DEF TypeOK
<1>6. /\ wpc' = [wpc EXCEPT ![c] = IF c \in AutoAck THEN "send" ELSE "addLocal"]
      /\ wpc'[c] = IF c \in AutoAck THEN "send" ELSE "addLocal"
      /\ \A d \in Consumers : d # c => wpc'[d] = wpc[d]
    BY DEF WrapperReceive, TypeOK
<1>7. /\ ends[t] = 0 /\ ends' \in [Tags -> Nat]
      /\ ends'[t] = IF c \in AutoAck THEN 1 ELSE 0
      /\ \A u \in Tags : u # t => ends'[u] = ends[u]
    <2>1. ends[t] = 0
        BY <1>3 DEF EndInv
    <2>2. ends' = [ends EXCEPT ![t] = IF c \in AutoAck THEN ends[t] + 1 ELSE ends[t]]
        BY <1>head DEF WrapperReceive
    <2>3. QED
        BY <1>3, <2>1, <2>2 DEF TypeOK
<1>8. /\ started' = started \cup {t}
      /\ UNCHANGED <<next, origin, inOpen, wleft, local, channel, held, onces, errs, pc, op,
                     toEnd, calls, covered, refused, returned>>
    BY <1>head DEF WrapperReceive, mapVars, callVars, historyVars
<1>9. started \subseteq Tags /\ held \subseteq started /\ t \notin held
    BY <1>3 DEF TypeOK, MapInv
<1>10. TypeOK'
    BY <1>3, <1>4, <1>5, <1>6, <1>7, <1>8 DEF TypeOK
<1>11. TagInv'
    BY <1>3, <1>8 DEF TagInv, TypeOK, Tags
<1>12. InboxInv'
    <2>1. ASSUME NEW d \in Consumers, d # c PROVE t \notin Range(inbox[d])
        BY <1>3, <2>1 DEF InboxInv
    <2>2. QED
        BY <1>2, <1>4, <1>8, <2>1 DEF InboxInv
<1>13. WorkInv'
    BY <1>1, <1>3, <1>5, <1>6, <1>8, <1>9 DEF WorkInv, Working, Registering
<1>14. MapInv'
    BY <1>8 DEF MapInv
<1>15. GetInv'
    BY <1>3, <1>7, <1>8, <1>9 DEF GetInv
<1>16. CallInv' /\ ReturnInv'
    BY <1>8 DEF CallInv, Ending, Covered, Covers, ReturnInv
<1>17. ASSUME NEW u \in Tags, u # t, InHand(u)' PROVE InHand(u)
    BY <1>1, <1>5, <1>6, <1>8, <1>17 DEF InHand, BeingEnded, Registering
<1>18. t \notin onces
    BY <1>3, <1>7 DEF EndInv
<1>19. InHand(t)' => c \notin AutoAck
    <2>1. t \notin channel /\ ~BeingEnded(t) /\ \A d \in Consumers : t \notin local[d]
        BY <1>3 DEF MapInv, BeingEnded
    <2>2. ASSUME NEW d \in Consumers, d # c, Working(d) PROVE wtag[d] # t
        BY <1>3, <2>2 DEF WorkInv
    <2>3. ASSUME NEW d \in Consumers, d # c, wtag'[d] = t PROVE ~Registering(d)'
        BY <1>5, <1>6, <2>2, <2>3 DEF Registering, Working
    <2>4. Registering(c)' => c \notin AutoAck
        BY <1>6 DEF Registering
    <2>5. QED
        BY <1>8, <2>1, <2>3, <2>4 DEF InHand, BeingEnded
<1>20. EndInv'
    <2>1. ASSUME NEW u \in Tags, u # t
          PROVE  /\ ends'[u] \in {0, 1}
                 /\ u \in onces' => ends'[u] = 1
                 /\ u \notin started' => ends'[u] = 0
                 /\ (InHand(u)' /\ u \notin onces') => ends'[u] = 0
        BY <1>7, <1>8, <1>17, <2>1 DEF EndInv
    <2>2. /\ ends'[t] \in {0, 1} /\ t \notin onces' /\ t \in started'
          /\ InHand(t)' => ends'[t] = 0
        BY <1>7, <1>8, <1>18, <1>19
    <2>3. QED
        BY <2>1, <2>2 DEF EndInv
<1>21. OpenSpanIsReachable'
    <2>1. ends'[t] = 0 => wtag'[c] = t /\ wpc'[c] \in {"addLocal", "addChannel"}
        BY <1>5, <1>6, <1>7
    <2>2. ASSUME NEW u \in started, ends'[u] = 0
          PROVE  \/ u \in channel'
                 \/ BeingEnded(u)'
                 \/ \E d \in Consumers : wtag'[d] = u /\ wpc'[d] \in {"addLocal", "addChannel"}
                 \/ \E p \in Callers : op'[p].tag = u /\ pc'[p] = "getAdd"
        <3>1. u \in Tags /\ u # t
            BY <1>3, <1>9
        <3>2. ends[u] = 0
            BY <1>7, <2>2, <3>1
        <3>3. QED
            BY <1>1, <1>5, <1>6, <1>8, <2>2, <3>2 DEF OpenSpanIsReachable, BeingEnded
    <2>3. QED
        BY <1>8, <2>1, <2>2 DEF OpenSpanIsReachable
<1>22. EndedForAReason'
    <2>1. ASSUME NEW u \in started', ends'[u] > 0
          PROVE  \/ u \in covered
                 \/ origin[u] \in Consumers /\ (origin[u] \in AutoAck \/ ~inOpen[origin[u]])
                 \/ origin[u] = Get /\ u \notin held
        <3>1. CASE u = t
            BY <1>3, <1>7, <2>1, <3>1
        <3>2. CASE u # t
            <4>1. u \in started /\ u \in Tags /\ ends[u] > 0
                BY <1>7, <1>8, <1>9, <2>1, <3>2
            <4>2. QED
                BY <4>1 DEF EndedForAReason
        <3>3. QED
            BY <3>1, <3>2
    <2>2. \A u \in Tags : ends'[u] <= 1
        <3>1. \A u \in Tags : ends'[u] \in {0, 1}
            BY <1>20 DEF EndInv
        <3>2. QED
            BY <3>1
    <2>3. QED
        BY <1>8, <2>1, <2>2 DEF EndedForAReason, EndedAtMostOnce
<1>23. QED
    BY <1>10, <1>11, <1>12, <1>13, <1>14, <1>15, <1>16, <1>20, <1>21, <1>22

LEMMA WrapperAddLocalStep ==
    ASSUME IInv, NEW c \in Consumers, WrapperAddLocal(c) PROVE IInv'
<1> USE DEF IInv, StructInv
<1>1. /\ wpc[c] = "addLocal" /\ Working(c) /\ Registering(c)
      /\ wtag[c] \in started \ held /\ wtag[c] \in Tags /\ origin[wtag[c]] = c
    BY DEF WrapperAddLocal, WorkInv, Working, Registering, TypeOK
<1>2. /\ local' \in [Consumers -> SUBSET Tags] /\ local'[c] = local[c] \cup {wtag[c]}
      /\ \A d \in Consumers : d # c => local'[d] = local[d]
    BY <1>1 DEF WrapperAddLocal, TypeOK
<1>3. /\ wpc' = [wpc EXCEPT ![c] = "addChannel"] /\ wpc'[c] = "addChannel"
      /\ \A d \in Consumers : d # c => wpc'[d] = wpc[d]
    BY DEF WrapperAddLocal, TypeOK
<1>4. UNCHANGED <<next, origin, inbox, inOpen, wtag, wleft, channel, held, started, ends,
                  onces, errs, pc, op, toEnd, calls, covered, refused, returned>>
    BY DEF WrapperAddLocal, spanVars, callVars, historyVars
<1>5. TypeOK'
    BY <1>2, <1>3, <1>4 DEF TypeOK
<1>6. TagInv' /\ InboxInv' /\ GetInv' /\ EndedForAReason'
    BY <1>4 DEF TagInv, InboxInv, GetInv, EndedForAReason, EndedAtMostOnce
<1>7. WorkInv'
    BY <1>1, <1>3, <1>4 DEF WorkInv, Working, Registering
<1>8. MapInv'
    <2>1. \A d \in Consumers : \A t \in local'[d] \cup wleft[d] : t \in started /\ origin[t] = d
        BY <1>1, <1>2 DEF MapInv
    <2>2. QED
        BY <1>4, <2>1 DEF MapInv
<1>9. CallInv'
    <2>1. ASSUME NEW p \in Callers, pc[p] \in {"endLocal", "endChannel"}, NEW d \in Consumers
          PROVE  op[p].tag \notin local'[d]
        <3>1. op[p].tag \in held /\ op[p].tag \notin local[d]
            BY <2>1 DEF CallInv, Ending
        <3>2. QED
            BY <1>1, <1>2, <3>1
    <2>2. QED
        BY <1>4, <2>1 DEF CallInv, Ending, Covered, Covers
<1>10. ASSUME NEW t \in Tags, InHand(t)' PROVE InHand(t)
    BY <1>1, <1>2, <1>3, <1>4, <1>10 DEF InHand, BeingEnded, Registering
<1>11. EndInv'
    BY <1>4, <1>10 DEF EndInv
<1>12. ReturnInv'
    BY <1>1, <1>2, <1>4 DEF ReturnInv
<1>13. OpenSpanIsReachable'
    BY <1>1, <1>3, <1>4 DEF OpenSpanIsReachable, BeingEnded
<1>14. QED
    BY <1>5, <1>6, <1>7, <1>8, <1>9, <1>11, <1>12, <1>13

LEMMA WrapperAddChannelStep ==
    ASSUME IInv, NEW c \in Consumers, WrapperAddChannel(c) PROVE IInv'
<1> USE DEF IInv, StructInv
<1>1. /\ wpc[c] = "addChannel" /\ Working(c) /\ Registering(c)
      /\ wtag[c] \in started \ held /\ wtag[c] \in Tags /\ origin[wtag[c]] = c
    BY DEF WrapperAddChannel, WorkInv, Working, Registering, TypeOK
<1>2. channel' = channel \cup {wtag[c]}
    BY DEF WrapperAddChannel
<1>3. /\ wpc' = [wpc EXCEPT ![c] = "send"] /\ wpc'[c] = "send"
      /\ \A d \in Consumers : d # c => wpc'[d] = wpc[d]
    BY DEF WrapperAddChannel, TypeOK
<1>4. UNCHANGED <<next, origin, inbox, inOpen, wtag, wleft, local, held, started, ends, onces,
                  errs, pc, op, toEnd, calls, covered, refused, returned>>
    BY DEF WrapperAddChannel, spanVars, callVars, historyVars
<1>5. TypeOK'
    <2>1. channel' \in SUBSET Tags
        BY <1>1, <1>2 DEF TypeOK
    <2>2. QED
        BY <1>3, <1>4, <2>1 DEF TypeOK
<1>6. TagInv' /\ InboxInv' /\ EndedForAReason'
    BY <1>4 DEF TagInv, InboxInv, EndedForAReason, EndedAtMostOnce
<1>7. WorkInv'
    BY <1>1, <1>3, <1>4 DEF WorkInv, Working, Registering
<1>8. MapInv'
    <2>1. channel' \subseteq started
        BY <1>1, <1>2 DEF MapInv
    <2>2. QED
        BY <1>4, <2>1 DEF MapInv
<1>9. GetInv'
    <2>1. ASSUME NEW p \in Callers, pc[p] = "getAdd" PROVE op[p].tag \notin channel'
        <3>1. origin[op[p].tag] = Get /\ op[p].tag \notin channel
            BY <2>1 DEF GetInv
        <3>2. QED
            BY <1>1, <1>2, <3>1, AMQPAssumption
    <2>2. QED
        BY <1>4, <2>1 DEF GetInv
<1>10. CallInv'
    <2>1. ASSUME NEW p \in Callers, Ending(p) PROVE op[p].tag \notin channel'
        BY <1>1, <1>2, <2>1 DEF CallInv
    <2>2. QED
        BY <1>4, <2>1 DEF CallInv, Ending, Covered, Covers
<1>11. ASSUME NEW t \in Tags, InHand(t)' PROVE InHand(t)
    BY <1>1, <1>2, <1>3, <1>4, <1>11 DEF InHand, BeingEnded, Registering
<1>12. EndInv'
    BY <1>4, <1>11 DEF EndInv
<1>13. ReturnInv'
    <2>1. \A t \in returned : t \notin channel'
        BY <1>1, <1>2 DEF ReturnInv
    <2>2. QED
        BY <1>4, <2>1 DEF ReturnInv
<1>14. OpenSpanIsReachable'
    BY <1>1, <1>2, <1>3, <1>4 DEF OpenSpanIsReachable, BeingEnded
<1>15. QED
    BY <1>5, <1>6, <1>7, <1>8, <1>9, <1>10, <1>12, <1>13, <1>14

LEMMA WrapperSendStep ==
    ASSUME IInv, NEW c \in Consumers, WrapperSend(c) PROVE IInv'
<1> USE DEF IInv, StructInv
<1>1. /\ wpc[c] = "send" /\ Working(c)
      /\ wtag[c] \in started /\ wtag[c] \in Tags /\ origin[wtag[c]] = c
    BY DEF WrapperSend, WorkInv, Working, Registering, TypeOK
<1>2. held' = held \cup {wtag[c]}
    BY DEF WrapperSend
<1>3. /\ wpc' = [wpc EXCEPT ![c] = "recv"] /\ wpc'[c] = "recv"
      /\ \A d \in Consumers : d # c => wpc'[d] = wpc[d]
    BY DEF WrapperSend, TypeOK
<1>4. UNCHANGED <<next, origin, inbox, inOpen, wtag, wleft, local, channel, started, ends,
                  onces, errs, pc, op, toEnd, calls, covered, refused, returned>>
    BY DEF WrapperSend, mapVars, spanVars, callVars, historyVars
<1>5. TypeOK'
    <2>1. held' \in SUBSET Tags
        BY <1>1, <1>2 DEF TypeOK
    <2>2. QED
        BY <1>3, <1>4, <2>1 DEF TypeOK
<1>6. TagInv' /\ InboxInv' /\ CallInv' /\ ReturnInv'
    BY <1>2, <1>4 DEF TagInv, InboxInv, CallInv, Ending, Covered, Covers, ReturnInv
<1>7. WorkInv'
    <2>1. ASSUME NEW d \in Consumers, Working(d)'
          PROVE  wtag[d] \in started \ held' /\ origin[wtag[d]] = d
        <3>1. d # c /\ Working(d)
            BY <1>3, <2>1 DEF Working, Registering
        <3>2. wtag[d] \in started \ held /\ origin[wtag[d]] = d
            BY <3>1 DEF WorkInv
        <3>3. QED
            BY <1>1, <1>2, <3>1, <3>2
    <2>2. QED
        BY <1>1, <1>3, <1>4, <2>1 DEF WorkInv
<1>8. MapInv'
    <2>1. held' \subseteq started
        BY <1>1, <1>2 DEF MapInv
    <2>2. QED
        BY <1>4, <2>1 DEF MapInv
<1>9. GetInv'
    <2>1. ASSUME NEW p \in Callers, pc[p] = "getAdd" PROVE op[p].tag \notin held'
        <3>1. origin[op[p].tag] = Get /\ op[p].tag \notin held
            BY <2>1 DEF GetInv
        <3>2. QED
            BY <1>1, <1>2, <3>1, AMQPAssumption
    <2>2. QED
        BY <1>4, <2>1 DEF GetInv
<1>10. ASSUME NEW t \in Tags, InHand(t)' PROVE InHand(t)
    BY <1>1, <1>3, <1>4, <1>10 DEF InHand, BeingEnded, Registering
<1>11. EndInv'
    BY <1>4, <1>10 DEF EndInv
<1>12. OpenSpanIsReachable'
    BY <1>1, <1>3, <1>4 DEF OpenSpanIsReachable, BeingEnded
<1>13. EndedForAReason'
    <2>1. origin[wtag[c]] # Get
        BY <1>1, AMQPAssumption
    <2>2. QED
        BY <1>2, <1>4, <2>1 DEF EndedForAReason, EndedAtMostOnce
<1>14. QED
    BY <1>5, <1>6, <1>7, <1>8, <1>9, <1>11, <1>12, <1>13

LEMMA WrapperEndAllStep ==
    ASSUME IInv, NEW c \in Consumers, WrapperEndAll(c) PROVE IInv'
<1> USE DEF IInv, StructInv
<1>1. wpc[c] = "recv" /\ ~inOpen[c] /\ wleft[c] = {}
    BY DEF WrapperEndAll, WorkInv
<1>2. /\ local' \in [Consumers -> SUBSET Tags] /\ local'[c] = {}
      /\ wleft' \in [Consumers -> SUBSET Tags] /\ wleft'[c] = local[c]
      /\ \A d \in Consumers : d # c => local'[d] = local[d] /\ wleft'[d] = wleft[d]
    BY DEF WrapperEndAll, TypeOK
<1>3. /\ wpc' = [wpc EXCEPT ![c] = "endAll"] /\ wpc'[c] = "endAll"
      /\ \A d \in Consumers : d # c => wpc'[d] = wpc[d]
    BY DEF WrapperEndAll, TypeOK
<1>4. UNCHANGED <<next, origin, inbox, inOpen, wtag, channel, held, started, ends, onces,
                  errs, pc, op, toEnd, calls, covered, refused, returned>>
    BY DEF WrapperEndAll, spanVars, callVars, historyVars
<1>5. TypeOK'
    BY <1>2, <1>3, <1>4 DEF TypeOK
<1>6. TagInv' /\ InboxInv' /\ GetInv' /\ EndedForAReason'
    BY <1>4 DEF TagInv, InboxInv, GetInv, EndedForAReason, EndedAtMostOnce
<1>7. WorkInv' /\ MapInv' /\ CallInv' /\ ReturnInv'
    <2>1. WorkInv'
        BY <1>1, <1>2, <1>3, <1>4 DEF WorkInv, Working, Registering
    <2>2. \A d \in Consumers : \A t \in local'[d] \cup wleft'[d] : t \in local[d] \cup wleft[d]
        BY <1>2
    <2>3. MapInv'
        BY <1>4, <2>2 DEF MapInv
    <2>4. \A d \in Consumers : local'[d] \subseteq local[d]
        BY <1>2
    <2>5. CallInv'
        BY <1>4, <2>4 DEF CallInv, Ending, Covered, Covers
    <2>6. ReturnInv'
        BY <1>4, <2>4 DEF ReturnInv
    <2>7. QED
        BY <2>1, <2>3, <2>5, <2>6
<1>8. ASSUME NEW t \in Tags, InHand(t)' PROVE InHand(t)
    <2>1. \A d \in Consumers : t \in local'[d] \cup wleft'[d] => t \in local[d] \cup wleft[d]
        BY <1>2
    <2>2. \A d \in Consumers : Registering(d)' => Registering(d)
        BY <1>3 DEF Registering
    <2>3. QED
        BY <1>4, <1>8, <2>1, <2>2 DEF InHand, BeingEnded
<1>9. EndInv'
    BY <1>4, <1>8 DEF EndInv
<1>10. OpenSpanIsReachable'
    <2>1. \A d \in Consumers : wleft[d] \subseteq wleft'[d]
        BY <1>1, <1>2
    <2>2. \A d \in Consumers : wpc[d] \in {"addLocal", "addChannel"} => wpc'[d] = wpc[d]
        BY <1>1, <1>3
    <2>3. QED
        BY <1>4, <2>1, <2>2 DEF OpenSpanIsReachable, BeingEnded
<1>11. QED
    BY <1>5, <1>6, <1>7, <1>9, <1>10

\* The call to End that the sync.Once lets through, for an entry taken out of a map.
LEMMA EndDoes ==
    ASSUME TypeOK, EndInv, NEW t \in Tags, NEW failed \in BOOLEAN, InHand(t), End(t, failed)
    PROVE  /\ onces' = onces \cup {t} /\ ends' \in [Tags -> Nat] /\ ends'[t] = 1
           /\ \A u \in Tags : u # t => ends'[u] = ends[u]
           /\ errs' \subseteq errs \cup {t} /\ (~failed => errs' = errs)
           /\ started' = started
<1>1. ends \in [Tags -> Nat] /\ (t \in onces => ends[t] = 1) /\ (t \notin onces => ends[t] = 0)
    BY DEF TypeOK, EndInv
<1>2. QED
    BY <1>1 DEF End

\* Ending an entry keeps the count of the spans, if nobody gets hold of another.
LEMMA EndKeepsEndInv ==
    ASSUME IInv, NEW t \in Tags, t \in started, onces' = onces \cup {t}, ends'[t] = 1,
           \A u \in Tags : u # t => ends'[u] = ends[u], started' = started,
           \A u \in Tags : InHand(u)' => InHand(u)
    PROVE  EndInv'
BY DEF IInv, EndInv

LEMMA WrapperEndOneStep ==
    ASSUME IInv, NEW c \in Consumers, WrapperEndOne(c) PROVE IInv'
<1> USE DEF IInv, StructInv
<1>1. PICK t \in wleft[c] : End(t, FALSE) /\ wleft' = [wleft EXCEPT ![c] = wleft[c] \ {t}]
    BY DEF WrapperEndOne
<1>2. /\ t \in Tags /\ t \in started /\ origin[t] = c /\ InHand(t) /\ ~inOpen[c]
      /\ wpc[c] = "endAll"
    BY DEF TypeOK, MapInv, WorkInv, InHand, BeingEnded, WrapperEndOne
<1>3. /\ onces' = onces \cup {t} /\ ends' \in [Tags -> Nat] /\ ends'[t] = 1
      /\ \A u \in Tags : u # t => ends'[u] = ends[u]
      /\ errs' = errs /\ started' = started
    BY <1>1, <1>2, EndDoes
<1>4. /\ wleft' \in [Consumers -> SUBSET Tags] /\ wleft'[c] = wleft[c] \ {t}
      /\ \A d \in Consumers : d # c => wleft'[d] = wleft[d]
    BY <1>1 DEF TypeOK
<1>5. UNCHANGED <<next, origin, inbox, inOpen, wpc, wtag, local, channel, held, pc, op,
                  toEnd, calls, covered, refused, returned>>
    BY DEF WrapperEndOne, mapVars, callVars, historyVars
<1>6. TypeOK'
    <2>1. onces' \in SUBSET Tags
        BY <1>2, <1>3 DEF TypeOK
    <2>2. QED
        BY <1>3, <1>4, <1>5, <2>1 DEF TypeOK
<1>7. TagInv' /\ InboxInv' /\ CallInv' /\ ReturnInv'
    BY <1>3, <1>5 DEF TagInv, InboxInv, CallInv, Ending, Covered, Covers, ReturnInv
<1>8. \A d \in Consumers : wleft'[d] \subseteq wleft[d]
    BY <1>4
<1>9. WorkInv' /\ MapInv'
    <2>1. WorkInv'
        BY <1>2, <1>3, <1>5, <1>8 DEF WorkInv, Working, Registering
    <2>2. MapInv'
        BY <1>3, <1>5, <1>8 DEF MapInv
    <2>3. QED
        BY <2>1, <2>2
<1>10. GetInv'
    <2>1. ASSUME NEW p \in Callers, pc[p] = "getAdd" PROVE ends'[op[p].tag] = 0
        <3>1. /\ op[p].tag \in Tags /\ origin[op[p].tag] = Get /\ ends[op[p].tag] = 0
            BY <2>1 DEF GetInv, TypeOK
        <3>2. QED
            BY <1>2, <1>3, <3>1, AMQPAssumption
    <2>2. QED
        BY <1>3, <1>5, <2>1 DEF GetInv
<1>11. EndInv'
    <2>1. \A u \in Tags : InHand(u)' => InHand(u)
        BY <1>5, <1>8 DEF InHand, BeingEnded, Registering
    <2>2. QED
        BY <1>2, <1>3, <2>1, EndKeepsEndInv
<1>12. OpenSpanIsReachable'
    <2>1. ASSUME NEW u \in started, ends'[u] = 0
          PROVE  \/ u \in channel
                 \/ BeingEnded(u)'
                 \/ \E d \in Consumers : wtag[d] = u /\ wpc[d] \in {"addLocal", "addChannel"}
                 \/ \E p \in Callers : op[p].tag = u /\ pc[p] = "getAdd"
        <3>1. u \in Tags /\ u # t
            BY <1>3, <2>1 DEF TypeOK
        <3>2. ends[u] = 0
            BY <1>3, <2>1, <3>1
        <3>3. BeingEnded(u) => BeingEnded(u)'
            BY <1>4, <1>5, <3>1 DEF BeingEnded
        <3>4. QED
            BY <3>2, <3>3 DEF OpenSpanIsReachable
    <2>2. QED
        BY <1>3, <1>5, <2>1 DEF OpenSpanIsReachable
<1>13. EndedForAReason'
    <2>1. ASSUME NEW u \in started, ends'[u] > 0
          PROVE  \/ u \in covered
                 \/ origin[u] \in Consumers /\ (origin[u] \in AutoAck \/ ~inOpen[origin[u]])
                 \/ origin[u] = Get /\ u \notin held
        <3>1. CASE u = t
            BY <1>2, <3>1
        <3>2. CASE u # t
            <4>1. ends[u] > 0
                BY <1>3, <2>1, <3>2 DEF TypeOK
            <4>2. QED
                BY <4>1 DEF EndedForAReason
        <3>3. QED
            BY <3>1, <3>2
    <2>2. \A u \in Tags : ends'[u] <= 1
        <3>1. \A u \in Tags : ends'[u] \in {0, 1}
            BY <1>11 DEF EndInv
        <3>2. QED
            BY <3>1
    <2>3. QED
        BY <1>3, <1>5, <2>1, <2>2 DEF EndedForAReason, EndedAtMostOnce
<1>14. QED
    BY <1>6, <1>7, <1>9, <1>10, <1>11, <1>12, <1>13

LEMMA WrapperCloseStep ==
    ASSUME IInv, NEW c \in Consumers, WrapperClose(c) PROVE IInv'
<1> USE DEF IInv, StructInv
<1>1. wpc[c] = "endAll" /\ wleft[c] = {}
    BY DEF WrapperClose
<1>2. /\ wpc' = [wpc EXCEPT ![c] = "closed"] /\ wpc'[c] = "closed"
      /\ \A d \in Consumers : d # c => wpc'[d] = wpc[d]
    BY DEF WrapperClose, TypeOK
<1>3. UNCHANGED <<next, origin, inbox, inOpen, wtag, wleft, local, channel, held, started,
                  ends, onces, errs, pc, op, toEnd, calls, covered, refused, returned>>
    BY DEF WrapperClose, mapVars, spanVars, callVars, historyVars
<1>4. TypeOK' /\ WorkInv'
    BY <1>1, <1>2, <1>3 DEF TypeOK, WorkInv, Working, Registering
<1>5. TagInv' /\ InboxInv' /\ MapInv' /\ GetInv' /\ CallInv' /\ ReturnInv' /\ EndedForAReason'
    BY <1>3 DEF TagInv, InboxInv, MapInv, GetInv, CallInv, Ending, Covered, Covers, ReturnInv,
       EndedForAReason, EndedAtMostOnce
<1>6. \A d \in Consumers : Registering(d)' <=> Registering(d)
    BY <1>1, <1>2 DEF Registering
<1>7. EndInv'
    BY <1>3, <1>6 DEF EndInv, InHand, BeingEnded
<1>8. OpenSpanIsReachable'
    BY <1>3, <1>6 DEF OpenSpanIsReachable, BeingEnded, Registering
<1>9. QED
    BY <1>4, <1>5, <1>7, <1>8

\* No call, and a Get, are calls.
LEMMA OpTypes ==
    /\ NoOp \in Ops
    /\ \A t \in 0..MaxTag : [NoOp EXCEPT !.tag = t] \in Ops /\ [NoOp EXCEPT !.tag = t].tag = t
<1>1. 0 \in 0..MaxTag
    BY AMQPAssumption
<1>2. QED
    BY <1>1 DEF NoOp, Ops

LEMMA GetAutoAckStep ==
    ASSUME IInv, NEW p \in Callers, GetAutoAck(p) PROVE IInv'
<1> USE DEF IInv, StructInv
<1>1. PICK t \in Tags : t = next + 1
    BY AMQPAssumption DEF GetAutoAck, TypeOK, Tags
<1>2. /\ t \notin started /\ t > next /\ next' = t /\ next' \in 0..MaxTag /\ origin[t] = Get
      /\ ends[t] = 0 /\ t \notin held
    BY <1>1 DEF GetAutoAck, TypeOK, TagInv, EndInv, MapInv, Tags
<1>3. started \subseteq Tags /\ \A u \in Tags : u <= next => u # t /\ u <= t
    BY <1>1 DEF TypeOK, Tags
<1>4. started' = started \cup {t} /\ started' \in SUBSET Tags
    BY <1>1, <1>3 DEF GetAutoAck
<1>5. /\ ends' \in [Tags -> Nat] /\ ends'[t] = 1
      /\ \A u \in Tags : u # t => ends'[u] = ends[u]
    <2>1. ends' = [ends EXCEPT ![t] = ends[t] + 1]
        BY <1>1 DEF GetAutoAck
    <2>2. QED
        BY <1>2, <2>1 DEF TypeOK
<1>6. UNCHANGED <<origin, inbox, inOpen, wpc, wtag, wleft, local, channel, held, onces, errs,
                  pc, op, toEnd, calls, covered, refused, returned>>
    BY DEF GetAutoAck, wrapVars, mapVars, callVars, historyVars
<1>7. TypeOK'
    BY <1>2, <1>4, <1>5, <1>6 DEF TypeOK
<1>8. TagInv'
    BY <1>1, <1>2, <1>4, <1>6 DEF TagInv, TypeOK, Tags
<1>9. InboxInv'
    <2>1. ASSUME NEW c \in Consumers, NEW u \in Range(inbox[c])
          PROVE  u <= t /\ origin[u] = c /\ u \notin started'
        <3>1. u \in Tags /\ u <= next /\ origin[u] = c /\ u \notin started
            BY DEF InboxInv, TypeOK, Range
        <3>2. QED
            BY <1>3, <1>4, <3>1
    <2>2. QED
        BY <1>2, <1>6, <2>1 DEF InboxInv
<1>10. WorkInv' /\ MapInv' /\ CallInv' /\ ReturnInv'
    BY <1>4, <1>6 DEF WorkInv, Working, Registering, MapInv, CallInv, Ending, Covered, Covers,
       ReturnInv
<1>11. GetInv'
    <2>1. ASSUME NEW q \in Callers, pc[q] = "getAdd"
          PROVE  ends'[op[q].tag] = 0 /\ op[q].tag \in started'
        <3>1. op[q].tag \in started /\ op[q].tag \in Tags /\ ends[op[q].tag] = 0
            BY <1>3, <2>1 DEF GetInv
        <3>2. QED
            BY <1>2, <1>4, <1>5, <3>1
    <2>2. QED
        BY <1>6, <2>1 DEF GetInv
<1>12. \A u \in Tags : InHand(u)' => InHand(u)
    BY <1>6 DEF InHand, BeingEnded, Registering
<1>13. ~InHand(t)
    BY <1>2 DEF InHand, BeingEnded, Registering, Working, WorkInv, MapInv
<1>14. EndInv'
    BY <1>2, <1>4, <1>5, <1>6, <1>12, <1>13 DEF EndInv
<1>15. OpenSpanIsReachable'
    <2>1. ASSUME NEW u \in started', ends'[u] = 0 PROVE u \in started /\ ends[u] = 0
        BY <1>3, <1>4, <1>5, <2>1
    <2>2. QED
        BY <1>6, <2>1 DEF OpenSpanIsReachable, BeingEnded
<1>16. EndedForAReason'
    <2>1. ASSUME NEW u \in started', ends'[u] > 0
          PROVE  \/ u \in covered
                 \/ origin[u] \in Consumers /\ (origin[u] \in AutoAck \/ ~inOpen[origin[u]])
                 \/ origin[u] = Get /\ u \notin held
        <3>1. CASE u = t
            BY <1>2, <3>1
        <3>2. CASE u # t
            <4>1. u \in started /\ ends[u] > 0
                BY <1>3, <1>4, <1>5, <2>1, <3>2 DEF TypeOK
            <4>2. QED
                BY <4>1 DEF EndedForAReason
        <3>3. QED
            BY <3>1, <3>2
    <2>2. \A u \in Tags : ends'[u] <= 1
        <3>1. \A u \in Tags : ends'[u] \in {0, 1}
            BY <1>14 DEF EndInv
        <3>2. QED
            BY <3>1
    <2>3. QED
        BY <1>6, <2>1, <2>2 DEF EndedForAReason, EndedAtMostOnce
<1>17. QED
    BY <1>7, <1>8, <1>9, <1>10, <1>11, <1>14, <1>15, <1>16

LEMMA GetStartStep ==
    ASSUME IInv, NEW p \in Callers, GetStart(p) PROVE IInv'
<1> USE DEF IInv, StructInv
<1>1. PICK t \in Tags : t = next + 1
    BY AMQPAssumption DEF GetStart, TypeOK, Tags
<1>2. /\ t \notin started /\ t > next /\ next' = t /\ next' \in 0..MaxTag /\ origin[t] = Get
      /\ ends[t] = 0 /\ t \notin held /\ t \in 0..MaxTag
    BY <1>1 DEF GetStart, TypeOK, TagInv, EndInv, MapInv, Tags
<1>3. started \subseteq Tags /\ \A u \in Tags : u <= next => u # t /\ u <= t
    BY <1>1 DEF TypeOK, Tags
<1>4. started' = started \cup {t} /\ started' \in SUBSET Tags
    BY <1>1, <1>3 DEF GetStart
<1>5. /\ op' \in [Callers -> Ops] /\ op'[p].tag = t
      /\ \A q \in Callers : q # p => op'[q] = op[q]
    <2>1. op' = [op EXCEPT ![p] = [NoOp EXCEPT !.tag = t]] /\ op \in [Callers -> Ops]
        BY <1>1 DEF GetStart, TypeOK, Ops
    <2>2. QED
        BY <1>2, <2>1, OpTypes
<1>6. /\ pc[p] = "idle" /\ pc' = [pc EXCEPT ![p] = "getAdd"] /\ pc'[p] = "getAdd"
      /\ \A q \in Callers : q # p => pc'[q] = pc[q]
    BY DEF GetStart, TypeOK
<1>7. UNCHANGED <<origin, inbox, inOpen, wpc, wtag, wleft, local, channel, held, ends, onces,
                  errs, toEnd, calls, covered, refused, returned>>
    BY DEF GetStart, wrapVars, mapVars, historyVars
<1>8. TypeOK'
    BY <1>2, <1>4, <1>5, <1>6, <1>7 DEF TypeOK, Ops
<1>9. TagInv'
    BY <1>1, <1>2, <1>4, <1>7 DEF TagInv, TypeOK, Tags
<1>10. InboxInv'
    <2>1. ASSUME NEW c \in Consumers, NEW u \in Range(inbox[c])
          PROVE  u <= t /\ origin[u] = c /\ u \notin started'
        <3>1. u \in Tags /\ u <= next /\ origin[u] = c /\ u \notin started
            BY DEF InboxInv, TypeOK, Range
        <3>2. QED
            BY <1>3, <1>4, <3>1
    <2>2. QED
        BY <1>2, <1>7, <2>1 DEF InboxInv
<1>11. WorkInv' /\ MapInv' /\ ReturnInv'
    BY <1>4, <1>7 DEF WorkInv, Working, Registering, MapInv, ReturnInv
<1>12. GetInv'
    <2>1. t \notin channel /\ \A q \in Callers : t \notin toEnd[q]
        BY <1>2 DEF MapInv
    <2>2. \A q \in Callers : pc[q] = "getAdd" => op[q].tag # t
        BY <1>2 DEF GetInv
    <2>3. ASSUME NEW q \in Callers, q # p, pc[q] = "getAdd"
          PROVE  /\ op[q].tag \in started' \ held /\ origin[op[q].tag] = Get
                 /\ op[q].tag \notin channel /\ ends[op[q].tag] = 0
                 /\ \A r \in Callers : /\ op[q].tag \notin toEnd[r]
                                       /\ (r # q /\ pc'[r] = "getAdd") => op'[r].tag # op[q].tag
        BY <1>4, <1>5, <1>6, <2>2, <2>3 DEF GetInv
    <2>4. QED
        BY <1>2, <1>4, <1>5, <1>6, <1>7, <2>1, <2>2, <2>3 DEF GetInv
<1>13. CallInv'
    BY <1>5, <1>6, <1>7 DEF CallInv, Ending, Covered
<1>14. EndInv'
    BY <1>2, <1>4, <1>7 DEF EndInv, InHand, BeingEnded, Registering
<1>15. OpenSpanIsReachable'
    <2>1. ASSUME NEW u \in started, \E q \in Callers : op[q].tag = u /\ pc[q] = "getAdd"
          PROVE  \E q \in Callers : op'[q].tag = u /\ pc'[q] = "getAdd"
        BY <1>5, <1>6, <2>1
    <2>2. QED
        BY <1>4, <1>5, <1>6, <1>7, <2>1 DEF OpenSpanIsReachable, BeingEnded
<1>16. EndedForAReason'
    BY <1>2, <1>4, <1>7 DEF EndedForAReason, EndedAtMostOnce
<1>17. QED
    BY <1>8, <1>9, <1>10, <1>11, <1>12, <1>13, <1>14, <1>15, <1>16

LEMMA GetAddStep ==
    ASSUME IInv, NEW p \in Callers, GetAdd(p) PROVE IInv'
<1> USE DEF IInv, StructInv
<1>1. PICK t : t = op[p].tag
    OBVIOUS
<1>2. /\ pc[p] = "getAdd" /\ t \in Tags /\ t \in started /\ t \notin held /\ origin[t] = Get
      /\ ends[t] = 0 /\ \A q \in Callers : (q # p /\ pc[q] = "getAdd") => op[q].tag # t
    BY <1>1 DEF GetAdd, GetInv, TypeOK
<1>3. channel' = channel \cup {t} /\ held' = held \cup {t}
    BY <1>1 DEF GetAdd
<1>4. /\ op' \in [Callers -> Ops] /\ \A q \in Callers : q # p => op'[q] = op[q]
    <2>1. op' = [op EXCEPT ![p] = NoOp] /\ op \in [Callers -> Ops]
        BY DEF GetAdd, TypeOK, Ops
    <2>2. QED
        BY <2>1, OpTypes
<1>5. /\ pc' = [pc EXCEPT ![p] = "idle"] /\ pc'[p] = "idle"
      /\ \A q \in Callers : q # p => pc'[q] = pc[q]
    BY DEF GetAdd, TypeOK
<1>6. UNCHANGED <<next, origin, inbox, inOpen, wpc, wtag, wleft, local, started, ends, onces,
                  errs, toEnd, calls, covered, refused, returned>>
    BY DEF GetAdd, wrapVars, spanVars, historyVars
<1>7. TypeOK'
    <2>1. channel' \in SUBSET Tags /\ held' \in SUBSET Tags
        BY <1>2, <1>3 DEF TypeOK
    <2>2. QED
        BY <1>4, <1>5, <1>6, <2>1 DEF TypeOK, Ops
<1>8. TagInv' /\ InboxInv'
    BY <1>6 DEF TagInv, InboxInv
<1>9. WorkInv'
    <2>1. ASSUME NEW c \in Consumers, Working(c) PROVE wtag[c] # t
        BY <1>2, <2>1, AMQPAssumption DEF WorkInv
    <2>2. QED
        BY <1>3, <1>6, <2>1 DEF WorkInv, Working, Registering
<1>10. MapInv'
    <2>1. held' \subseteq started /\ channel' \subseteq started
        BY <1>2, <1>3 DEF MapInv
    <2>2. QED
        BY <1>6, <2>1 DEF MapInv
<1>11. GetInv'
    <2>1. ASSUME NEW q \in Callers, q # p, pc[q] = "getAdd"
          PROVE  /\ op[q].tag \in started \ held' /\ origin[op[q].tag] = Get
                 /\ op[q].tag \notin channel' /\ ends[op[q].tag] = 0
                 /\ \A r \in Callers : /\ op[q].tag \notin toEnd[r]
                                       /\ (r # q /\ pc'[r] = "getAdd") => op'[r].tag # op[q].tag
        BY <1>2, <1>3, <1>4, <1>5, <2>1 DEF GetInv
    <2>2. QED
        BY <1>4, <1>5, <1>6, <2>1 DEF GetInv
<1>12. CallInv'
    <2>1. toEnd[p] = {}
        BY <1>2 DEF CallInv
    <2>2. ASSUME NEW q \in Callers, q # p, Ending(q) PROVE op[q].tag \notin channel'
        BY <1>2, <1>3, <2>2 DEF CallInv
    <2>3. held \subseteq held'
        BY <1>3
    <2>4. ASSUME NEW q \in Callers, q # p
          PROVE  /\ pc[q] \in {"idle", "getAdd", "settleInner"} => toEnd[q] = {}
                 /\ toEnd[q] \subseteq Covered(q)
                 /\ pc[q] = "settleInner" \/ Ending(q)
                       => op[q].tag \in held' /\ Covered(q) \subseteq covered
                 /\ Ending(q) => /\ op[q].failed => Covered(q) \subseteq refused
                                 /\ op[q].tag \notin channel'
                 /\ pc[q] \in {"endLocal", "endChannel"} =>
                       \A c \in Consumers : op[q].tag \notin local[c]
        BY <2>2, <2>3, <2>4 DEF CallInv
    <2>5. QED
        BY <1>4, <1>5, <1>6, <2>1, <2>4 DEF CallInv, Ending, Covered
<1>13. ASSUME NEW u \in Tags, u # t, InHand(u)' PROVE InHand(u)
    BY <1>3, <1>6, <1>13 DEF InHand, BeingEnded, Registering
<1>14. EndInv'
    BY <1>2, <1>6, <1>13 DEF EndInv
<1>15. ReturnInv'
    BY <1>2, <1>3, <1>6 DEF ReturnInv
<1>16. OpenSpanIsReachable'
    <2>1. ASSUME NEW u \in started, u # t, \E q \in Callers : op[q].tag = u /\ pc[q] = "getAdd"
          PROVE  \E q \in Callers : op'[q].tag = u /\ pc'[q] = "getAdd"
        BY <1>1, <1>4, <1>5, <2>1
    <2>2. QED
        BY <1>3, <1>6, <2>1 DEF OpenSpanIsReachable, BeingEnded
<1>17. EndedForAReason'
    BY <1>2, <1>3, <1>6 DEF EndedForAReason, EndedAtMostOnce
<1>18. QED
    BY <1>7, <1>8, <1>9, <1>10, <1>11, <1>12, <1>14, <1>15, <1>16, <1>17

\* A call begins, of either kind: its caller was idle.
LEMMA AckBegins ==
    ASSUME IInv, NEW p \in Callers, NEW t \in Tags, NEW multiple \in BOOLEAN, NEW via \in BOOLEAN,
           pc[p] = "idle", t \in held, calls < MaxCalls, calls' = calls + 1,
           op' = [op EXCEPT ![p] = [NoOp EXCEPT !.tag = t, !.multiple = multiple,
                                                !.viaDelivery = via]],
           covered' = covered \cup Covers(t, multiple),
           pc' = [pc EXCEPT ![p] = "settleInner"],
           UNCHANGED <<next, origin, inbox, inOpen, wpc, wtag, wleft, local, channel, held,
                       started, ends, onces, errs, toEnd, refused, returned>>
    PROVE  IInv'
<1> USE DEF IInv, StructInv
<1>1. /\ op' \in [Callers -> Ops] /\ op'[p].tag = t /\ op'[p].multiple = multiple
      /\ \A q \in Callers : q # p => op'[q] = op[q]
    <2>1. t \in 0..MaxTag /\ op \in [Callers -> Ops]
        BY DEF TypeOK, Ops, Tags
    <2>2. PICK o : o = [NoOp EXCEPT !.tag = t, !.multiple = multiple, !.viaDelivery = via]
        OBVIOUS
    <2>3. o \in Ops /\ o.tag = t /\ o.multiple = multiple
        <3>1. o = [tag |-> t, multiple |-> multiple, viaDelivery |-> via, failed |-> FALSE]
            BY <2>2 DEF NoOp
        <3>2. QED
            BY <2>1, <3>1 DEF Ops
    <2>4. op' = [op EXCEPT ![p] = o]
        BY <2>2
    <2>5. QED
        BY <2>1, <2>3, <2>4
<1>2. /\ pc'[p] = "settleInner"
      /\ \A q \in Callers : q # p => pc'[q] = pc[q]
    BY DEF TypeOK
<1>3. TypeOK'
    <2>1. calls' \in 0..MaxCalls
        BY AMQPAssumption DEF TypeOK
    <2>2. covered' \in SUBSET Tags
        BY DEF TypeOK, Covers
    <2>3. pc' \in [Callers -> {"idle", "getAdd", "settleInner", "endInner", "endLocal",
                               "endChannel"}]
        BY DEF TypeOK
    <2>4. QED
        BY <1>1, <2>1, <2>2, <2>3 DEF TypeOK, Ops
<1>4. TagInv' /\ InboxInv' /\ WorkInv' /\ MapInv' /\ EndInv' /\ ReturnInv'
    BY DEF TagInv, InboxInv, WorkInv, Working, Registering, MapInv, EndInv, InHand, BeingEnded,
       ReturnInv
<1>5. GetInv'
    BY <1>1, <1>2 DEF GetInv
<1>6. CallInv'
    <2>1. toEnd[p] = {} /\ Covers(t, multiple) \subseteq covered'
        BY DEF CallInv
    <2>2. covered \subseteq covered'
        OBVIOUS
    <2>3. QED
        BY <1>1, <1>2, <2>1, <2>2 DEF CallInv, Ending, Covered
<1>7. OpenSpanIsReachable'
    BY <1>1, <1>2 DEF OpenSpanIsReachable, BeingEnded
<1>8. EndedForAReason'
    BY DEF EndedForAReason, EndedAtMostOnce
<1>9. QED
    BY <1>3, <1>4, <1>5, <1>6, <1>7, <1>8

LEMMA DeliveryAckStep ==
    ASSUME IInv, NEW p \in Callers, NEW t \in Tags, NEW multiple \in BOOLEAN,
           DeliveryAck(p, t, multiple)
    PROVE  IInv'
BY AckBegins DEF DeliveryAck, wrapVars, mapVars, spanVars

LEMMA ChannelAckStep ==
    ASSUME IInv, NEW p \in Callers, NEW t \in Tags, NEW multiple \in BOOLEAN,
           ChannelAck(p, t, multiple)
    PROVE  IInv'
BY AckBegins DEF ChannelAck, wrapVars, mapVars, spanVars

\* Settle takes, from either map, entries its call is about, its own among them.
LEMMA SettleTakes ==
    ASSUME NEW acks \in SUBSET Tags, NEW o \in Ops
    PROVE  /\ Settled(acks, o) \subseteq acks
           /\ Settled(acks, o) \subseteq Covers(o.tag, o.multiple)
           /\ o.tag \notin acks \ Settled(acks, o)
<1>1. o.tag \in Int /\ o.tag <= o.tag /\ o.multiple \in BOOLEAN
    BY AMQPAssumption DEF Ops
<1>2. Settled(acks, o) \subseteq acks
    BY DEF Settled
<1>3. ASSUME NEW u \in Settled(acks, o) PROVE u \in Covers(o.tag, o.multiple)
    BY <1>3 DEF Settled, Covers
<1>4. o.tag \in acks => o.tag \in Settled(acks, o)
    BY <1>1 DEF Settled
<1>5. QED
    BY <1>2, <1>3, <1>4

\* A call returns: its caller is idle again.
LEMMA CallReturnsKeeps ==
    ASSUME IInv, NEW p \in Callers, Ending(p), toEnd[p] = {},
           op' = [op EXCEPT ![p] = NoOp], pc' = [pc EXCEPT ![p] = "idle"],
           UNCHANGED <<next, origin, inbox, inOpen, wpc, wtag, wleft, local, channel, held,
                       started, ends, onces, errs, toEnd, calls, covered, refused>>
    PROVE  /\ StructInv' \/ returned' \notin SUBSET Tags
           /\ EndInv' /\ OpenSpanIsReachable' /\ EndedForAReason'
<1> USE DEF IInv, StructInv
<1>1. /\ op' \in [Callers -> Ops] /\ \A q \in Callers : q # p => op'[q] = op[q]
    <2>1. op \in [Callers -> Ops]
        BY DEF TypeOK, Ops
    <2>2. QED
        BY <2>1, OpTypes
<1>2. /\ pc'[p] = "idle" /\ pc[p] # "getAdd"
      /\ \A q \in Callers : q # p => pc'[q] = pc[q]
    BY DEF TypeOK, Ending
<1>3. returned' \in SUBSET Tags => TypeOK'
    <2>1. pc' \in [Callers -> {"idle", "getAdd", "settleInner", "endInner", "endLocal",
                               "endChannel"}]
        BY DEF TypeOK
    <2>2. QED
        BY <1>1, <2>1 DEF TypeOK, Ops
<1>4. TagInv' /\ InboxInv' /\ WorkInv' /\ MapInv' /\ EndInv'
    BY DEF TagInv, InboxInv, WorkInv, Working, Registering, MapInv, EndInv, InHand, BeingEnded
<1>5. GetInv' /\ CallInv'
    BY <1>1, <1>2 DEF GetInv, CallInv, Ending, Covered
<1>6. OpenSpanIsReachable'
    BY <1>1, <1>2 DEF OpenSpanIsReachable, BeingEnded
<1>7. EndedForAReason'
    BY DEF EndedForAReason, EndedAtMostOnce
<1>8. QED
    BY <1>3, <1>4, <1>5, <1>6, <1>7

LEMMA ChannelAckReturnStep ==
    ASSUME IInv, NEW p \in Callers, ChannelAckReturn(p) PROVE IInv'
<1>1. /\ Ending(p) /\ toEnd[p] = {}
      /\ op' = [op EXCEPT ![p] = NoOp] /\ pc' = [pc EXCEPT ![p] = "idle"]
      /\ UNCHANGED <<next, origin, inbox, inOpen, wpc, wtag, wleft, local, channel, held,
                     started, ends, onces, errs, toEnd, calls, covered, refused, returned>>
    BY DEF ChannelAckReturn, Ending, wrapVars, mapVars, spanVars, historyVars
<1>2. returned' \in SUBSET Tags /\ ReturnInv'
    BY <1>1 DEF IInv, StructInv, TypeOK, ReturnInv
<1>3. QED
    BY <1>1, <1>2, CallReturnsKeeps DEF IInv

LEMMA DeliveryAckReturnStep ==
    ASSUME IInv, NEW p \in Callers, DeliveryAckReturn(p) PROVE IInv'
<1>1. /\ Ending(p) /\ toEnd[p] = {} /\ pc[p] = "endChannel"
      /\ op' = [op EXCEPT ![p] = NoOp] /\ pc' = [pc EXCEPT ![p] = "idle"]
      /\ UNCHANGED <<next, origin, inbox, inOpen, wpc, wtag, wleft, local, channel, held,
                     started, ends, onces, errs, toEnd, calls, covered, refused>>
      /\ returned' = returned \cup {op[p].tag}
    BY DEF DeliveryAckReturn, Ending, wrapVars, mapVars, spanVars
<1>2. /\ op[p].tag \in held /\ op[p].tag \notin channel
      /\ \A c \in Consumers : op[p].tag \notin local[c]
    BY <1>1 DEF IInv, StructInv, CallInv
<1>3. held \in SUBSET Tags /\ returned \in SUBSET Tags
    BY DEF IInv, StructInv, TypeOK
<1>4. returned' \in SUBSET Tags
    BY <1>1, <1>2, <1>3
<1>5. ReturnInv'
    BY <1>1, <1>2 DEF IInv, ReturnInv
<1>6. QED
    BY <1>1, <1>4, <1>5, CallReturnsKeeps DEF IInv

LEMMA SettleInnerStep ==
    ASSUME IInv, NEW p \in Callers, NEW failed \in BOOLEAN, SettleInner(p, failed) PROVE IInv'
<1> USE DEF IInv, StructInv
<1>1. PICK taken : taken = Settled(channel, op[p])
    OBVIOUS
<1>2. /\ pc[p] = "settleInner" /\ op[p] \in Ops /\ op \in [Callers -> Ops]
      /\ channel \in SUBSET Tags /\ toEnd[p] = {}
      /\ op[p].tag \in held /\ Covered(p) \subseteq covered
    BY DEF SettleInner, TypeOK, Ops, CallInv
<1>3. taken \subseteq channel /\ taken \subseteq Covered(p) /\ op[p].tag \notin channel \ taken
    BY <1>1, <1>2, SettleTakes DEF Covered
<1>4. /\ op' \in [Callers -> Ops] /\ op'[p].tag = op[p].tag
      /\ op'[p].multiple = op[p].multiple /\ op'[p].failed = failed
      /\ \A q \in Callers : q # p => op'[q] = op[q]
    <2>1. op' = [op EXCEPT ![p] = [op[p] EXCEPT !.failed = failed]]
        BY DEF SettleInner
    <2>2. PICK o : o = [op[p] EXCEPT !.failed = failed]
        OBVIOUS
    <2>3. o \in Ops /\ o.tag = op[p].tag /\ o.multiple = op[p].multiple /\ o.failed = failed
        BY <1>2, <2>2 DEF Ops
    <2>4. op' = [op EXCEPT ![p] = o]
        BY <2>1, <2>2
    <2>5. QED
        BY <1>2, <2>3, <2>4
<1>5. Covered(p)' = Covered(p)
    BY <1>4 DEF Covered, Covers
<1>6. channel' = channel \ taken /\ channel' \in SUBSET Tags
    BY <1>1, <1>2 DEF SettleInner
<1>7. /\ toEnd' \in [Callers -> SUBSET Tags] /\ toEnd'[p] = taken
      /\ \A q \in Callers : q # p => toEnd'[q] = toEnd[q]
    BY <1>1, <1>2, <1>3 DEF SettleInner, TypeOK
<1>8. /\ pc' = [pc EXCEPT ![p] = "endInner"] /\ pc'[p] = "endInner"
      /\ \A q \in Callers : q # p => pc'[q] = pc[q]
    BY DEF SettleInner, TypeOK
<1>9. /\ refused \subseteq refused' /\ refused' \in SUBSET Tags
      /\ failed => Covered(p) \subseteq refused'
    BY DEF SettleInner, TypeOK, Covered, Covers
<1>10. UNCHANGED <<next, origin, inbox, inOpen, wpc, wtag, wleft, local, held, started, ends,
                   onces, errs, calls, covered, returned>>
    BY DEF SettleInner, wrapVars, spanVars
<1>11. TypeOK'
    BY <1>4, <1>6, <1>7, <1>8, <1>9, <1>10 DEF TypeOK, Ops
<1>12. TagInv' /\ InboxInv' /\ WorkInv' /\ EndedForAReason'
    BY <1>9, <1>10 DEF TagInv, InboxInv, WorkInv, Working, Registering, EndedForAReason,
       EndedAtMostOnce
<1>13. MapInv' /\ ReturnInv'
    <2>1. channel' \subseteq channel /\ \A q \in Callers : toEnd'[q] \subseteq channel \cup toEnd[q]
        BY <1>3, <1>6, <1>7
    <2>2. QED
        BY <1>10, <2>1 DEF MapInv, ReturnInv
<1>14. GetInv'
    BY <1>3, <1>4, <1>6, <1>7, <1>8, <1>10 DEF GetInv
<1>15. CallInv'
    <2>1. ASSUME NEW q \in Callers, q # p
          PROVE  /\ pc'[q] \in {"idle", "getAdd", "settleInner"} => toEnd'[q] = {}
                 /\ toEnd'[q] \subseteq Covered(q)'
                 /\ pc'[q] = "settleInner" \/ Ending(q)'
                       => op'[q].tag \in held /\ Covered(q)' \subseteq covered
                 /\ Ending(q)' => /\ op'[q].failed => Covered(q)' \subseteq refused'
                                  /\ op'[q].tag \notin channel'
                 /\ pc'[q] \in {"endLocal", "endChannel"} =>
                       \A c \in Consumers : op'[q].tag \notin local[c]
        BY <1>4, <1>6, <1>7, <1>8, <1>9, <2>1 DEF CallInv, Ending, Covered, Covers
    <2>2. /\ toEnd'[p] \subseteq Covered(p)' /\ Covered(p)' \subseteq covered
          /\ op'[p].tag \in held /\ op'[p].tag \notin channel'
          /\ op'[p].failed => Covered(p)' \subseteq refused'
        BY <1>2, <1>3, <1>4, <1>5, <1>6, <1>7, <1>9
    <2>3. QED
        BY <1>8, <1>10, <2>1, <2>2 DEF CallInv, Ending
<1>16. \A u \in Tags : InHand(u)' => InHand(u)
    BY <1>3, <1>6, <1>7, <1>10 DEF InHand, BeingEnded, Registering
<1>17. EndInv'
    BY <1>10, <1>16 DEF EndInv
<1>18. OpenSpanIsReachable'
    <2>1. \A u \in channel : u \in channel' \/ BeingEnded(u)'
        BY <1>6, <1>7 DEF BeingEnded
    <2>2. \A u : BeingEnded(u) => BeingEnded(u)'
        BY <1>2, <1>7, <1>10 DEF BeingEnded
    <2>3. \A u : (\E q \in Callers : op[q].tag = u /\ pc[q] = "getAdd")
                    => \E q \in Callers : op'[q].tag = u /\ pc'[q] = "getAdd"
        BY <1>2, <1>4, <1>8
    <2>4. QED
        BY <1>10, <2>1, <2>2, <2>3 DEF OpenSpanIsReachable
<1>19. QED
    BY <1>11, <1>12, <1>13, <1>14, <1>15, <1>17, <1>18

LEMMA SettleLocalStep ==
    ASSUME IInv, NEW p \in Callers, SettleLocal(p) PROVE IInv'
<1> USE DEF IInv, StructInv
<1>1. /\ pc[p] = "endInner" /\ toEnd[p] = {} /\ op[p] \in Ops
      /\ op[p].tag \in held /\ op[p].tag \in Tags /\ op[p].tag \in started
      /\ op[p].tag \notin channel /\ Covered(p) \subseteq covered
      /\ op[p].failed => Covered(p) \subseteq refused
    BY DEF SettleLocal, TypeOK, Ops, CallInv, Ending, MapInv
<1>2. /\ pc' = [pc EXCEPT ![p] = "endLocal"] /\ pc'[p] = "endLocal"
      /\ \A q \in Callers : q # p => pc'[q] = pc[q]
    BY DEF SettleLocal, TypeOK
<1>3. UNCHANGED <<next, origin, inbox, inOpen, wpc, wtag, wleft, channel, held, started, ends,
                  onces, errs, op, calls, covered, refused, returned>>
    BY DEF SettleLocal, wrapVars, spanVars, historyVars
<1>4. /\ local' \in [Consumers -> SUBSET Tags] /\ toEnd' \in [Callers -> SUBSET Tags]
      /\ \A d \in Consumers : /\ local'[d] \subseteq local[d] /\ op[p].tag \notin local'[d]
                              /\ \A u \in local[d] : u \in local'[d] \/ u \in toEnd'[p]
      /\ toEnd'[p] \subseteq Covered(p)
      /\ \A u \in toEnd'[p] : \E d \in Consumers : u \in local[d]
      /\ \A q \in Callers : q # p => toEnd'[q] = toEnd[q]
    <2>1. CASE origin[op[p].tag] \in Consumers
        <3>1. PICK c \in Consumers : c = origin[op[p].tag]
            BY <2>1
        <3>2. PICK taken : taken = Settled(local[c], op[p])
            OBVIOUS
        <3>3. local[c] \in SUBSET Tags
            BY DEF TypeOK
        <3>4. /\ taken \subseteq local[c] /\ taken \subseteq Covered(p)
              /\ op[p].tag \notin local[c] \ taken
            BY <1>1, <3>2, <3>3, SettleTakes DEF Covered
        <3>5. /\ local' = [local EXCEPT ![c] = local[c] \ taken]
              /\ toEnd' = [toEnd EXCEPT ![p] = taken]
            BY <2>1, <3>1, <3>2 DEF SettleLocal
        <3>6. /\ local' \in [Consumers -> SUBSET Tags] /\ local'[c] = local[c] \ taken
              /\ \A d \in Consumers : d # c => local'[d] = local[d]
            BY <3>3, <3>5 DEF TypeOK
        <3>7. /\ toEnd' \in [Callers -> SUBSET Tags] /\ toEnd'[p] = taken
              /\ \A q \in Callers : q # p => toEnd'[q] = toEnd[q]
            BY <3>3, <3>4, <3>5 DEF TypeOK
        <3>8. \A d \in Consumers : d # c => op[p].tag \notin local[d]
            BY <3>1 DEF MapInv
        <3>9. QED
            BY <3>4, <3>6, <3>7, <3>8
    <2>2. CASE origin[op[p].tag] \notin Consumers
        <3>1. local' = local /\ toEnd' = toEnd
            BY <2>2 DEF SettleLocal
        <3>2. \A d \in Consumers : op[p].tag \notin local[d]
            BY <2>2 DEF MapInv
        <3>3. QED
            BY <1>1, <3>1, <3>2 DEF TypeOK
    <2>3. QED
        BY <2>1, <2>2
<1>5. TypeOK'
    BY <1>2, <1>3, <1>4 DEF TypeOK
<1>6. TagInv' /\ InboxInv' /\ WorkInv' /\ EndedForAReason'
    BY <1>3 DEF TagInv, InboxInv, WorkInv, Working, Registering, EndedForAReason,
       EndedAtMostOnce
<1>7. MapInv'
    <2>1. \A d \in Consumers : \A u \in local'[d] \cup wleft[d] : u \in local[d] \cup wleft[d]
        BY <1>4
    <2>2. toEnd'[p] \subseteq started
        BY <1>4 DEF MapInv
    <2>3. \A q \in Callers : toEnd'[q] \subseteq started
        BY <1>4, <2>2 DEF MapInv
    <2>4. QED
        BY <1>3, <2>1, <2>3 DEF MapInv
<1>8. GetInv'
    <2>1. ASSUME NEW q \in Callers, pc[q] = "getAdd" PROVE op[q].tag \notin toEnd'[p]
        <3>1. origin[op[q].tag] = Get
            BY <2>1 DEF GetInv
        <3>2. \A u \in toEnd'[p] : origin[u] \in Consumers
            BY <1>4 DEF MapInv
        <3>3. QED
            BY <3>1, <3>2, AMQPAssumption
    <2>2. \A q \in Callers : pc'[q] = "getAdd" <=> pc[q] = "getAdd"
        BY <1>1, <1>2
    <2>3. QED
        BY <1>3, <1>4, <2>1, <2>2 DEF GetInv
<1>9. CallInv'
    <2>1. ASSUME NEW q \in Callers, q # p
          PROVE  /\ pc'[q] \in {"idle", "getAdd", "settleInner"} => toEnd'[q] = {}
                 /\ toEnd'[q] \subseteq Covered(q)
                 /\ pc'[q] = "settleInner" \/ Ending(q)'
                       => op[q].tag \in held /\ Covered(q) \subseteq covered
                 /\ Ending(q)' => /\ op[q].failed => Covered(q) \subseteq refused
                                  /\ op[q].tag \notin channel
                 /\ pc'[q] \in {"endLocal", "endChannel"} =>
                       \A c \in Consumers : op[q].tag \notin local'[c]
        BY <1>2, <1>4, <2>1 DEF CallInv, Ending
    <2>2. QED
        BY <1>1, <1>2, <1>3, <1>4, <2>1 DEF CallInv, Ending, Covered, Covers
<1>10. \A u \in Tags : InHand(u)' => InHand(u)
    <2>1. ASSUME NEW u \in Tags, BeingEnded(u)'
          PROVE  BeingEnded(u) \/ \E d \in Consumers : u \in local[d]
        BY <1>3, <1>4, <2>1 DEF BeingEnded
    <2>2. QED
        BY <1>3, <1>4, <2>1 DEF InHand, Registering
<1>11. EndInv'
    BY <1>3, <1>10 DEF EndInv
<1>12. ReturnInv'
    BY <1>3, <1>4 DEF ReturnInv
<1>13. OpenSpanIsReachable'
    <2>1. \A u : BeingEnded(u) => BeingEnded(u)'
        BY <1>1, <1>3, <1>4 DEF BeingEnded
    <2>2. \A q \in Callers : pc[q] = "getAdd" => pc'[q] = "getAdd"
        BY <1>1, <1>2
    <2>3. QED
        BY <1>3, <2>1, <2>2 DEF OpenSpanIsReachable
<1>14. QED
    BY <1>5, <1>6, <1>7, <1>8, <1>9, <1>11, <1>12, <1>13

LEMMA SettleChannelStep ==
    ASSUME IInv, NEW p \in Callers, SettleChannel(p) PROVE IInv'
<1> USE DEF IInv, StructInv
<1>1. PICK taken : taken = Settled(channel, op[p])
    OBVIOUS
<1>2. /\ pc[p] = "endLocal" /\ op[p] \in Ops /\ channel \in SUBSET Tags /\ toEnd[p] = {}
    BY DEF SettleChannel, TypeOK, Ops
<1>3. taken \subseteq channel /\ taken \subseteq Covered(p)
    BY <1>1, <1>2, SettleTakes DEF Covered
<1>4. channel' = channel \ taken /\ channel' \in SUBSET Tags
    BY <1>1, <1>2 DEF SettleChannel
<1>5. /\ toEnd' \in [Callers -> SUBSET Tags] /\ toEnd'[p] = taken
      /\ \A q \in Callers : q # p => toEnd'[q] = toEnd[q]
    BY <1>1, <1>2, <1>3 DEF SettleChannel, TypeOK
<1>6. /\ pc' = [pc EXCEPT ![p] = "endChannel"] /\ pc'[p] = "endChannel"
      /\ \A q \in Callers : q # p => pc'[q] = pc[q]
    BY DEF SettleChannel, TypeOK
<1>7. UNCHANGED <<next, origin, inbox, inOpen, wpc, wtag, wleft, local, held, started, ends,
                  onces, errs, op, calls, covered, refused, returned>>
    BY DEF SettleChannel, wrapVars, spanVars, historyVars
<1>8. TypeOK'
    BY <1>4, <1>5, <1>6, <1>7 DEF TypeOK
<1>9. TagInv' /\ InboxInv' /\ WorkInv' /\ EndedForAReason'
    BY <1>7 DEF TagInv, InboxInv, WorkInv, Working, Registering, EndedForAReason,
       EndedAtMostOnce
<1>10. MapInv' /\ ReturnInv'
    <2>1. channel' \subseteq channel /\ \A q \in Callers : toEnd'[q] \subseteq channel \cup toEnd[q]
        BY <1>3, <1>4, <1>5
    <2>2. QED
        BY <1>7, <2>1 DEF MapInv, ReturnInv
<1>11. GetInv'
    BY <1>2, <1>3, <1>4, <1>5, <1>6, <1>7 DEF GetInv
<1>12. CallInv'
    <2>1. channel' \subseteq channel
        BY <1>4
    <2>2. ASSUME NEW q \in Callers
          PROVE  /\ pc'[q] \in {"idle", "getAdd", "settleInner"} => toEnd'[q] = {}
                 /\ toEnd'[q] \subseteq Covered(q)
                 /\ pc'[q] = "settleInner" \/ Ending(q)'
                       => op[q].tag \in held /\ Covered(q) \subseteq covered
                 /\ Ending(q)' => /\ op[q].failed => Covered(q) \subseteq refused
                                  /\ op[q].tag \notin channel'
                 /\ pc'[q] \in {"endLocal", "endChannel"} =>
                       \A c \in Consumers : op[q].tag \notin local[c]
        <3>1. CASE q = p
            BY <1>2, <1>3, <1>5, <1>6, <2>1, <3>1 DEF CallInv, Ending
        <3>2. CASE q # p
            BY <1>5, <1>6, <2>1, <3>2 DEF CallInv, Ending
        <3>3. QED
            BY <3>1, <3>2
    <2>3. QED
        BY <1>7, <2>2 DEF CallInv, Ending, Covered, Covers
<1>13. \A u \in Tags : InHand(u)' => InHand(u)
    BY <1>3, <1>4, <1>5, <1>7 DEF InHand, BeingEnded, Registering
<1>14. EndInv'
    BY <1>7, <1>13 DEF EndInv
<1>15. OpenSpanIsReachable'
    <2>1. \A u \in channel : u \in channel' \/ BeingEnded(u)'
        BY <1>4, <1>5 DEF BeingEnded
    <2>2. \A u : BeingEnded(u) => BeingEnded(u)'
        BY <1>2, <1>5, <1>7 DEF BeingEnded
    <2>3. \A q \in Callers : pc[q] = "getAdd" => pc'[q] = "getAdd"
        BY <1>2, <1>6
    <2>4. QED
        BY <1>7, <2>1, <2>2, <2>3 DEF OpenSpanIsReachable
<1>16. QED
    BY <1>8, <1>9, <1>10, <1>11, <1>12, <1>14, <1>15

LEMMA EndSettledStep ==
    ASSUME IInv, NEW p \in Callers, EndSettled(p) PROVE IInv'
<1> USE DEF IInv, StructInv
<1>1. PICK t \in toEnd[p] : End(t, op[p].failed) /\ toEnd' = [toEnd EXCEPT ![p] = toEnd[p] \ {t}]
    BY DEF EndSettled
<1>2. /\ t \in Tags /\ t \in started /\ InHand(t) /\ op[p].failed \in BOOLEAN /\ Ending(p)
      /\ t \in covered /\ (op[p].failed => t \in refused)
    <2>1. Ending(p)
        BY DEF EndSettled, Ending
    <2>2. t \in Covered(p) /\ Covered(p) \subseteq covered
          /\ (op[p].failed => Covered(p) \subseteq refused)
        BY <2>1 DEF CallInv
    <2>3. QED
        BY <2>1, <2>2 DEF TypeOK, MapInv, InHand, BeingEnded
<1>3. /\ onces' = onces \cup {t} /\ ends' \in [Tags -> Nat] /\ ends'[t] = 1
      /\ \A u \in Tags : u # t => ends'[u] = ends[u]
      /\ errs' \subseteq errs \cup {t} /\ (~op[p].failed => errs' = errs)
      /\ started' = started
    BY <1>1, <1>2, EndDoes
<1>4. /\ toEnd' \in [Callers -> SUBSET Tags] /\ toEnd'[p] = toEnd[p] \ {t}
      /\ \A q \in Callers : q # p => toEnd'[q] = toEnd[q]
    BY <1>1 DEF TypeOK
<1>5. UNCHANGED <<next, origin, inbox, inOpen, wpc, wtag, wleft, local, channel, held, pc, op,
                  calls, covered, refused, returned>>
    BY DEF EndSettled, wrapVars, mapVars, historyVars
<1>6. TypeOK'
    <2>1. onces' \in SUBSET Tags /\ errs' \in SUBSET Tags
        BY <1>2, <1>3 DEF TypeOK
    <2>2. QED
        BY <1>3, <1>4, <1>5, <2>1 DEF TypeOK
<1>7. TagInv' /\ InboxInv' /\ WorkInv' /\ ReturnInv'
    BY <1>3, <1>5 DEF TagInv, InboxInv, WorkInv, Working, Registering, ReturnInv
<1>8. \A q \in Callers : toEnd'[q] \subseteq toEnd[q]
    BY <1>4
<1>9. MapInv' /\ CallInv'
    BY <1>3, <1>5, <1>8 DEF MapInv, CallInv, Ending, Covered, Covers
<1>10. GetInv'
    <2>1. ASSUME NEW q \in Callers, pc[q] = "getAdd" PROVE ends'[op[q].tag] = 0
        <3>1. op[q].tag \in Tags /\ op[q].tag # t /\ ends[op[q].tag] = 0
            BY <2>1 DEF GetInv, TypeOK
        <3>2. QED
            BY <1>3, <3>1
    <2>2. QED
        BY <1>3, <1>5, <1>8, <2>1 DEF GetInv
<1>11. EndInv'
    <2>1. \A u \in Tags : InHand(u)' => InHand(u)
        BY <1>5, <1>8 DEF InHand, BeingEnded, Registering
    <2>2. QED
        BY <1>2, <1>3, <2>1, EndKeepsEndInv
<1>12. OpenSpanIsReachable'
    <2>1. ASSUME NEW u \in started, ends'[u] = 0
          PROVE  \/ u \in channel
                 \/ BeingEnded(u)'
                 \/ \E d \in Consumers : wtag[d] = u /\ wpc[d] \in {"addLocal", "addChannel"}
                 \/ \E q \in Callers : op[q].tag = u /\ pc[q] = "getAdd"
        <3>1. u \in Tags /\ u # t
            BY <1>3, <2>1 DEF TypeOK
        <3>2. ends[u] = 0
            BY <1>3, <2>1, <3>1
        <3>3. BeingEnded(u) => BeingEnded(u)'
            BY <1>4, <1>5, <3>1 DEF BeingEnded
        <3>4. QED
            BY <3>2, <3>3 DEF OpenSpanIsReachable
    <2>2. QED
        BY <1>3, <1>5, <2>1 DEF OpenSpanIsReachable
<1>13. EndedForAReason'
    <2>1. ASSUME NEW u \in started, ends'[u] > 0
          PROVE  \/ u \in covered
                 \/ origin[u] \in Consumers /\ (origin[u] \in AutoAck \/ ~inOpen[origin[u]])
                 \/ origin[u] = Get /\ u \notin held
        <3>1. CASE u = t
            BY <1>2, <3>1
        <3>2. CASE u # t
            <4>1. ends[u] > 0
                BY <1>3, <2>1, <3>2 DEF TypeOK
            <4>2. QED
                BY <4>1 DEF EndedForAReason
        <3>3. QED
            BY <3>1, <3>2
    <2>2. \A u \in Tags : ends'[u] <= 1
        <3>1. \A u \in Tags : ends'[u] \in {0, 1}
            BY <1>11 DEF EndInv
        <3>2. QED
            BY <3>1
    <2>3. errs' \subseteq refused
        BY <1>2, <1>3 DEF EndedForAReason
    <2>4. QED
        BY <1>3, <1>5, <2>1, <2>2, <2>3 DEF EndedForAReason, EndedAtMostOnce
<1>14. QED
    BY <1>6, <1>7, <1>9, <1>10, <1>11, <1>12, <1>13

-----------------------------------------------------------------------------
(* The theorems.                                                            *)

\* Every step of the channel keeps the invariant.
LEMMA NextInv == IInv /\ [Next]_vars => IInv'
<1> SUFFICES ASSUME IInv, [Next]_vars PROVE IInv'
    OBVIOUS
<1>1. ASSUME NEW c \in Consumers, Deliver(c) \/ CloseDeliveries(c) PROVE IInv'
    BY <1>1, DeliverStep, CloseDeliveriesStep
<1>2. ASSUME NEW c \in Consumers, WrapperStep(c) PROVE IInv'
    BY <1>2, WrapperReceiveStep, WrapperAddLocalStep, WrapperAddChannelStep, WrapperSendStep,
       WrapperEndAllStep, WrapperEndOneStep, WrapperCloseStep DEF WrapperStep
<1>3. ASSUME NEW p \in Callers, CallerStep(p) PROVE IInv'
    BY <1>3, GetAddStep, SettleInnerStep, EndSettledStep, ChannelAckReturnStep, SettleLocalStep,
       SettleChannelStep, DeliveryAckReturnStep DEF CallerStep
<1>4. ASSUME NEW p \in Callers, CallerBegins(p) PROVE IInv'
    BY <1>4, GetAutoAckStep, GetStartStep, DeliveryAckStep, ChannelAckStep DEF CallerBegins
<1>5. CASE UNCHANGED vars
    <2>1. UNCHANGED <<next, origin, inbox, inOpen, wpc, wtag, wleft, local, channel, held, started,
                      ends, onces, errs, pc, op, toEnd, calls, covered, refused, returned>>
        BY <1>5 DEF vars, wrapVars, mapVars, spanVars, callVars, historyVars
    <2>2. StructInv'
        BY <2>1 DEF IInv, StructInv, TypeOK, TagInv, InboxInv, WorkInv, Working, Registering,
           MapInv, GetInv, CallInv, Ending, Covered, Covers
    <2>3. EndInv' /\ ReturnInv'
        BY <2>1 DEF IInv, EndInv, InHand, BeingEnded, Registering, ReturnInv
    <2>4. OpenSpanIsReachable' /\ EndedForAReason'
        BY <2>1 DEF IInv, OpenSpanIsReachable, BeingEnded, EndedForAReason, EndedAtMostOnce
    <2>5. QED
        BY <2>2, <2>3, <2>4 DEF IInv
<1>6. QED
    BY <1>1, <1>2, <1>3, <1>4, <1>5 DEF Next

\* The invariant holds in every state of the channel.
LEMMA Invariance == Spec => []IInv
BY InitInv, NextInv, PTL DEF Spec

\* otelcAMQPStartDeliverySpan, Settle and EndAll: a span nobody has ended is in a map
\* where an acknowledgement finds it, in the hands of the goroutine that registers it,
\* or taken out of its map by one that is about to end it.
THEOREM OpenSpansAreReachable == Spec => []OpenSpanIsReachable
BY Invariance, PTL DEF IInv

\* otelcAMQPAcknowledger's End and its sync.Once: however acknowledgements, the
\* channel's own calls and the shutdown of a consumer race for a delivery, its span is
\* ended at most once, for a reason, and reports an error only if a call on it failed.
THEOREM EndsHaveReasons == Spec => []EndedForAReason
BY Invariance, PTL DEF IInv

\* What the invariant says of a delivery whose own Ack, Nack or Reject has returned.
LEMMA ReturnedIsSettled == IInv => AckedIsSettled
<1> SUFFICES ASSUME IInv, NEW t \in returned
             PROVE  /\ ends[t] = 1 \/ BeingEnded(t)
                    /\ t \notin channel
                    /\ \A c \in Consumers : t \notin local[c]
    BY DEF AckedIsSettled
<1>1. /\ t \in held /\ t \in started /\ t \in Tags
      /\ t \notin channel /\ \A c \in Consumers : t \notin local[c]
    BY DEF IInv, StructInv, TypeOK, ReturnInv, MapInv
<1>2. \A c \in Consumers : wtag[c] = t => wpc[c] \notin {"addLocal", "addChannel"}
    BY <1>1 DEF IInv, StructInv, WorkInv, Working, Registering
<1>3. \A p \in Callers : op[p].tag = t => pc[p] # "getAdd"
    BY <1>1 DEF IInv, StructInv, GetInv
<1>4. ends[t] = 0 => BeingEnded(t)
    BY <1>1, <1>2, <1>3 DEF IInv, OpenSpanIsReachable
<1>5. ends[t] \in {0, 1}
    BY <1>1 DEF IInv, EndInv
<1>6. QED
    BY <1>1, <1>4, <1>5

\* finish, behind d.Ack, d.Nack and d.Reject: when the call has returned, the span of
\* its delivery is ended or another goroutine is about to end it, and neither map has
\* kept an entry of it, whatever else was settled at the same time.
THEOREM AcksSettle == Spec => []AckedIsSettled
BY Invariance, ReturnedIsSettled, PTL
=============================================================================
