---------------------------- MODULE AMQPDelivery ----------------------------
(***************************************************************************)
(* Settlement of consumer spans on one AMQP channel                         *)
(* (otelc/plugins/amqp/amqp.go).  A wrapper goroutine per consumer starts a  *)
(* span for each delivery and registers it, under its delivery tag, in the   *)
(* consumer's own map of pending acknowledgements and in the channel's; an   *)
(* Ack, Nack or Reject, through the delivery or through the channel, on any  *)
(* goroutine, takes entries out of the maps and ends their spans.            *)
(***************************************************************************)
EXTENDS Integers, Sequences, FiniteSets

CONSTANTS Consumers,  \* Channel.Consume calls
          AutoAck,    \* those made with autoAck
          Callers,    \* application goroutines that settle deliveries
          MaxTag,     \* bound: deliveries on the channel
          MaxCalls,   \* bound: settling calls the application makes
          Get         \* stands for Channel.Get as the origin of a delivery

ASSUME AMQPAssumption ==
    /\ AutoAck \subseteq Consumers
    /\ Get \notin Consumers
    /\ MaxTag \in Nat
    /\ MaxCalls \in Nat

Tags == 1..MaxTag
Origins == Consumers \cup {Get}

VARIABLES
    next,      \* the last delivery tag the broker used
    origin,    \* where each delivery came from
    inbox,     \* the library's delivery channel of each consumer
    inOpen,    \* it has not been closed
    wpc,       \* where each wrapper goroutine is
    wtag,      \* the delivery it is working on
    wleft,     \* the entries EndAll took and has still to end
    local,     \* Acks of each consumer's otelcAMQPPendingAcks
    channel,   \* Acks of the channel's otelcAMQPPendingAcks
    held,      \* deliveries the application has received
    started,   \* deliveries whose span was started
    ends,      \* how often each span's End was called
    onces,     \* sync.Once of each acknowledger has fired
    errs,      \* spans that recorded an error
    pc,        \* where each caller is
    op,        \* the call it is making
    toEnd,     \* the entries its Settle took and has still to end
    calls,     \* settling calls made so far
    covered,   \* history: tags some settling call was about
    refused,   \* history: tags some failed settling call was about
    returned   \* history: deliveries whose own Ack, Nack or Reject has returned

mapVars == <<local, channel>>
spanVars == <<started, ends, onces, errs>>
wrapVars == <<inbox, inOpen, wpc, wtag, wleft>>
callVars == <<pc, op, toEnd>>
historyVars == <<covered, refused, returned>>
vars == <<next, origin, wrapVars, mapVars, held, spanVars, callVars, calls, historyVars>>

NoOp == [tag |-> 0, multiple |-> FALSE, viaDelivery |-> FALSE, failed |-> FALSE]

Init ==
    /\ next = 0
    /\ origin = [t \in Tags |-> Get]
    /\ inbox = [c \in Consumers |-> <<>>]
    /\ inOpen = [c \in Consumers |-> TRUE]
    /\ wpc = [c \in Consumers |-> "recv"]
    /\ wtag = [c \in Consumers |-> 0]
    /\ wleft = [c \in Consumers |-> {}]
    /\ local = [c \in Consumers |-> {}]
    /\ channel = {}
    /\ held = {}
    /\ started = {}
    /\ ends = [t \in Tags |-> 0]
    /\ onces = {}
    /\ errs = {}
    /\ pc = [p \in Callers |-> "idle"]
    /\ op = [p \in Callers |-> NoOp]
    /\ toEnd = [p \in Callers |-> {}]
    /\ calls = 0
    /\ covered = {}
    /\ refused = {}
    /\ returned = {}

-----------------------------------------------------------------------------
(* The library.                                                             *)

\* The broker sends a delivery to a consumer; the library queues it.
Deliver(c) ==
    /\ next < MaxTag
    /\ inOpen[c]
    /\ next' = next + 1
    /\ origin' = [origin EXCEPT ![next + 1] = c]
    /\ inbox' = [inbox EXCEPT ![c] = Append(@, next + 1)]
    /\ UNCHANGED <<inOpen, wpc, wtag, wleft, mapVars, held, spanVars, callVars,
                   calls, historyVars>>

\* The consumer is cancelled or the channel is shut down.
CloseDeliveries(c) ==
    /\ inOpen[c]
    /\ inOpen' = [inOpen EXCEPT ![c] = FALSE]
    /\ UNCHANGED <<next, origin, inbox, wpc, wtag, wleft, mapVars, held, spanVars,
                   callVars, calls, historyVars>>

-----------------------------------------------------------------------------
(* otelcAMQPWrapDeliveries and otelcAMQPStartDeliverySpan.                  *)

\* Mutant: End without its sync.Once.
EndUnguarded(t, failed) ==
    /\ onces' = onces \cup {t}
    /\ ends' = [ends EXCEPT ![t] = @ + 1]
    /\ errs' = IF failed THEN errs \cup {t} ELSE errs
    /\ UNCHANGED started

\* The acknowledger's End, guarded by its sync.Once, for the entry of tag t.
End(t, failed) ==
    /\ onces' = onces \cup {t}
    /\ ends' = [ends EXCEPT ![t] = IF t \in onces THEN @ ELSE @ + 1]
    /\ errs' = IF failed /\ t \notin onces THEN errs \cup {t} ELSE errs
    /\ UNCHANGED started

\* The wrapper receives a delivery and starts its span; an auto-ack span ends
\* at once and its delivery is passed on as it is.
WrapperReceive(c) ==
    /\ wpc[c] = "recv"
    /\ inbox[c] # <<>>
    /\ LET t == Head(inbox[c]) IN
       /\ wtag' = [wtag EXCEPT ![c] = t]
       /\ started' = started \cup {t}
       /\ ends' = [ends EXCEPT ![t] = IF c \in AutoAck THEN @ + 1 ELSE @]
    /\ inbox' = [inbox EXCEPT ![c] = Tail(@)]
    /\ wpc' = [wpc EXCEPT ![c] = IF c \in AutoAck THEN "send" ELSE "addLocal"]
    /\ UNCHANGED <<next, origin, inOpen, wleft, mapVars, held, onces, errs, callVars,
                   calls, historyVars>>

\* local.Add
WrapperAddLocal(c) ==
    /\ wpc[c] = "addLocal"
    /\ local' = [local EXCEPT ![c] = @ \cup {wtag[c]}]
    /\ wpc' = [wpc EXCEPT ![c] = "addChannel"]
    /\ UNCHANGED <<next, origin, inbox, inOpen, wtag, wleft, channel, held, spanVars,
                   callVars, calls, historyVars>>

\* Mutant: the acknowledger is not registered with the channel.
WrapperAddChannelMissing(c) ==
    /\ wpc[c] = "addChannel"
    /\ wpc' = [wpc EXCEPT ![c] = "send"]
    /\ UNCHANGED <<next, origin, inbox, inOpen, wtag, wleft, mapVars, held, spanVars,
                   callVars, calls, historyVars>>

\* s.channel.Add
WrapperAddChannel(c) ==
    /\ wpc[c] = "addChannel"
    /\ channel' = channel \cup {wtag[c]}
    /\ wpc' = [wpc EXCEPT ![c] = "send"]
    /\ UNCHANGED <<next, origin, inbox, inOpen, wtag, wleft, local, held, spanVars,
                   callVars, calls, historyVars>>

\* The application reads the unbuffered channel the wrapper writes to.
WrapperSend(c) ==
    /\ wpc[c] = "send"
    /\ held' = held \cup {wtag[c]}
    /\ wpc' = [wpc EXCEPT ![c] = "recv"]
    /\ UNCHANGED <<next, origin, inbox, inOpen, wtag, wleft, mapVars, spanVars,
                   callVars, calls, historyVars>>

\* Mutant: the deferred EndAll is gone.
WrapperEndAllMissing(c) ==
    /\ wpc[c] = "recv"
    /\ inbox[c] = <<>>
    /\ ~inOpen[c]
    /\ wpc' = [wpc EXCEPT ![c] = "closed"]
    /\ UNCHANGED <<next, origin, inbox, inOpen, wtag, wleft, mapVars, held, spanVars,
                   callVars, calls, historyVars>>

\* The input is closed and drained: EndAll takes what is left in the map.
WrapperEndAll(c) ==
    /\ wpc[c] = "recv"
    /\ inbox[c] = <<>>
    /\ ~inOpen[c]
    /\ wleft' = [wleft EXCEPT ![c] = local[c]]
    /\ local' = [local EXCEPT ![c] = {}]
    /\ wpc' = [wpc EXCEPT ![c] = "endAll"]
    /\ UNCHANGED <<next, origin, inbox, inOpen, wtag, channel, held, spanVars,
                   callVars, calls, historyVars>>

\* EndAll ends one entry, in the map's random order.
WrapperEndOne(c) ==
    /\ wpc[c] = "endAll"
    /\ \E t \in wleft[c] :
          /\ End(t, FALSE)
          /\ wleft' = [wleft EXCEPT ![c] = @ \ {t}]
    /\ UNCHANGED <<next, origin, inbox, inOpen, wpc, wtag, mapVars, held, callVars,
                   calls, historyVars>>

\* EndAll is done; the output channel is closed.
WrapperClose(c) ==
    /\ wpc[c] = "endAll"
    /\ wleft[c] = {}
    /\ wpc' = [wpc EXCEPT ![c] = "closed"]
    /\ UNCHANGED <<next, origin, inbox, inOpen, wtag, wleft, mapVars, held, spanVars,
                   callVars, calls, historyVars>>

-----------------------------------------------------------------------------
(* Calls made by the application.                                           *)

\* Channel.Get returns a message, which is registered with the channel only;
\* an auto-ack one has its span ended at once.
GetAutoAck(p) ==
    /\ pc[p] = "idle"
    /\ next < MaxTag
    /\ next' = next + 1
    /\ started' = started \cup {next + 1}
    /\ ends' = [ends EXCEPT ![next + 1] = @ + 1]
    /\ UNCHANGED <<origin, wrapVars, mapVars, held, onces, errs, callVars, calls,
                   historyVars>>

GetStart(p) ==
    /\ pc[p] = "idle"
    /\ next < MaxTag
    /\ next' = next + 1
    /\ started' = started \cup {next + 1}
    /\ op' = [op EXCEPT ![p] = [NoOp EXCEPT !.tag = next + 1]]
    /\ pc' = [pc EXCEPT ![p] = "getAdd"]
    /\ UNCHANGED <<origin, wrapVars, mapVars, held, ends, onces, errs, toEnd, calls,
                   historyVars>>

GetAdd(p) ==
    /\ pc[p] = "getAdd"
    /\ channel' = channel \cup {op[p].tag}
    /\ held' = held \cup {op[p].tag}
    /\ op' = [op EXCEPT ![p] = NoOp]
    /\ pc' = [pc EXCEPT ![p] = "idle"]
    /\ UNCHANGED <<next, origin, wrapVars, local, spanVars, toEnd, calls,
                   historyVars>>

\* The tags a call on tag t is about.
Covers(t, multiple) == {u \in Tags : IF multiple THEN u <= t ELSE u = t}

\* d.Ack, d.Nack or d.Reject: the settling acknowledger calls the channel.
DeliveryAck(p, t, multiple) ==
    /\ pc[p] = "idle"
    /\ calls < MaxCalls
    /\ calls' = calls + 1
    /\ t \in held
    /\ origin[t] \notin AutoAck
    /\ op' = [op EXCEPT ![p] = [NoOp EXCEPT !.tag = t, !.multiple = multiple,
                                            !.viaDelivery = TRUE]]
    /\ covered' = covered \cup Covers(t, multiple)
    /\ pc' = [pc EXCEPT ![p] = "settleInner"]
    /\ UNCHANGED <<next, origin, wrapVars, mapVars, held, spanVars, toEnd, refused,
                   returned>>

\* ch.Ack, ch.Nack or ch.Reject, called by the application itself.
ChannelAck(p, t, multiple) ==
    /\ pc[p] = "idle"
    /\ calls < MaxCalls
    /\ calls' = calls + 1
    /\ t \in held
    /\ op' = [op EXCEPT ![p] = [NoOp EXCEPT !.tag = t, !.multiple = multiple,
                                            !.viaDelivery = FALSE]]
    /\ covered' = covered \cup Covers(t, multiple)
    /\ pc' = [pc EXCEPT ![p] = "settleInner"]
    /\ UNCHANGED <<next, origin, wrapVars, mapVars, held, spanVars, toEnd, refused,
                   returned>>

\* The entries Settle takes out of a map.
Settled(acks, o) == {u \in acks : IF o.multiple THEN u <= o.tag ELSE u = o.tag}

\* The channel's own Ack, Nack or Reject succeeds or fails; the deferred Settle
\* of its hook runs either way.
SettleInner(p, failed) ==
    /\ pc[p] = "settleInner"
    /\ op' = [op EXCEPT ![p].failed = failed]
    /\ refused' = IF failed THEN refused \cup Covers(op[p].tag, op[p].multiple) ELSE refused
    /\ channel' = channel \ Settled(channel, op[p])
    /\ toEnd' = [toEnd EXCEPT ![p] = Settled(channel, op[p])]
    /\ pc' = [pc EXCEPT ![p] = "endInner"]
    /\ UNCHANGED <<next, origin, wrapVars, local, held, spanVars, calls, covered,
                   returned>>

\* One End of the entries the last Settle took.
EndSettled(p) ==
    /\ pc[p] \in {"endInner", "endLocal", "endChannel"}
    /\ \E t \in toEnd[p] :
          /\ End(t, op[p].failed)
          /\ toEnd' = [toEnd EXCEPT ![p] = @ \ {t}]
    /\ UNCHANGED <<next, origin, wrapVars, mapVars, held, pc, op, calls, historyVars>>

\* ch.Ack returns to the application.
ChannelAckReturn(p) ==
    /\ pc[p] = "endInner"
    /\ toEnd[p] = {}
    /\ ~op[p].viaDelivery
    /\ op' = [op EXCEPT ![p] = NoOp]
    /\ pc' = [pc EXCEPT ![p] = "idle"]
    /\ UNCHANGED <<next, origin, wrapVars, mapVars, held, spanVars, toEnd, calls,
                   historyVars>>

\* Mutant: finish settles the channel's map only.
SettleLocalMissing(p) ==
    /\ pc[p] = "endInner"
    /\ toEnd[p] = {}
    /\ op[p].viaDelivery
    /\ pc' = [pc EXCEPT ![p] = "endLocal"]
    /\ UNCHANGED <<next, origin, wrapVars, mapVars, held, spanVars, op, toEnd, calls,
                   historyVars>>

\* finish: a.local.Settle; a delivery from Get has no local map.
SettleLocal(p) ==
    LET c == origin[op[p].tag] IN
    /\ pc[p] = "endInner"
    /\ toEnd[p] = {}
    /\ op[p].viaDelivery
    /\ IF c \in Consumers
       THEN /\ local' = [local EXCEPT ![c] = @ \ Settled(@, op[p])]
            /\ toEnd' = [toEnd EXCEPT ![p] = Settled(local[c], op[p])]
       ELSE UNCHANGED <<local, toEnd>>
    /\ pc' = [pc EXCEPT ![p] = "endLocal"]
    /\ UNCHANGED <<next, origin, wrapVars, channel, held, spanVars, op, calls,
                   historyVars>>

\* finish: a.channel.Settle
SettleChannel(p) ==
    /\ pc[p] = "endLocal"
    /\ toEnd[p] = {}
    /\ channel' = channel \ Settled(channel, op[p])
    /\ toEnd' = [toEnd EXCEPT ![p] = Settled(channel, op[p])]
    /\ pc' = [pc EXCEPT ![p] = "endChannel"]
    /\ UNCHANGED <<next, origin, wrapVars, local, held, spanVars, op, calls,
                   historyVars>>

\* d.Ack returns to the application.
DeliveryAckReturn(p) ==
    /\ pc[p] = "endChannel"
    /\ toEnd[p] = {}
    /\ returned' = returned \cup {op[p].tag}
    /\ op' = [op EXCEPT ![p] = NoOp]
    /\ pc' = [pc EXCEPT ![p] = "idle"]
    /\ UNCHANGED <<next, origin, wrapVars, mapVars, held, spanVars, toEnd, calls,
                   covered, refused>>

-----------------------------------------------------------------------------
WrapperStep(c) ==
    \/ WrapperReceive(c)
    \/ WrapperAddLocal(c)
    \/ WrapperAddChannel(c)
    \/ WrapperSend(c)
    \/ WrapperEndAll(c)
    \/ WrapperEndOne(c)
    \/ WrapperClose(c)

\* A settling call, or a Get, once it has begun.
CallerStep(p) ==
    \/ GetAdd(p)
    \/ \E failed \in BOOLEAN : SettleInner(p, failed)
    \/ EndSettled(p)
    \/ ChannelAckReturn(p)
    \/ SettleLocal(p)
    \/ SettleChannel(p)
    \/ DeliveryAckReturn(p)

CallerBegins(p) ==
    \/ GetAutoAck(p)
    \/ GetStart(p)
    \/ \E t \in Tags, multiple \in BOOLEAN : \/ DeliveryAck(p, t, multiple)
                                             \/ ChannelAck(p, t, multiple)

Next ==
    \/ \E c \in Consumers : Deliver(c) \/ CloseDeliveries(c) \/ WrapperStep(c)
    \/ \E p \in Callers : CallerStep(p) \/ CallerBegins(p)

Spec == Init /\ [][Next]_vars

\* Goroutines are scheduled, and the application keeps reading its deliveries
\* until the channel it ranges over is closed, as the library demands.
FairSpec ==
    /\ Spec
    /\ \A c \in Consumers : WF_vars(WrapperStep(c))
    /\ \A p \in Callers : WF_vars(CallerStep(p))

-----------------------------------------------------------------------------
(* Properties.                                                              *)

TypeOK ==
    /\ next \in 0..MaxTag
    /\ origin \in [Tags -> Origins]
    /\ inbox \in [Consumers -> Seq(Tags)]
    /\ inOpen \in [Consumers -> BOOLEAN]
    /\ wpc \in [Consumers -> {"recv", "addLocal", "addChannel", "send", "endAll", "closed"}]
    /\ wtag \in [Consumers -> 0..MaxTag]
    /\ wleft \in [Consumers -> SUBSET Tags]
    /\ local \in [Consumers -> SUBSET Tags]
    /\ channel \in SUBSET Tags
    /\ held \in SUBSET Tags
    /\ started \in SUBSET Tags
    /\ ends \in [Tags -> Nat]
    /\ onces \in SUBSET Tags
    /\ errs \in SUBSET Tags
    /\ pc \in [Callers -> {"idle", "getAdd", "settleInner", "endInner", "endLocal",
                           "endChannel"}]
    /\ op \in [Callers -> [tag : 0..MaxTag, multiple : BOOLEAN, viaDelivery : BOOLEAN,
                           failed : BOOLEAN]]
    /\ calls \in 0..MaxCalls
    /\ toEnd \in [Callers -> SUBSET Tags]
    /\ covered \in SUBSET Tags
    /\ refused \in SUBSET Tags
    /\ returned \in SUBSET Tags

\* Somebody has taken the entry of tag t out of a map and will end its span.
BeingEnded(t) ==
    \/ \E p \in Callers : t \in toEnd[p]
    \/ \E c \in Consumers : t \in wleft[c]

\* A delivery's span is ended at most once, though it is in two maps and
\* acknowledgements and the consumer's shutdown race for it.
EndedAtMostOnce == \A t \in Tags : ends[t] <= 1

\* When d.Ack, d.Nack or d.Reject has returned, the span of d has been ended,
\* or another goroutine that took the entry first is about to end it; and no
\* map holds on to the delivery.
AckedIsSettled ==
    \A t \in returned :
        /\ ends[t] = 1 \/ BeingEnded(t)
        /\ t \notin channel
        /\ \A c \in Consumers : t \notin local[c]

\* An open span is never lost: it is being registered, is in a map where an
\* acknowledgement will find it, or is about to be ended.
OpenSpanIsReachable ==
    \A t \in started : ends[t] = 0 =>
        \/ t \in channel
        \/ BeingEnded(t)
        \/ \E c \in Consumers : wtag[c] = t /\ wpc[c] \in {"addLocal", "addChannel"}
        \/ \E p \in Callers : op[p].tag = t /\ pc[p] = "getAdd"

\* A span that is ended was auto-acknowledged, or a settling call was about
\* its tag, or its consumer was shut down, and it is ended once.  It records an
\* error only if a settling call about its tag failed.
EndedForAReason ==
    /\ EndedAtMostOnce
    /\ \A t \in started : ends[t] > 0 =>
          \/ t \in covered
          \/ origin[t] \in Consumers /\ (origin[t] \in AutoAck \/ ~inOpen[origin[t]])
          \/ origin[t] = Get /\ t \notin held
    /\ errs \subseteq refused

\* Once the library closes a consumer's deliveries, the wrapper drains them,
\* ends every span it started and closes its output.
ShutdownEndsSpans ==
    \A c \in Consumers :
        ~inOpen[c] ~> /\ wpc[c] = "closed"
                      /\ \A t \in started : origin[t] = c => ends[t] = 1

=============================================================================
