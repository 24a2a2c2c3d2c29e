----------------------------- MODULE AMQPPublish -----------------------------
(***************************************************************************)
(* Producer spans on one AMQP channel (otelc/plugins/amqp/amqp.go).         *)
(* PublishWithContext* leaves the caller's context in a map keyed by the     *)
(* channel; the PublishWithDeferredConfirm it ends up in takes it out and     *)
(* starts the span under it, or under the goroutine's own GLS span.           *)
(***************************************************************************)
EXTENDS Integers, FiniteSets

CONSTANTS Publishers,   \* goroutines that publish on the channel
          MaxPublishes, \* bound: publishes in all
          None          \* no context, no span

\* A span is named by the goroutine whose call carries it and by how.
CtxSpan(p) == [owner |-> p, from |-> "context"]
GlsSpan(p) == [owner |-> p, from |-> "gls"]
SpanNames == [owner : Publishers, from : {"context", "gls"}]

ASSUME PublishAssumption ==
    /\ MaxPublishes \in Nat
    /\ None \notin SpanNames
    /\ \A c \in SpanNames \cup {None} : None # [span |-> c]

VARIABLES
    pc,         \* where each publisher is
    ctx,        \* the context of its call: None, or the span it carries
    hasGls,     \* publishers whose goroutine has a live GLS span
    stash,      \* otelcAMQPPublishParents' entry for the channel
    parent,     \* the parent of the producer span
    published,  \* publishes begun so far
    overlapped  \* history: another publish was under way before the hook ran

vars == <<pc, ctx, hasGls, stash, parent, published, overlapped>>

\* Publishers between their call and the hook that picks the parent.
Entering == {p \in Publishers : pc[p] = "entering"}

Init ==
    /\ pc = [p \in Publishers |-> "idle"]
    /\ ctx = [p \in Publishers |-> None]
    /\ hasGls \in SUBSET Publishers
    /\ stash = None
    /\ parent = [p \in Publishers |-> None]
    /\ published = 0
    /\ overlapped = [p \in Publishers |-> FALSE]

\* A publisher begins a call while the ones in `Entering` are before the hook.
Begin(p) ==
    /\ pc[p] = "idle"
    /\ published < MaxPublishes
    /\ published' = published + 1
    /\ pc' = [pc EXCEPT ![p] = "entering"]
    /\ overlapped' = [q \in Publishers |->
                         IF q = p THEN Entering # {}
                         ELSE overlapped[q] \/ q \in Entering]

\* PublishWithContext or PublishWithDeferredConfirmWithContext: the context,
\* which may or may not carry a span, is stored under the channel.
PublishWithContext(p, c) ==
    /\ Begin(p)
    /\ ctx' = [ctx EXCEPT ![p] = c]
    /\ stash' = [span |-> c]
    /\ UNCHANGED <<hasGls, parent>>

\* Publish or PublishWithDeferredConfirm: nothing is stored.
Publish(p) ==
    /\ Begin(p)
    /\ ctx' = [ctx EXCEPT ![p] = None]
    /\ UNCHANGED <<hasGls, stash, parent>>

\* The span a publisher gets without a context.
Fallback(p) == IF p \in hasGls THEN GlsSpan(p) ELSE None

\* Mutant: Load instead of LoadAndDelete.
ParentContextKeeps(p) ==
    /\ pc[p] = "entering"
    /\ parent' = [parent EXCEPT ![p] =
                     IF stash # None /\ stash.span # None THEN stash.span
                     ELSE Fallback(p)]
    /\ pc' = [pc EXCEPT ![p] = "sending"]
    /\ UNCHANGED <<ctx, hasGls, stash, published, overlapped>>

\* The hook of PublishWithDeferredConfirm: otelcAMQPParentContext takes the
\* stored context out; one without a span falls back to the GLS span.
ParentContext(p) ==
    /\ pc[p] = "entering"
    /\ parent' = [parent EXCEPT ![p] =
                     IF stash # None /\ stash.span # None THEN stash.span
                     ELSE Fallback(p)]
    /\ stash' = None
    /\ pc' = [pc EXCEPT ![p] = "sending"]
    /\ UNCHANGED <<ctx, hasGls, published, overlapped>>

\* The library sends the message, or fails to; the producer span ends.
Sent(p) ==
    /\ pc[p] = "sending"
    /\ pc' = [pc EXCEPT ![p] = "idle"]
    /\ ctx' = [ctx EXCEPT ![p] = None]
    /\ parent' = [parent EXCEPT ![p] = None]
    /\ overlapped' = [overlapped EXCEPT ![p] = FALSE]
    /\ UNCHANGED <<hasGls, stash, published>>

Next ==
    \E p \in Publishers :
        \/ \E c \in {CtxSpan(p), None} : PublishWithContext(p, c)
        \/ Publish(p)
        \/ ParentContext(p)
        \/ Sent(p)

Spec == Init /\ [][Next]_vars

-----------------------------------------------------------------------------
(* Properties.                                                              *)

\* The parent the application asked for.
Wanted(p) == IF ctx[p] # None THEN ctx[p] ELSE Fallback(p)

\* A producer span is a child of the span in its caller's own context, or else
\* of its caller's own GLS span, if the publish's way to the hook overlaps with
\* no other on the channel, whatever was published, concurrently or not, before.
OwnContextUnlessOverlapped ==
    \A p \in Publishers :
        pc[p] = "sending" /\ ~overlapped[p] => parent[p] = Wanted(p)

=============================================================================
