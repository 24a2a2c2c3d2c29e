-------------------------- MODULE SkyWalkingProofs --------------------------
(***************************************************************************)
(* Safety of the SkyWalking hooks on calls, streams, databases and           *)
(* connections and of the meters, for any number of goroutines, spans and    *)
(* calls.  The models share no state: SkyWalkingSpec has a behaviour of each *)
(* of them, and each has an inductive invariant of its own.  They do share   *)
(* the tracing context, whose operators come first.                          *)
(***************************************************************************)
EXTENDS MCSkyWalking, SWContext, SequenceLemmas, TLAPS

-----------------------------------------------------------------------------
(* The tracing context.                                                     *)

SpanKinds == {"local", "exit", "entry"}
AsyncStates == {"no", "prepared", "finished"}
Contexts == [span : Nat, snap : BOOLEAN]
Spans(N) == [kind : SpanKinds, name : N, parent : Contexts, depth : Nat, async : AsyncStates]

\* Two states of a span that differ in its depth alone.
SameSpan(r, s) ==
    r.kind = s.kind /\ r.name = s.name /\ r.parent = s.parent /\ r.async = s.async

\* Contexts of the goroutines G and a log of spans with names N.
Tracings(G, N) == [log : Seq(Spans(N)), act : [G -> Contexts]]

LEMMA TracingTypes ==
    ASSUME NEW G, NEW N, NEW t \in Tracings(G, N)
    PROVE  /\ t.log \in Seq(Spans(N)) /\ t.act \in [G -> Contexts]
           /\ Len(t.log) \in Nat /\ DOMAIN t.log = 1..Len(t.log)
           /\ \A i \in 1..Len(t.log) : t.log[i] \in Spans(N)
           /\ \A g \in G : t.act[g] \in Contexts
           /\ t = [log |-> t.log, act |-> t.act]
           /\ NoContext \in Contexts /\ NoSpan \in Contexts
<1>1. t.log \in Seq(Spans(N)) /\ t.act \in [G -> Contexts] /\ t = [log |-> t.log, act |-> t.act]
    BY DEF Tracings
<1>2. NoContext \in Contexts /\ NoSpan \in Contexts
    BY DEF NoContext, NoSpan, Contexts
<1>3. QED
    BY <1>1, <1>2, LenProperties

LEMMA EmptyTyped ==
    ASSUME NEW G, NEW N, NEW t, t = Empty(G)
    PROVE  t \in Tracings(G, N) /\ t.log = <<>> /\ \A g \in G : t.act[g] = NoContext
<1>1. NoContext \in Contexts /\ t = [log |-> <<>>, act |-> [g \in G |-> NoContext]]
    BY DEF NoContext, Contexts, Empty
<1>2. QED
    BY <1>1 DEF Tracings

\* A span is made: the log grows by it, and it is the goroutine's context.
LEMMA CreateMakes ==
    ASSUME NEW G, NEW N, NEW t \in Tracings(G, N), NEW g \in G, NEW kind \in SpanKinds,
           NEW name \in N, ~Reuses(t, g, kind), NEW u, u = Create(t, g, kind, name)
    PROVE  /\ u \in Tracings(G, N) /\ Len(u.log) = Len(t.log) + 1
           /\ \A i \in 1..Len(t.log) : u.log[i] = t.log[i]
           /\ u.log[Len(u.log)] = [kind |-> kind, name |-> name,
                                   parent |-> IF t.act[g] = NoContext THEN NoSpan ELSE t.act[g],
                                   depth |-> 1, async |-> "no"]
           /\ u.act[g] = [span |-> Len(u.log), snap |-> FALSE]
           /\ \A h \in G : h # g => u.act[h] = t.act[h]
<1>1. PICK r : r = [kind |-> kind, name |-> name,
                    parent |-> IF t.act[g] = NoContext THEN NoSpan ELSE t.act[g],
                    depth |-> 1, async |-> "no"]
    OBVIOUS
<1>2. r \in Spans(N)
    BY <1>1, TracingTypes DEF Spans, AsyncStates
<1>3. PICK c : c = [span |-> Len(t.log) + 1, snap |-> FALSE]
    OBVIOUS
<1>4. c \in Contexts
    BY <1>3, TracingTypes DEF Contexts
<1>5. u = [log |-> Append(t.log, r), act |-> [t.act EXCEPT ![g] = c]]
    BY <1>1, <1>3 DEF Create
<1>6. /\ Append(t.log, r) \in Seq(Spans(N)) /\ Len(Append(t.log, r)) = Len(t.log) + 1
      /\ \A i \in 1..Len(t.log) : Append(t.log, r)[i] = t.log[i]
      /\ Append(t.log, r)[Len(t.log) + 1] = r
    BY <1>2, TracingTypes, AppendProperties
<1>7. /\ u.log = Append(t.log, r) /\ u.act \in [G -> Contexts] /\ u.act[g] = c
      /\ \A h \in G : h # g => u.act[h] = t.act[h]
    BY <1>4, <1>5, TracingTypes
<1>8. u \in Tracings(G, N)
    BY <1>5, <1>6, <1>7 DEF Tracings
<1>9. QED
    BY <1>1, <1>3, <1>6, <1>7, <1>8

\* A record of the log is replaced.
LEMMA LogUpdated ==
    ASSUME NEW G, NEW N, NEW t \in Tracings(G, N), NEW i \in 1..Len(t.log), NEW r \in Spans(N),
           NEW a \in [G -> Contexts], NEW u, u = [log |-> [t.log EXCEPT ![i] = r], act |-> a]
    PROVE  /\ u \in Tracings(G, N) /\ Len(u.log) = Len(t.log) /\ u.log[i] = r
           /\ \A j \in 1..Len(t.log) : j # i => u.log[j] = t.log[j]
           /\ u.act = a
<1>1. /\ [t.log EXCEPT ![i] = r] \in Seq(Spans(N))
      /\ Len([t.log EXCEPT ![i] = r]) = Len(t.log)
      /\ [t.log EXCEPT ![i] = r][i] = r
      /\ \A j \in 1..Len(t.log) : j # i => [t.log EXCEPT ![i] = r][j] = t.log[j]
    BY TracingTypes, ExceptSeq
<1>2. u.log = [t.log EXCEPT ![i] = r] /\ u.act = a
    OBVIOUS
<1>3. QED
    BY <1>1, <1>2 DEF Tracings

\* Or a span is shared: it has to be ended once more.
LEMMA CreateShares ==
    ASSUME NEW G, NEW N, NEW t \in Tracings(G, N), NEW g \in G, NEW kind \in SpanKinds, NEW name,
           Reuses(t, g, kind), NEW i \in 1..Len(t.log), i = t.act[g].span,
           NEW u, u = Create(t, g, kind, name)
    PROVE  /\ u \in Tracings(G, N) /\ Len(u.log) = Len(t.log) /\ u.act = t.act
           /\ \A j \in 1..Len(t.log) : j # i => u.log[j] = t.log[j]
           /\ SameSpan(u.log[i], t.log[i]) /\ u.log[i].depth = t.log[i].depth + 1
<1>1. PICK n : n = t.log[i].depth + 1
    OBVIOUS
<1>2. t.log[i] \in Spans(N) /\ t.log[i].depth \in Nat
    BY TracingTypes DEF Spans
<1>3. PICK r : r = [t.log[i] EXCEPT !.depth = n]
    OBVIOUS
<1>4. n \in Nat
    BY <1>1, <1>2, SMTT(30)
<1>5. r \in Spans(N)
    BY <1>2, <1>3, <1>4 DEF Spans
<1>6. u = [log |-> [t.log EXCEPT ![i] = r], act |-> t.act]
    <2>1. u = [t EXCEPT !.log[t.act[g].span].depth = @ + 1]
        BY DEF Create
    <2>2. u = [t EXCEPT !.log[i].depth = @ + 1]
        BY <2>1
    <2>3. t = [log |-> t.log, act |-> t.act] /\ i \in DOMAIN t.log
        BY TracingTypes
    <2>4. u = [log |-> [t.log EXCEPT ![i].depth = @ + 1], act |-> t.act]
        BY <2>2, <2>3
    <2>5. [t.log EXCEPT ![i].depth = @ + 1] = [t.log EXCEPT ![i] = r]
        BY <1>1, <1>3, <2>3
    <2>6. QED
        BY <2>4, <2>5
<1>7. t.act \in [G -> Contexts]
    BY TracingTypes
<1>8. /\ u \in Tracings(G, N) /\ Len(u.log) = Len(t.log) /\ u.log[i] = r
      /\ \A j \in 1..Len(t.log) : j # i => u.log[j] = t.log[j]
      /\ u.act = t.act
    BY <1>5, <1>6, <1>7, LogUpdated
<1>9. r.depth = n /\ SameSpan(r, t.log[i])
    BY <1>2, <1>3, <1>4 DEF Spans, SameSpan
<1>10. QED
    BY <1>1, <1>8, <1>9

\* A span ends, or one of the calls that share it does: with the last, the parent is the
\* context again, unless that was cleaned.
LEMMA EndSpanEnds ==
    ASSUME NEW G, NEW N, NEW t \in Tracings(G, N), NEW g \in G, NEW i \in 1..Len(t.log),
           NEW u, u = EndSpan(t, g, i)
    PROVE  /\ u \in Tracings(G, N) /\ Len(u.log) = Len(t.log)
           /\ \A j \in 1..Len(t.log) : j # i => u.log[j] = t.log[j]
           /\ SameSpan(u.log[i], t.log[i])
           /\ u.log[i].depth = IF t.log[i].depth > 1 THEN t.log[i].depth - 1 ELSE 0
           /\ u.act[g] = IF t.log[i].depth > 1 \/ t.act[g] = NoContext THEN t.act[g]
                         ELSE t.log[i].parent
           /\ \A h \in G : h # g => u.act[h] = t.act[h]
<1>1. PICK n : n = IF t.log[i].depth > 1 THEN t.log[i].depth - 1 ELSE 0
    OBVIOUS
<1>2. t.log[i].depth \in Nat /\ t.log[i].parent \in Contexts /\ t.log[i] \in Spans(N)
    BY TracingTypes DEF Spans
<1>3. PICK r : r = [t.log[i] EXCEPT !.depth = n]
    OBVIOUS
<1>4. n \in Nat
    BY <1>1, <1>2
<1>5. r \in Spans(N)
    BY <1>2, <1>3, <1>4 DEF Spans
<1>6. PICK c : c = IF t.log[i].depth > 1 \/ t.act[g] = NoContext THEN t.act[g]
                   ELSE t.log[i].parent
    OBVIOUS
<1>7. c \in Contexts
    BY <1>2, <1>6, TracingTypes
<1>8. u = [log |-> [t.log EXCEPT ![i] = r], act |-> [t.act EXCEPT ![g] = c]]
    <2>1. t = [log |-> t.log, act |-> t.act] /\ i \in DOMAIN t.log /\ g \in DOMAIN t.act
          /\ t.act \in [G -> Contexts]
        BY TracingTypes
    <2>2. CASE t.log[i].depth > 1
        <3>1. u = [t EXCEPT !.log[i].depth = @ - 1]
            BY <2>2 DEF EndSpan
        <3>2. u = [log |-> [t.log EXCEPT ![i].depth = @ - 1], act |-> t.act]
            BY <2>1, <3>1
        <3>3. [t.log EXCEPT ![i].depth = @ - 1] = [t.log EXCEPT ![i] = r]
            BY <1>1, <1>3, <2>1, <2>2
        <3>4. [t.act EXCEPT ![g] = c] = t.act
            BY <1>6, <2>1, <2>2
        <3>5. QED
            BY <3>2, <3>3, <3>4
    <2>3. CASE ~(t.log[i].depth > 1)
        <3>1. u = [t EXCEPT !.log[i].depth = 0,
                            !.act[g] = IF @ = NoContext THEN @ ELSE t.log[i].parent]
            BY <2>3 DEF EndSpan
        <3>2. u = [log |-> [t.log EXCEPT ![i].depth = 0],
                   act |-> [t.act EXCEPT ![g] = IF t.act[g] = NoContext THEN t.act[g]
                                                ELSE t.log[i].parent]]
            BY <2>1, <3>1
        <3>3. [t.log EXCEPT ![i].depth = 0] = [t.log EXCEPT ![i] = r]
            BY <1>1, <1>3, <2>1, <2>3
        <3>4. c = IF t.act[g] = NoContext THEN t.act[g] ELSE t.log[i].parent
            BY <1>6, <2>3
        <3>5. QED
            BY <3>2, <3>3, <3>4
    <2>4. QED
        BY <2>2, <2>3
<1>9. [t.act EXCEPT ![g] = c] \in [G -> Contexts] /\ [t.act EXCEPT ![g] = c][g] = c
      /\ \A h \in G : h # g => [t.act EXCEPT ![g] = c][h] = t.act[h]
    BY <1>7, TracingTypes
<1>10. /\ u \in Tracings(G, N) /\ Len(u.log) = Len(t.log) /\ u.log[i] = r
       /\ \A j \in 1..Len(t.log) : j # i => u.log[j] = t.log[j]
       /\ u.act = [t.act EXCEPT ![g] = c]
    BY <1>5, <1>8, <1>9, LogUpdated
<1>11. r.depth = n /\ SameSpan(r, t.log[i])
    BY <1>2, <1>3, <1>4 DEF Spans, SameSpan
<1>12. QED
    BY <1>1, <1>6, <1>9, <1>10, <1>11

\* A span open once is closed by that, and its parent is the context again.
LEMMA EndSpanCloses ==
    ASSUME NEW G, NEW N, NEW t \in Tracings(G, N), NEW g \in G, NEW i \in 1..Len(t.log),
           t.log[i].depth = 1, NEW u, u = EndSpan(t, g, i)
    PROVE  /\ u \in Tracings(G, N) /\ Len(u.log) = Len(t.log)
           /\ \A j \in 1..Len(t.log) : j # i => u.log[j] = t.log[j]
           /\ SameSpan(u.log[i], t.log[i]) /\ u.log[i].depth = 0
           /\ u.act[g] = IF t.act[g] = NoContext THEN t.act[g] ELSE t.log[i].parent
           /\ \A h \in G : h # g => u.act[h] = t.act[h]
<1>1. PICK d, c : /\ d = (IF t.log[i].depth > 1 THEN t.log[i].depth - 1 ELSE 0)
                  /\ c = (IF t.log[i].depth > 1 \/ t.act[g] = NoContext THEN t.act[g]
                          ELSE t.log[i].parent)
    OBVIOUS
<1>2. d = 0 /\ c = IF t.act[g] = NoContext THEN t.act[g] ELSE t.log[i].parent
    BY <1>1
<1>3. /\ u \in Tracings(G, N) /\ Len(u.log) = Len(t.log)
      /\ \A j \in 1..Len(t.log) : j # i => u.log[j] = t.log[j]
      /\ SameSpan(u.log[i], t.log[i]) /\ u.log[i].depth = d /\ u.act[g] = c
      /\ \A h \in G : h # g => u.act[h] = t.act[h]
    BY <1>1, EndSpanEnds
<1>4. QED
    BY <1>2, <1>3

\* A span is set aside for AsyncFinish, or let go.
Marked(t, i, state) == [t EXCEPT !.log[i].async = state]

LEMMA AsyncMarks ==
    ASSUME NEW G, NEW N, NEW t \in Tracings(G, N), NEW i \in 1..Len(t.log),
           NEW state \in AsyncStates, NEW u, u = Marked(t, i, state)
    PROVE  /\ u \in Tracings(G, N) /\ Len(u.log) = Len(t.log) /\ u.act = t.act
           /\ \A j \in 1..Len(t.log) : j # i => u.log[j] = t.log[j]
           /\ u.log[i].kind = t.log[i].kind /\ u.log[i].name = t.log[i].name
           /\ u.log[i].parent = t.log[i].parent /\ u.log[i].depth = t.log[i].depth
           /\ u.log[i].async = state
<1>1. t.log[i] \in Spans(N)
    BY TracingTypes
<1>2. PICK r : r = [t.log[i] EXCEPT !.async = state]
    OBVIOUS
<1>3. /\ r \in Spans(N) /\ r.kind = t.log[i].kind /\ r.name = t.log[i].name
      /\ r.parent = t.log[i].parent /\ r.depth = t.log[i].depth /\ r.async = state
    BY <1>1, <1>2 DEF Spans
<1>4. u = [log |-> [t.log EXCEPT ![i] = r], act |-> t.act]
    <2>1. u = [t EXCEPT !.log[i].async = state]
        BY DEF Marked
    <2>2. t = [log |-> t.log, act |-> t.act] /\ i \in DOMAIN t.log
        BY TracingTypes
    <2>3. u = [log |-> [t.log EXCEPT ![i].async = state], act |-> t.act]
        BY <2>1, <2>2
    <2>4. [t.log EXCEPT ![i].async = state] = [t.log EXCEPT ![i] = r]
        BY <1>2, <2>2
    <2>5. QED
        BY <2>3, <2>4
<1>5. t.act \in [G -> Contexts]
    BY TracingTypes
<1>6. /\ u \in Tracings(G, N) /\ Len(u.log) = Len(t.log) /\ u.log[i] = r
      /\ \A j \in 1..Len(t.log) : j # i => u.log[j] = t.log[j]
      /\ u.act = t.act
    BY <1>3, <1>4, <1>5, LogUpdated
<1>7. QED
    BY <1>3, <1>6

LEMMA SpanPrepared ==
    ASSUME NEW G, NEW N, NEW t \in Tracings(G, N), NEW i \in 1..Len(t.log),
           NEW u, u = PrepareAsync(t, i)
    PROVE  /\ u \in Tracings(G, N) /\ Len(u.log) = Len(t.log) /\ u.act = t.act
           /\ \A j \in 1..Len(t.log) : j # i => u.log[j] = t.log[j]
           /\ u.log[i].kind = t.log[i].kind /\ u.log[i].name = t.log[i].name
           /\ u.log[i].parent = t.log[i].parent /\ u.log[i].depth = t.log[i].depth
           /\ u.log[i].async = "prepared"
<1>1. u = Marked(t, i, "prepared") /\ "prepared" \in AsyncStates
    BY DEF PrepareAsync, Marked, AsyncStates
<1>2. QED
    BY <1>1, AsyncMarks

LEMMA SpanFinished ==
    ASSUME NEW G, NEW N, NEW t \in Tracings(G, N), NEW i \in 1..Len(t.log),
           NEW u, u = AsyncFinish(t, i)
    PROVE  /\ u \in Tracings(G, N) /\ Len(u.log) = Len(t.log) /\ u.act = t.act
           /\ \A j \in 1..Len(t.log) : j # i => u.log[j] = t.log[j]
           /\ u.log[i].kind = t.log[i].kind /\ u.log[i].name = t.log[i].name
           /\ u.log[i].parent = t.log[i].parent /\ u.log[i].depth = t.log[i].depth
           /\ u.log[i].async = "finished"
<1>1. u = Marked(t, i, "finished") /\ "finished" \in AsyncStates
    BY DEF AsyncFinish, Marked, AsyncStates
<1>2. QED
    BY <1>1, AsyncMarks

\* A goroutine gets another context.
LEMMA ContextSet ==
    ASSUME NEW G, NEW N, NEW t \in Tracings(G, N), NEW g \in G, NEW c \in Contexts,
           NEW u, u = ContinueContext(t, g, c)
    PROVE  /\ u \in Tracings(G, N) /\ u.log = t.log /\ u.act[g] = c
           /\ \A h \in G : h # g => u.act[h] = t.act[h]
<1>1. t = [log |-> t.log, act |-> t.act] /\ t.act \in [G -> Contexts]
    BY TracingTypes
<1>2. u = [t EXCEPT !.act[g] = c]
    BY DEF ContinueContext
<1>3. u = [log |-> t.log, act |-> [t.act EXCEPT ![g] = c]]
    BY <1>1, <1>2
<1>4. /\ [t.act EXCEPT ![g] = c] \in [G -> Contexts]
      /\ [t.act EXCEPT ![g] = c][g] = c
      /\ \A h \in G : h # g => [t.act EXCEPT ![g] = c][h] = t.act[h]
    BY <1>1
<1>5. QED
    BY <1>3, <1>4, TracingTypes DEF Tracings

\* A snapshot holds no span that could be ended or shared.
Passive(c) == c.snap \/ c.span = 0

LEMMA SnapshotIsPassive ==
    ASSUME NEW G, NEW N, NEW t \in Tracings(G, N), NEW g \in G, NEW c, c = CaptureContext(t, g)
    PROVE  c \in Contexts /\ Passive(c) /\ c.span = t.act[g].span
<1>1. t.act[g] \in Contexts /\ NoContext \in Contexts
    BY TracingTypes
<1>2. CASE t.act[g] = NoContext
    BY <1>1, <1>2 DEF CaptureContext, Passive, NoContext
<1>3. CASE t.act[g] # NoContext
    <2>1. c = [t.act[g] EXCEPT !.snap = TRUE]
        BY <1>3 DEF CaptureContext
    <2>2. QED
        BY <1>1, <2>1 DEF Contexts, Passive
<1>4. QED
    BY <1>2, <1>3

-----------------------------------------------------------------------------
(* database/sql: addresses, handles and the spans of statements.            *)

\* The module uses the tracing context as it is.
LEMMA SqlContext ==
    /\ Sql!Empty(Goroutines) = Empty(Goroutines)
    /\ \A t, g, kind, name : Sql!Create(t, g, kind, name) = Create(t, g, kind, name)
    /\ \A t, g, i : Sql!EndSpan(t, g, i) = EndSpan(t, g, i)
    /\ \A t, g : Sql!ActiveSpan(t, g) = t.act[g].span
BY DEF Sql!Empty, Empty, Sql!Create, Create, Sql!EndSpan, EndSpan, Sql!ActiveSpan,
   Sql!NoContext, NoContext, Sql!NoSpan, NoSpan, Sql!Reuses, Reuses

Infos == Databases \cup {Sql!NoInfo}
Handles == [kind : {"db", "conn", "tx", "stmt"}, db : Databases, info : Infos, told : BOOLEAN]
Opens == [db : Databases, published : BOOLEAN]

SqlTypeOK ==
    /\ swSql \in Tracings(Goroutines, Infos)
    /\ runtime \in [Goroutines -> [need : BOOLEAN, info : Infos]]
    /\ opens \in [Goroutines -> Seq(Opens)]
    /\ handles \in Seq(Handles)
    /\ last \in [handle : Nat, named : Infos, by : Goroutines \cup {Sql!NoInfo}]

\* As long as no Open is inside another, a goroutine has at most one, which has been
\* given its database's address if the driver has parsed it; nobody else has one.
OpenInv ==
    nested = {} => \A g \in Goroutines :
        /\ opens[g] = <<>> => ~runtime[g].need /\ runtime[g].info = Sql!NoInfo
        /\ opens[g] # <<>> =>
              /\ Len(opens[g]) = 1 /\ runtime[g].need
              /\ runtime[g].info = IF opens[g][1].published THEN opens[g][1].db ELSE Sql!NoInfo

\* A handle carries its database's address if Open was told it.
Informed(e) == e.info = IF e.told THEN e.db ELSE Sql!NoInfo
HandleInv == nested = {} => \A h \in 1..Len(handles) : Informed(handles[h])

\* Only Raw leaves a span on its goroutine.
IdleInv ==
    /\ \A g \in Goroutines : /\ swSql.act[g].span \in 0..Len(swSql.log)
                             /\ g \notin raw => swSql.act[g].span = 0
    /\ \A i \in 1..Len(swSql.log) : swSql.log[i].parent.span \in 0..Len(swSql.log)

LastInv == last.handle \in 0..Len(handles) /\ StatementNamesItsDatabase

SqlInv == SqlTypeOK /\ OpenInv /\ HandleInv /\ IdleInv /\ LastInv

LEMMA SqlTypes ==
    ASSUME SqlInv
    PROVE  /\ handles \in Seq(Handles) /\ Len(handles) \in Nat
           /\ DOMAIN handles = 1..Len(handles)
           /\ \A h \in 1..Len(handles) : handles[h] \in Handles
           /\ \A g \in Goroutines : opens[g] \in Seq(Opens) /\ Len(opens[g]) \in Nat
BY LenProperties DEF SqlInv, SqlTypeOK

LEMMA SqlInitInv == Sql!Init => SqlInv
<1> SUFFICES ASSUME Sql!Init PROVE SqlInv
    OBVIOUS
<1>1. /\ swSql \in Tracings(Goroutines, Infos) /\ swSql.log = <<>>
      /\ \A g \in Goroutines : swSql.act[g] = NoContext
    BY SqlContext, EmptyTyped, SMTT(30) DEF Sql!Init
<1>2. SqlTypeOK
    BY <1>1 DEF Sql!Init, SqlTypeOK, Infos
<1>3. IdleInv
    BY <1>1 DEF IdleInv, NoContext
<1>4. QED
    BY <1>2, <1>3 DEF Sql!Init, SqlInv, OpenInv, HandleInv, LastInv, StatementNamesItsDatabase,
       Sql!StatementNamesItsDatabase

\* Handles stay as they are, and no Open gets out of another.
HandlesStay ==
    /\ Len(handles) <= Len(handles')
    /\ \A h \in 1..Len(handles) : handles'[h] = handles[h]
    /\ nested' = {} => nested = {}

\* Then the last statement is still right.
LEMMA LastStays ==
    ASSUME SqlInv, HandlesStay, Len(handles') \in Nat, UNCHANGED last,
           raw \subseteq raw'
    PROVE  LastInv'
<1>1. last.handle \in 0..Len(handles) /\ Len(handles) \in Nat
    BY SqlTypes DEF SqlInv, LastInv
<1>2. last.handle \in 0..Len(handles')
    BY <1>1 DEF HandlesStay
<1>3. StatementNamesItsDatabase'
    <2>1. CASE last.handle = 0
        BY <2>1 DEF StatementNamesItsDatabase, Sql!StatementNamesItsDatabase
    <2>2. CASE last.handle # 0
        <3>1. handles'[last.handle] = handles[last.handle]
            BY <1>1, <2>2 DEF HandlesStay
        <3>2. QED
            BY <2>2, <3>1 DEF SqlInv, LastInv, StatementNamesItsDatabase,
               Sql!StatementNamesItsDatabase, HandlesStay
    <2>3. QED
        BY <2>1, <2>2
<1>4. QED
    BY <1>2, <1>3 DEF LastInv

\* A handle is made.
LEMMA HandleMade ==
    ASSUME SqlInv, NEW e \in Handles, nested = {} => Informed(e),
           handles' = Append(handles, e), UNCHANGED nested
    PROVE  handles' \in Seq(Handles) /\ Len(handles') \in Nat /\ HandleInv' /\ HandlesStay
<1>1. /\ handles' \in Seq(Handles) /\ Len(handles') = Len(handles) + 1
      /\ handles'[Len(handles) + 1] = e
      /\ \A h \in 1..Len(handles) : handles'[h] = handles[h]
    BY SqlTypes, AppendProperties
<1>2. \A h \in 1..Len(handles') : h = Len(handles) + 1 \/ h \in 1..Len(handles)
    BY <1>1, SqlTypes
<1>3. HandleInv'
    BY <1>1, <1>2 DEF SqlInv, HandleInv
<1>4. QED
    BY <1>1, <1>3, SqlTypes DEF HandlesStay

LEMMA HandlesUnchanged ==
    ASSUME SqlInv, UNCHANGED handles, nested' = {} => nested = {}
    PROVE  /\ handles' \in Seq(Handles) /\ Len(handles') \in Nat /\ HandleInv' /\ HandlesStay
BY SqlTypes DEF SqlInv, HandleInv, HandlesStay

-----------------------------------------------------------------------------
(* Open.                                                                    *)

LEMMA OpenBeginKeeps ==
    ASSUME SqlInv, NEW g \in Goroutines, NEW d \in Databases, Sql!OpenBegin(g, d)
    PROVE  SqlInv'
<1>1. PICK o : o = [db |-> d, published |-> FALSE]
    OBVIOUS
<1>2. o \in Opens /\ ~o.published
    BY <1>1 DEF Opens
<1>3. /\ opens' = [opens EXCEPT ![g] = Append(opens[g], o)]
      /\ runtime' = [runtime EXCEPT ![g].need = TRUE]
      /\ nested' = IF opens[g] = <<>> THEN nested ELSE nested \cup {g}
      /\ UNCHANGED <<swSql, handles, last, raw>>
    BY <1>1 DEF Sql!OpenBegin
<1>4. /\ Append(opens[g], o) \in Seq(Opens) /\ Len(Append(opens[g], o)) = Len(opens[g]) + 1
      /\ Append(opens[g], o)[Len(opens[g]) + 1] = o
    BY <1>2, SqlTypes, AppendProperties
<1>5. /\ opens' \in [Goroutines -> Seq(Opens)] /\ opens'[g] = Append(opens[g], o)
      /\ \A k \in Goroutines : k # g => opens'[k] = opens[k]
    BY <1>3, <1>4 DEF SqlInv, SqlTypeOK
<1>6. /\ runtime' \in [Goroutines -> [need : BOOLEAN, info : Infos]]
      /\ runtime'[g].need /\ runtime'[g].info = runtime[g].info
      /\ \A k \in Goroutines : k # g => runtime'[k] = runtime[k]
    BY <1>3 DEF SqlInv, SqlTypeOK
<1>7. nested' = {} => nested = {} /\ opens[g] = <<>>
    BY <1>3
<1>8. /\ handles' \in Seq(Handles) /\ Len(handles') \in Nat /\ HandleInv' /\ HandlesStay
    BY <1>3, <1>7, HandlesUnchanged
<1>9. SqlTypeOK'
    BY <1>3, <1>5, <1>6, <1>8 DEF SqlInv, SqlTypeOK
<1>10. OpenInv'
    <2> SUFFICES ASSUME nested' = {}, NEW k \in Goroutines
                 PROVE  /\ opens'[k] = <<>> => ~runtime'[k].need /\ runtime'[k].info = Sql!NoInfo
                        /\ opens'[k] # <<>> =>
                              /\ Len(opens'[k]) = 1 /\ runtime'[k].need
                              /\ runtime'[k].info = IF opens'[k][1].published THEN opens'[k][1].db
                                                    ELSE Sql!NoInfo
        BY DEF OpenInv
    <2>1. CASE k = g
        <3>1. runtime[g].info = Sql!NoInfo /\ Len(opens[g]) = 0
            BY <1>7 DEF SqlInv, OpenInv
        <3>2. Len(opens'[g]) = 1 /\ opens'[g][1] = o /\ opens'[g] # <<>>
            BY <1>4, <1>5, <3>1
        <3>3. QED
            BY <1>2, <1>6, <2>1, <3>1, <3>2
    <2>2. CASE k # g
        BY <1>5, <1>6, <1>7, <2>2 DEF SqlInv, OpenInv
    <2>3. QED
        BY <2>1, <2>2
<1>11. IdleInv'
    BY <1>3 DEF SqlInv, IdleInv
<1>12. LastInv'
    BY <1>3, <1>8, LastStays
<1>13. QED
    BY <1>8, <1>9, <1>10, <1>11, <1>12 DEF SqlInv

\* The address goes to the goroutine's Open, if there is one.
LEMMA PublishKeeps ==
    ASSUME SqlInv, NEW g \in Goroutines, NEW d \in Databases,
           Sql!ParseDSN(g) \/ Sql!ParseDSNAlone(g, d)
    PROVE  SqlInv'
<1>1. UNCHANGED <<swSql, handles, last, nested, raw>>
    BY DEF Sql!ParseDSN, Sql!ParseDSNAlone
<1>2. PICK n : n = Len(opens[g])
    OBVIOUS
<1>3. n \in Nat
    BY <1>2, SqlTypes
<1>4. PICK a : a = IF Sql!ParseDSN(g) THEN opens[g][n].db ELSE d
    OBVIOUS
<1>5. /\ a \in Databases
      /\ runtime' = IF runtime[g].need THEN [runtime EXCEPT ![g].info = a] ELSE runtime
    <2>1. CASE Sql!ParseDSN(g)
        <3>1. opens[g] # <<>> /\ opens[g][n] = Last(opens[g])
            BY <1>2, <2>1 DEF Sql!ParseDSN, Last
        <3>2. n \in 1..n
            BY <1>2, <1>3, <3>1, SqlTypes, EmptySeq
        <3>3. opens[g][n] \in Opens
            BY <1>2, <3>2, SqlTypes, ElementOfSeq
        <3>4. QED
            BY <1>4, <2>1, <3>1, <3>3 DEF Sql!ParseDSN, Sql!Publish, Last, Opens
    <2>2. CASE ~Sql!ParseDSN(g)
        BY <1>4, <2>2 DEF Sql!ParseDSNAlone, Sql!Publish
    <2>3. QED
        BY <2>1, <2>2
<1>6. /\ runtime' \in [Goroutines -> [need : BOOLEAN, info : Infos]]
      /\ runtime'[g].need = runtime[g].need
      /\ runtime'[g].info = IF runtime[g].need THEN a ELSE runtime[g].info
      /\ \A k \in Goroutines : k # g => runtime'[k] = runtime[k]
    BY <1>5 DEF SqlInv, SqlTypeOK, Infos
<1>7. /\ opens' \in [Goroutines -> Seq(Opens)]
      /\ \A k \in Goroutines : k # g => opens'[k] = opens[k]
      /\ opens[g] = <<>> => opens'[g] = <<>>
      /\ opens[g] # <<>> => /\ opens'[g] # <<>> /\ Len(opens'[g]) = n
                            /\ n \in 1..n /\ opens'[g][n].published /\ opens'[g][n].db = a
    <2>1. CASE opens[g] = <<>>
        BY <2>1 DEF Sql!ParseDSN, Sql!ParseDSNAlone, SqlInv, SqlTypeOK
    <2>2. CASE opens[g] # <<>>
        <3>1. Sql!ParseDSN(g)
            BY <2>2 DEF Sql!ParseDSNAlone
        <3>2. n \in 1..n
            BY <1>2, <1>3, <2>2, SqlTypes, EmptySeq
        <3>3. PICK o : o = opens[g][n]
            OBVIOUS
        <3>4. o \in Opens /\ a = o.db
            BY <1>2, <1>4, <3>1, <3>2, <3>3, SqlTypes, ElementOfSeq
        <3>5. PICK p : p = [o EXCEPT !.published = TRUE]
            OBVIOUS
        <3>6. p \in Opens /\ p.published /\ p.db = a
            BY <3>4, <3>5 DEF Opens
        <3>7. PICK q : q = [opens[g] EXCEPT ![n] = p]
            OBVIOUS
        <3>8. q \in Seq(Opens) /\ Len(q) = n /\ q[n] = p
            BY <1>2, <3>2, <3>6, <3>7, SqlTypes, ExceptSeq
        <3>9. opens' = [opens EXCEPT ![g] = q]
            BY <1>2, <3>1, <3>3, <3>5, <3>7 DEF Sql!ParseDSN
        <3>10. /\ opens' \in [Goroutines -> Seq(Opens)] /\ opens'[g] = q
               /\ \A k \in Goroutines : k # g => opens'[k] = opens[k]
            BY <3>8, <3>9 DEF SqlInv, SqlTypeOK
        <3>11. q # <<>>
            BY <3>2, <3>8
        <3>12. QED
            BY <2>2, <3>2, <3>6, <3>8, <3>10, <3>11
    <2>3. QED
        BY <2>1, <2>2
<1>8. /\ handles' \in Seq(Handles) /\ Len(handles') \in Nat /\ HandleInv' /\ HandlesStay
    BY <1>1, HandlesUnchanged
<1>9. SqlTypeOK'
    BY <1>1, <1>6, <1>7, <1>8 DEF SqlInv, SqlTypeOK
<1>10. OpenInv'
    <2> SUFFICES ASSUME nested = {}, NEW k \in Goroutines
                 PROVE  /\ opens'[k] = <<>> => ~runtime'[k].need /\ runtime'[k].info = Sql!NoInfo
                        /\ opens'[k] # <<>> =>
                              /\ Len(opens'[k]) = 1 /\ runtime'[k].need
                              /\ runtime'[k].info = IF opens'[k][1].published THEN opens'[k][1].db
                                                    ELSE Sql!NoInfo
        BY <1>1 DEF OpenInv
    <2>1. CASE k = g
        BY <1>2, <1>6, <1>7, <2>1 DEF SqlInv, OpenInv
    <2>2. CASE k # g
        BY <1>6, <1>7, <2>2 DEF SqlInv, OpenInv
    <2>3. QED
        BY <2>1, <2>2
<1>11. IdleInv' /\ LastInv'
    BY <1>1, <1>8, LastStays DEF SqlInv, IdleInv
<1>12. QED
    BY <1>8, <1>9, <1>10, <1>11 DEF SqlInv

\* The deferred function of Open moves the address to the handle.
LEMMA OpenEndKeeps ==
    ASSUME SqlInv, NEW g \in Goroutines, NEW failed \in BOOLEAN, Sql!OpenEnd(g, failed)
    PROVE  SqlInv'
<1>1. /\ opens[g] # <<>> /\ UNCHANGED <<swSql, last, nested, raw>>
      /\ opens' = [opens EXCEPT ![g] = Front(opens[g])]
    BY DEF Sql!OpenEnd, Front
<1>2. /\ Front(opens[g]) \in Seq(Opens) /\ Len(Front(opens[g])) = Len(opens[g]) - 1
      /\ Last(opens[g]) \in Opens
    BY <1>1, SqlTypes, FrontProperties
<1>3. PICK o \in Opens : o = Last(opens[g])
    BY <1>2
<1>4. PICK told \in BOOLEAN : told <=> o.published /\ g \notin nested
    BY <1>3 DEF Opens
<1>5. told = (o.published /\ g \notin nested)
    BY <1>3, <1>4 DEF Opens
<1>6. PICK e : e = [kind |-> "db", db |-> o.db, info |-> runtime[g].info, told |-> told]
    OBVIOUS
<1>7. /\ e \in Handles /\ e.info = runtime[g].info /\ e.db = o.db /\ e.told = told
    BY <1>3, <1>6 DEF Handles, Opens, SqlInv, SqlTypeOK
<1>8. handles' = IF failed THEN handles ELSE Append(handles, e)
    BY <1>3, <1>5, <1>6 DEF Sql!OpenEnd, Sql!Handle, Last
<1>9. nested = {} => Informed(e)
    <2> SUFFICES ASSUME nested = {} PROVE Informed(e)
        OBVIOUS
    <2>1. Len(opens[g]) = 1 /\ runtime[g].info = IF opens[g][1].published THEN opens[g][1].db
                                                 ELSE Sql!NoInfo
        BY <1>1 DEF SqlInv, OpenInv
    <2>2. o = opens[g][1]
        BY <1>3, <2>1 DEF Last
    <2>3. QED
        BY <1>4, <1>7, <2>1, <2>2 DEF Informed
<1>10. /\ handles' \in Seq(Handles) /\ Len(handles') \in Nat /\ HandleInv' /\ HandlesStay
    <2>1. CASE failed
        BY <1>1, <1>8, <2>1, HandlesUnchanged
    <2>2. CASE ~failed
        BY <1>1, <1>7, <1>8, <1>9, <2>2, HandleMade
    <2>3. QED
        BY <2>1, <2>2
<1>11. PICK r : r = [need |-> FALSE, info |-> Sql!NoInfo]
    OBVIOUS
<1>12. r \in [need : BOOLEAN, info : Infos] /\ ~r.need /\ r.info = Sql!NoInfo
    BY <1>11 DEF Infos
<1>13. /\ runtime' \in [Goroutines -> [need : BOOLEAN, info : Infos]] /\ runtime'[g] = r
       /\ \A k \in Goroutines : k # g => runtime'[k] = runtime[k]
    BY <1>11, <1>12 DEF Sql!OpenEnd, SqlInv, SqlTypeOK
<1>14. /\ opens' \in [Goroutines -> Seq(Opens)] /\ opens'[g] = Front(opens[g])
       /\ \A k \in Goroutines : k # g => opens'[k] = opens[k]
    BY <1>1, <1>2 DEF SqlInv, SqlTypeOK
<1>15. SqlTypeOK'
    BY <1>1, <1>10, <1>13, <1>14 DEF SqlInv, SqlTypeOK
<1>16. OpenInv'
    <2> SUFFICES ASSUME nested = {}, NEW k \in Goroutines
                 PROVE  /\ opens'[k] = <<>> => ~runtime'[k].need /\ runtime'[k].info = Sql!NoInfo
                        /\ opens'[k] # <<>> =>
                              /\ Len(opens'[k]) = 1 /\ runtime'[k].need
                              /\ runtime'[k].info = IF opens'[k][1].published THEN opens'[k][1].db
                                                    ELSE Sql!NoInfo
        BY <1>1 DEF OpenInv
    <2>1. CASE k = g
        <3>1. Len(opens[g]) = 1
            BY <1>1 DEF SqlInv, OpenInv
        <3>2. opens'[g] = <<>>
            BY <1>2, <1>14, <3>1, EmptySeq
        <3>3. QED
            BY <1>12, <1>13, <2>1, <3>2
    <2>2. CASE k # g
        BY <1>13, <1>14, <2>2 DEF SqlInv, OpenInv
    <2>3. QED
        BY <2>1, <2>2
<1>17. IdleInv' /\ LastInv'
    BY <1>1, <1>10, LastStays DEF SqlInv, IdleInv
<1>18. QED
    BY <1>10, <1>15, <1>16, <1>17 DEF SqlInv

-----------------------------------------------------------------------------
(* The calls on handles.                                                    *)

LEMMA InfoOf ==
    ASSUME SqlInv, NEW h \in DOMAIN handles
    PROVE  Sql!swInstanceInfoOf(h) = handles[h].info /\ handles[h].info \in Infos
BY SqlTypes DEF Sql!swInstanceInfoOf, Handles

\* swCreateExitSpan: on a goroutine without a span it makes one with the address.
LEMMA ExitSpanMade ==
    ASSUME SqlInv, NEW g \in Goroutines, NEW info \in Infos, info # Sql!NoInfo,
           NEW t, t = Sql!swCreateExitSpan(swSql, g, info)
    PROVE  /\ t \in Tracings(Goroutines, Infos) /\ Len(swSql.log) <= Len(t.log)
           /\ t.act[g].span \in 1..Len(t.log)
           /\ \A k \in Goroutines : k # g => t.act[k] = swSql.act[k]
           /\ \A i \in 1..Len(t.log) : t.log[i].parent.span \in 0..Len(t.log)
           /\ g \notin raw => /\ t.log[t.act[g].span].name = info
                              /\ t.log[t.act[g].span].depth = 1
                              /\ t.log[t.act[g].span].parent.span = 0
                              /\ t.act[g] # NoContext
<1>1. PICK s \in Tracings(Goroutines, Infos) : s = swSql
    BY DEF SqlInv, SqlTypeOK
<1>2. t = Create(s, g, "exit", info) /\ "exit" \in SpanKinds
    BY <1>1, SqlContext DEF Sql!swCreateExitSpan, SpanKinds
<1>3. /\ s.act[g].span \in 0..Len(s.log) /\ (g \notin raw => s.act[g].span = 0)
      /\ \A i \in 1..Len(s.log) : s.log[i].parent.span \in 0..Len(s.log)
      /\ Len(s.log) \in Nat
    BY <1>1, TracingTypes DEF SqlInv, IdleInv
<1>4. CASE Reuses(s, g, "exit")
    <2>1. s.act[g].span # 0
        BY <1>4 DEF Reuses
    <2>2. PICK i \in 1..Len(s.log) : i = s.act[g].span
        BY <1>3, <2>1
    <2>3. /\ t \in Tracings(Goroutines, Infos) /\ Len(t.log) = Len(s.log) /\ t.act = s.act
          /\ \A j \in 1..Len(s.log) : j # i => t.log[j] = s.log[j]
          /\ SameSpan(t.log[i], s.log[i])
        BY <1>2, <1>4, <2>2, CreateShares
    <2>4. \A j \in 1..Len(s.log) : t.log[j].parent = s.log[j].parent
        BY <2>3 DEF SameSpan
    <2>5. g \in raw
        BY <1>3, <2>1
    <2>6. /\ Len(swSql.log) <= Len(t.log) /\ t.act[g].span \in 1..Len(t.log)
          /\ \A k \in Goroutines : k # g => t.act[k] = swSql.act[k]
        BY <1>1, <1>3, <2>2, <2>3
    <2>7. \A j \in 1..Len(t.log) : t.log[j].parent.span \in 0..Len(t.log)
        BY <1>3, <2>3, <2>4
    <2>8. QED
        BY <2>3, <2>5, <2>6, <2>7
<1>5. CASE ~Reuses(s, g, "exit")
    <2>1. /\ t \in Tracings(Goroutines, Infos) /\ Len(t.log) = Len(s.log) + 1
          /\ \A i \in 1..Len(s.log) : t.log[i] = s.log[i]
          /\ t.log[Len(t.log)] = [kind |-> "exit", name |-> info,
                                  parent |-> IF s.act[g] = NoContext THEN NoSpan ELSE s.act[g],
                                  depth |-> 1, async |-> "no"]
          /\ t.act[g] = [span |-> Len(t.log), snap |-> FALSE]
          /\ \A h \in Goroutines : h # g => t.act[h] = s.act[h]
        BY <1>2, <1>5, CreateMakes, SMTT(30)
    <2>2. /\ t.log[Len(t.log)].name = info /\ t.log[Len(t.log)].depth = 1
          /\ t.log[Len(t.log)].parent = IF s.act[g] = NoContext THEN NoSpan ELSE s.act[g]
        BY <2>1
    <2>3. t.log[Len(t.log)].parent.span \in 0..Len(s.log)
          /\ (g \notin raw => t.log[Len(t.log)].parent.span = 0)
        BY <1>3, <2>2 DEF NoSpan
    <2>4. t.act[g].span = Len(t.log) /\ t.act[g] # NoContext
        BY <1>3, <2>1 DEF NoContext
    <2>5. /\ Len(swSql.log) <= Len(t.log) /\ t.act[g].span \in 1..Len(t.log)
          /\ \A k \in Goroutines : k # g => t.act[k] = swSql.act[k]
        BY <1>1, <1>3, <2>1, <2>4
    <2>6. \A i \in 1..Len(t.log) : i = Len(t.log) \/ i \in 1..Len(s.log)
        BY <1>3, <2>1
    <2>7. \A i \in 1..Len(t.log) : t.log[i].parent.span \in 0..Len(t.log)
        <3> SUFFICES ASSUME NEW i \in 1..Len(t.log) PROVE t.log[i].parent.span \in 0..Len(t.log)
            OBVIOUS
        <3>1. CASE i = Len(t.log)
            BY <1>3, <2>1, <2>3, <3>1
        <3>2. CASE i \in 1..Len(s.log)
            <4>1. t.log[i] = s.log[i] /\ s.log[i].parent.span \in 0..Len(s.log)
                BY <1>3, <2>1, <3>2
            <4>2. QED
                BY <1>3, <2>1, <4>1
        <3>3. QED
            BY <2>6, <3>1, <3>2
    <2>8. QED
        BY <2>1, <2>2, <2>3, <2>4, <2>5, <2>7
<1>6. QED
    BY <1>4, <1>5

\* A statement.
LEMMA StatementKeeps ==
    ASSUME SqlInv, NEW g \in Goroutines, NEW h \in DOMAIN handles, Sql!Statement(g, h)
    PROVE  SqlInv'
<1>1. PICK info \in Infos : info = handles[h].info /\ Sql!swInstanceInfoOf(h) = info
    BY InfoOf
<1>2. UNCHANGED <<runtime, opens, handles, nested, raw>>
    BY DEF Sql!Statement
<1>3. PICK t : t = Sql!swCreateExitSpan(swSql, g, info)
    OBVIOUS
<1>4. PICK name : name = IF info = Sql!NoInfo THEN Sql!NoInfo ELSE t.log[t.act[g].span].name
    OBVIOUS
<1>5. /\ swSql' = IF info = Sql!NoInfo THEN swSql ELSE EndSpan(t, g, t.act[g].span)
      /\ last' = [handle |-> h, by |-> g, named |-> name]
    BY <1>1, <1>3, <1>4, SqlContext DEF Sql!Statement
<1>6. /\ swSql' \in Tracings(Goroutines, Infos) /\ IdleInv' /\ name \in Infos
      /\ g \notin raw => name = info
    <2>1. CASE info = Sql!NoInfo
        BY <1>2, <1>4, <1>5, <2>1 DEF SqlInv, SqlTypeOK, IdleInv
    <2>2. CASE info # Sql!NoInfo
        <3>1. /\ t \in Tracings(Goroutines, Infos) /\ Len(swSql.log) <= Len(t.log)
              /\ t.act[g].span \in 1..Len(t.log)
              /\ \A k \in Goroutines : k # g => t.act[k] = swSql.act[k]
              /\ \A i \in 1..Len(t.log) : t.log[i].parent.span \in 0..Len(t.log)
              /\ g \notin raw => /\ t.log[t.act[g].span].name = info
                                 /\ t.log[t.act[g].span].depth = 1
                                 /\ t.log[t.act[g].span].parent.span = 0
                                 /\ t.act[g] # NoContext
            BY <1>3, <2>2, ExitSpanMade
        <3>2. PICK i \in 1..Len(t.log) : i = t.act[g].span
            BY <3>1
        <3>3. PICK u : u = swSql'
            OBVIOUS
        <3>4. u = EndSpan(t, g, i)
            BY <1>5, <2>2, <3>2, <3>3
        <3>5. /\ u \in Tracings(Goroutines, Infos) /\ Len(u.log) = Len(t.log)
              /\ \A j \in 1..Len(t.log) : j # i => u.log[j] = t.log[j]
              /\ SameSpan(u.log[i], t.log[i])
              /\ u.act[g] = IF t.log[i].depth > 1 \/ t.act[g] = NoContext THEN t.act[g]
                            ELSE t.log[i].parent
              /\ \A k \in Goroutines : k # g => u.act[k] = t.act[k]
            <4>1. t \in Tracings(Goroutines, Infos)
                BY <3>1
            <4>2. QED
                BY <3>2, <3>4, <4>1, EndSpanEnds
        <3>6. /\ u.log[i].parent = t.log[i].parent /\ t.log[i].name \in Infos
              /\ t.log[i].depth \in Nat
            BY <3>1, <3>2, <3>5, TracingTypes DEF Spans, SameSpan
        <3>7. u.act[g].span \in 0..Len(u.log) /\ (g \notin raw => u.act[g].span = 0)
            <4>1. Len(t.log) \in Nat /\ t.act[g].span \in 0..Len(t.log)
                BY <3>1, TracingTypes
            <4>2. t.log[i].parent.span \in 0..Len(t.log)
                BY <3>1
            <4>3. g \notin raw => u.act[g] = t.log[i].parent /\ t.log[i].parent.span = 0
                <5>1. SUFFICES ASSUME g \notin raw
                               PROVE  u.act[g] = t.log[i].parent /\ t.log[i].parent.span = 0
                    OBVIOUS
                <5>2. t.log[i].depth = 1 /\ t.log[i].parent.span = 0 /\ t.act[g] # NoContext
                    BY <3>1, <3>2, <5>1
                <5>3. u.act[g] = IF t.log[i].depth > 1 \/ t.act[g] = NoContext THEN t.act[g]
                                 ELSE t.log[i].parent
                    BY <3>5
                <5>4. QED
                    BY <5>2, <5>3
            <4>4. QED
                BY <3>5, <4>1, <4>2, <4>3
        <3>8. \A j \in 1..Len(u.log) : u.log[j].parent.span \in 0..Len(u.log)
            BY <3>1, <3>5, <3>6
        <3>9. Len(swSql.log) \in Nat /\ Len(u.log) \in Nat
            BY <3>5, TracingTypes DEF SqlInv, SqlTypeOK
        <3>10. \A k \in Goroutines : k # g => /\ u.act[k].span \in 0..Len(u.log)
                                              /\ k \notin raw => u.act[k].span = 0
            BY <3>1, <3>5, <3>9 DEF SqlInv, IdleInv
        <3>11. IdleInv'
            BY <1>2, <3>3, <3>7, <3>8, <3>10 DEF IdleInv
        <3>12. QED
            BY <1>4, <2>2, <3>1, <3>2, <3>3, <3>5, <3>6, <3>11
    <2>3. QED
        BY <2>1, <2>2
<1>7. /\ handles' \in Seq(Handles) /\ HandleInv' /\ Len(handles') \in Nat
    BY <1>2, HandlesUnchanged
<1>8. h \in 1..Len(handles) /\ Len(handles) \in Nat
    BY SqlTypes
<1>9. last'.handle = h /\ last'.by = g /\ last'.named = name
    BY <1>5
<1>10. SqlTypeOK'
    <2>1. last' \in [handle : Nat, named : Infos, by : Goroutines \cup {Sql!NoInfo}]
        BY <1>5, <1>6, <1>8
    <2>2. QED
        BY <1>2, <1>6, <1>7, <2>1 DEF SqlInv, SqlTypeOK
<1>11. OpenInv'
    BY <1>2 DEF SqlInv, OpenInv
<1>12. LastInv'
    <2>1. ASSUME nested = {}, g \notin raw
          PROVE  name = IF handles[h].told THEN handles[h].db ELSE Sql!NoInfo
        BY <1>1, <1>6, <1>8, <2>1 DEF SqlInv, HandleInv, Informed
    <2>2. StatementNamesItsDatabase'
        BY <1>2, <1>9, <2>1 DEF StatementNamesItsDatabase, Sql!StatementNamesItsDatabase
    <2>3. QED
        BY <1>2, <1>8, <1>9, <2>2 DEF LastInv
<1>13. QED
    BY <1>6, <1>7, <1>10, <1>11, <1>12 DEF SqlInv

\* A handle made from handle h carries its address.
LEMMA DerivedKeeps ==
    ASSUME SqlInv, NEW h \in DOMAIN handles, NEW kind \in {"conn", "tx", "stmt"}, NEW e,
           e = [handles[h] EXCEPT !.kind = kind, !.info = handles[h].info],
           handles' = Append(handles, e),
           UNCHANGED <<swSql, runtime, opens, last, nested, raw>>
    PROVE  SqlInv'
<1>1. h \in 1..Len(handles) /\ handles[h] \in Handles
    BY SqlTypes
<1>2. /\ e \in Handles /\ e.info = handles[h].info /\ e.told = handles[h].told
      /\ e.db = handles[h].db
    BY <1>1 DEF Handles
<1>3. nested = {} => Informed(e)
    BY <1>1, <1>2 DEF SqlInv, HandleInv, Informed
<1>4. handles' \in Seq(Handles) /\ Len(handles') \in Nat /\ HandleInv' /\ HandlesStay
    BY <1>2, <1>3, HandleMade
<1>5. SqlTypeOK' /\ OpenInv' /\ IdleInv'
    BY <1>4 DEF SqlInv, SqlTypeOK, OpenInv, IdleInv
<1>6. LastInv'
    BY <1>4, LastStays
<1>7. QED
    BY <1>4, <1>5, <1>6 DEF SqlInv

LEMMA DeriveKeeps ==
    ASSUME SqlInv, NEW g, NEW h \in DOMAIN handles, NEW kind \in {"conn", "tx", "stmt"},
           Sql!Derive(g, h, kind)
    PROVE  SqlInv'
<1>1. PICK e : e = [handles[h] EXCEPT !.kind = kind, !.info = handles[h].info]
    OBVIOUS
<1>2. handles' = Append(handles, e)
    BY <1>1, InfoOf DEF Sql!Derive, Sql!CarriedInfo
<1>3. QED
    BY <1>1, <1>2, DerivedKeeps DEF Sql!Derive

LEMMA StmtContextKeeps ==
    ASSUME SqlInv, NEW h \in DOMAIN handles, NEW s, Sql!StmtContext(h, s)
    PROVE  SqlInv'
<1>1. PICK e : e = [handles[h] EXCEPT !.kind = "stmt", !.info = handles[h].info]
    OBVIOUS
<1>2. handles[h] \in Handles
    BY SqlTypes
<1>3. e = [handles[h] EXCEPT !.kind = "stmt"]
    BY <1>1, <1>2 DEF Handles
<1>4. handles' = Append(handles, e)
    BY <1>3 DEF Sql!StmtContext
<1>5. QED
    BY <1>1, <1>4, DerivedKeeps DEF Sql!StmtContext

\* Raw leaves its span.
LEMMA RawKeeps ==
    ASSUME SqlInv, NEW g \in Goroutines, NEW h \in DOMAIN handles, Sql!Raw(g, h)
    PROVE  SqlInv'
<1>1. PICK info \in Infos : info = handles[h].info /\ Sql!swInstanceInfoOf(h) = info
    BY InfoOf
<1>2. /\ UNCHANGED <<runtime, opens, handles, last, nested>> /\ raw' = raw \cup {g}
    BY DEF Sql!Raw
<1>3. PICK t : t = swSql'
    OBVIOUS
<1>4. t = Sql!swCreateExitSpan(swSql, g, info)
    BY <1>1, <1>3 DEF Sql!Raw
<1>5. swSql' \in Tracings(Goroutines, Infos) /\ IdleInv'
    <2>1. CASE info = Sql!NoInfo
        BY <1>2, <1>3, <1>4, <2>1 DEF Sql!swCreateExitSpan, SqlInv, SqlTypeOK, IdleInv
    <2>2. CASE info # Sql!NoInfo
        <3>1. /\ t \in Tracings(Goroutines, Infos) /\ Len(swSql.log) <= Len(t.log)
              /\ t.act[g].span \in 1..Len(t.log)
              /\ \A k \in Goroutines : k # g => t.act[k] = swSql.act[k]
              /\ \A i \in 1..Len(t.log) : t.log[i].parent.span \in 0..Len(t.log)
            BY <1>4, <2>2, ExitSpanMade
        <3>2. Len(swSql.log) \in Nat /\ Len(t.log) \in Nat
            BY <3>1, TracingTypes DEF SqlInv, SqlTypeOK
        <3>3. \A k \in Goroutines : k # g => /\ t.act[k].span \in 0..Len(t.log)
                                             /\ k \notin raw => t.act[k].span = 0
            BY <3>1, <3>2 DEF SqlInv, IdleInv
        <3>4. IdleInv'
            BY <1>2, <1>3, <3>1, <3>3 DEF IdleInv
        <3>5. QED
            BY <1>3, <3>1, <3>4
    <2>3. QED
        BY <2>1, <2>2
<1>6. handles' \in Seq(Handles) /\ HandleInv' /\ Len(handles') \in Nat /\ HandlesStay
    BY <1>2, HandlesUnchanged
<1>7. SqlTypeOK' /\ OpenInv'
    BY <1>2, <1>5, <1>6 DEF SqlInv, SqlTypeOK, OpenInv
<1>8. LastInv'
    BY <1>2, <1>6, LastStays
<1>9. QED
    BY <1>5, <1>6, <1>7, <1>8 DEF SqlInv

LEMMA SqlNextInv == SqlInv /\ (Sql!Next \/ UNCHANGED sqlVars) => SqlInv'
<1> SUFFICES ASSUME SqlInv, Sql!Next \/ UNCHANGED sqlVars PROVE SqlInv'
    OBVIOUS
<1>1. CASE UNCHANGED sqlVars
    BY <1>1 DEF sqlVars, SqlInv, SqlTypeOK, OpenInv, HandleInv, IdleInv, LastInv,
       StatementNamesItsDatabase, Sql!StatementNamesItsDatabase
<1>2. ASSUME NEW g \in Goroutines, NEW h \in DOMAIN handles,
             Sql!DBCalls(g, h) \/ Sql!ConnCalls(g, h) \/ Sql!TxCalls(g, h) \/ Sql!StmtCalls(g, h)
      PROVE  SqlInv'
    <2>1. \/ Sql!Statement(g, h) \/ Sql!Raw(g, h)
          \/ \E kind \in {"conn", "tx", "stmt"} : Sql!Derive(g, h, kind)
          \/ \E s \in DOMAIN handles : Sql!StmtContext(h, s)
        BY <1>2 DEF Sql!DBCalls, Sql!ConnCalls, Sql!TxCalls, Sql!StmtCalls
    <2>2. QED
        BY <2>1, StatementKeeps, RawKeeps, DeriveKeeps, StmtContextKeeps
<1>3. ASSUME NEW g \in Goroutines, NEW d \in Databases,
             Sql!OpenBegin(g, d) \/ Sql!ParseDSNAlone(g, d)
      PROVE  SqlInv'
    BY <1>3, OpenBeginKeeps, PublishKeeps
<1>4. ASSUME NEW g \in Goroutines, Sql!ParseDSN(g) PROVE SqlInv'
    <2>1. PICK n : n = Len(opens[g])
        OBVIOUS
    <2>2. n \in 1..n
        BY <1>4, <2>1, SqlTypes, EmptySeq DEF Sql!ParseDSN
    <2>3. opens[g][n] \in Opens
        BY <2>1, <2>2, SqlTypes, ElementOfSeq
    <2>4. QED
        BY <1>4, <2>3, PublishKeeps DEF Opens
<1>5. ASSUME NEW g \in Goroutines, NEW failed \in BOOLEAN, Sql!OpenEnd(g, failed) PROVE SqlInv'
    BY <1>5, OpenEndKeeps
<1>6. QED
    BY <1>1, <1>2, <1>3, <1>4, <1>5 DEF Sql!Next

\* Open, ParseDSN and the calls on handles: with any number of databases, goroutines and
\* Opens side by side and along any chain of handles, the span of a statement names the
\* database it ran on exactly if the driver told its address.
THEOREM StatementsNameTheirDatabase == SkyWalkingSpec => []StatementNamesItsDatabase
<1>1. SkyWalkingInit => SqlInv
    BY SqlInitInv DEF SkyWalkingInit
<1>2. SqlInv /\ [SkyWalkingNext]_<<hooks, vars, callVars, streamVars, sqlVars, mongoVars, socketVars>>
          => SqlInv'
    <2>1. SkyWalkingNext
              \/ UNCHANGED <<hooks, vars, callVars, streamVars, sqlVars, mongoVars, socketVars>>
          => Sql!Next \/ UNCHANGED sqlVars
        BY DEF SkyWalkingNext
    <2>2. QED
        BY <2>1, SqlNextInv
<1>3. SqlInv => StatementNamesItsDatabase
    BY DEF SqlInv, LastInv
<1>4. QED
    BY <1>1, <1>2, <1>3, PTL DEF SkyWalkingSpec

-----------------------------------------------------------------------------
(* gRPC client streams: their exit spans, and who finishes them.            *)

LEMMA StreamsContext ==
    /\ Streams!Empty(Streams!All) = Empty(Streams!All)
    /\ \A t, g, kind, name : Streams!Create(t, g, kind, name) = Create(t, g, kind, name)
    /\ \A t, g, i : Streams!EndSpan(t, g, i) = EndSpan(t, g, i)
    /\ \A t, g : Streams!ActiveSpan(t, g) = t.act[g].span
    /\ \A t, i : Streams!PrepareAsync(t, i) = PrepareAsync(t, i)
    /\ \A t, i : Streams!AsyncFinish(t, i) = AsyncFinish(t, i)
    /\ \A t, i : Streams!Reported(t, i) <=> Reported(t, i)
    /\ \A t, g : Streams!CaptureContext(t, g) = CaptureContext(t, g)
    /\ \A t, g, c : Streams!ContinueContext(t, g, c) = ContinueContext(t, g, c)
    /\ \A t, g, k : Streams!newproc1(t, g, k) = ContinueContext(t, k, CaptureContext(t, g))
BY DEF Streams!Empty, Empty, Streams!Create, Create, Streams!EndSpan, EndSpan,
   Streams!ActiveSpan, Streams!NoContext, NoContext, Streams!NoSpan, NoSpan, Streams!Reuses,
   Reuses, Streams!PrepareAsync, PrepareAsync, Streams!AsyncFinish, AsyncFinish,
   Streams!Reported, Reported, Streams!CaptureContext, CaptureContext,
   Streams!ContinueContext, ContinueContext, Streams!newproc1

StreamNames == {"app", "stream", "SendMsg", "RecvMsg", "CloseSend", "CloseRecv"}
StreamTracings == Tracings(Streams!All, StreamNames)
StreamResults == {"clientStream", "wrapped", "failed"}
Verdicts == {"no", "received", "unread"}
StreamData == [span : Nat, result : StreamResults, continueSnapShot : Contexts,
               endSnapShot : Contexts, interceptFinish : BOOLEAN, received : BOOLEAN,
               over : Verdicts, finishes : Nat]
StreamOps == {"SendMsg", "RecvMsg", "CloseSend"}
StreamCalls == [op : {"none", "over"} \cup StreamOps, stream : Nat, span : Nat]

StreamsTypeOK ==
    /\ swStreams \in StreamTracings
    /\ streams \in Seq(StreamData) /\ Len(streams) <= MaxStreams
    /\ call \in [Streams!All -> StreamCalls]
    /\ fin \in SUBSET (Streams!All \X (1..Len(streams)))

\* A context that its goroutine can end or share holds a local span.
LocalIn(t, c) == Passive(c) \/ (c.span \in 1..Len(t.log) /\ t.log[c.span].kind = "local")
LocalContexts(t) ==
    /\ \A g \in Streams!All : LocalIn(t, t.act[g])
    /\ \A i \in 1..Len(t.log) : LocalIn(t, t.log[i].parent)

SnapshotInv ==
    \A s \in 1..Len(streams) :
        Passive(streams[s].continueSnapShot) /\ Passive(streams[s].endSnapShot)

\* A call under way has a local span and a stream.
CallOK(c) ==
    c.op # "none" => /\ c.op \in StreamOps /\ c.stream \in 1..Len(streams)
                     /\ c.span \in 1..Len(swStreams.log)
                     /\ swStreams.log[c.span].kind = "local"
CallInv == \A g \in Goroutines : CallOK(call[g])

Finishing(s) == \E g \in Streams!All : <<g, s>> \in fin
Finished(s) == swStreams.log[streams[s].span].async = "finished"

\* The span of a stream has ended and waits to be finished; once the stream is over, or
\* was read and is disarmed, it has been or is about to be.
StreamOK(s) ==
    /\ streams[s].span \in 1..Len(swStreams.log)
    /\ swStreams.log[streams[s].span].kind = "exit"
    /\ swStreams.log[streams[s].span].depth = 0
    /\ swStreams.log[streams[s].span].async \in {"prepared", "finished"}
    /\ streams[s].interceptFinish => streams[s].result = "clientStream" /\ streams[s].received
    /\ streams[s].over = "received" => streams[s].received
    /\ Finished(s) => streams[s].over = "received" /\ streams[s].result = "clientStream"
    /\ (/\ streams[s].result = "clientStream" /\ streams[s].received
        /\ streams[s].over = "received" \/ ~streams[s].interceptFinish)
       => Finished(s) \/ Finishing(s)
StreamInv == \A s \in 1..Len(streams) : StreamOK(s)

\* finish works on a stream that has data and was read; no two streams share a span.
FinInv ==
    \A g \in Streams!All, s \in 1..Len(streams) :
        <<g, s>> \in fin => streams[s].over = "received" /\ streams[s].result = "clientStream"
OwnSpanInv ==
    \A r, s \in 1..Len(streams) : streams[r].span = streams[s].span => r = s

StreamsInv ==
    /\ StreamsTypeOK /\ LocalContexts(swStreams) /\ SnapshotInv /\ CallInv
    /\ StreamInv /\ FinInv /\ OwnSpanInv

LEMMA StreamTypes ==
    ASSUME StreamsInv
    PROVE  /\ streams \in Seq(StreamData) /\ Len(streams) \in Nat
           /\ DOMAIN streams = 1..Len(streams)
           /\ \A s \in 1..Len(streams) : streams[s] \in StreamData
           /\ swStreams \in StreamTracings /\ Len(swStreams.log) \in Nat
           /\ \A g \in Goroutines : g \in Streams!All
BY LenProperties, TracingTypes DEF StreamsInv, StreamsTypeOK, StreamTracings, Streams!All

LEMMA StreamsInitInv == Streams!Init => StreamsInv
<1> SUFFICES ASSUME Streams!Init PROVE StreamsInv
    OBVIOUS
<1>1. /\ swStreams \in StreamTracings /\ swStreams.log = <<>>
      /\ \A g \in Streams!All : swStreams.act[g] = NoContext
    BY StreamsContext, EmptyTyped DEF Streams!Init, StreamTracings
<1>2. streams = <<>> /\ fin = {} /\ \A g \in Streams!All : call[g] = Streams!Idle
    BY DEF Streams!Init
<1>3. call \in [Streams!All -> StreamCalls]
    BY DEF Streams!Init, Streams!Idle, StreamCalls
<1>4. StreamsTypeOK
    BY <1>1, <1>2, <1>3, WatchersAssumption DEF StreamsTypeOK
<1>5. LocalContexts(swStreams)
    BY <1>1 DEF LocalContexts, LocalIn, Passive, NoContext
<1>6. CallInv
    BY <1>2 DEF CallInv, CallOK, Streams!Idle, Streams!All
<1>7. QED
    BY <1>2, <1>4, <1>5, <1>6 DEF StreamsInv, SnapshotInv, StreamInv, FinInv, OwnSpanInv

-----------------------------------------------------------------------------
(* What a step does to the contexts.                                        *)

\* Spans keep their kind, and exit spans their end.
ExitsStay(t, u) ==
    /\ Len(t.log) <= Len(u.log)
    /\ \A i \in 1..Len(t.log) :
          /\ u.log[i].kind = t.log[i].kind
          /\ t.log[i].kind = "exit" => u.log[i].depth = t.log[i].depth
                                       /\ u.log[i].async = t.log[i].async

LEMMA LocalStays ==
    ASSUME NEW t \in StreamTracings, NEW u \in StreamTracings, ExitsStay(t, u), NEW c, LocalIn(t, c)
    PROVE  LocalIn(u, c)
BY TracingTypes DEF LocalIn, ExitsStay, StreamTracings

LEMMA StaysTwice ==
    ASSUME NEW t \in StreamTracings, NEW u \in StreamTracings, NEW v \in StreamTracings,
           ExitsStay(t, u), ExitsStay(u, v)
    PROVE  ExitsStay(t, v)
BY TracingTypes, SMTT(30) DEF ExitsStay, StreamTracings

LEMMA LocalCreated ==
    ASSUME NEW t \in StreamTracings, LocalContexts(t), NEW g \in Streams!All,
           NEW name \in StreamNames, NEW u, u = Create(t, g, "local", name)
    PROVE  /\ u \in StreamTracings /\ LocalContexts(u) /\ ExitsStay(t, u)
           /\ u.act[g].span \in 1..Len(u.log) /\ u.log[u.act[g].span].kind = "local"
<1>1. t \in Tracings(Streams!All, StreamNames) /\ ~Reuses(t, g, "local") /\ "local" \in SpanKinds
      /\ Len(t.log) \in Nat /\ t.act[g] \in Contexts
    BY TracingTypes DEF StreamTracings, Reuses, SpanKinds
<1>2. /\ u \in StreamTracings /\ Len(u.log) = Len(t.log) + 1
      /\ \A i \in 1..Len(t.log) : u.log[i] = t.log[i]
      /\ u.log[Len(u.log)] = [kind |-> "local", name |-> name,
                              parent |-> IF t.act[g] = NoContext THEN NoSpan ELSE t.act[g],
                              depth |-> 1, async |-> "no"]
      /\ u.act[g] = [span |-> Len(u.log), snap |-> FALSE]
      /\ \A h \in Streams!All : h # g => u.act[h] = t.act[h]
    BY <1>1, CreateMakes DEF StreamTracings
<1>3. /\ u.log[Len(u.log)].kind = "local" /\ u.act[g].span = Len(u.log)
      /\ u.log[Len(u.log)].parent = IF t.act[g] = NoContext THEN NoSpan ELSE t.act[g]
      /\ Len(u.log) \in 1..Len(u.log)
    BY <1>1, <1>2
<1>4. ExitsStay(t, u)
    BY <1>1, <1>2 DEF ExitsStay
<1>5. LocalIn(u, u.act[g])
    BY <1>3 DEF LocalIn
<1>6. \A h \in Streams!All : LocalIn(u, u.act[h])
    BY <1>2, <1>4, <1>5, LocalStays DEF LocalContexts
<1>7. LocalIn(u, u.log[Len(u.log)].parent)
    <2>1. LocalIn(t, NoSpan) /\ LocalIn(t, t.act[g])
        BY DEF LocalIn, Passive, NoSpan, LocalContexts
    <2>2. QED
        BY <1>2, <1>3, <1>4, <2>1, LocalStays
<1>8. \A i \in 1..Len(u.log) : LocalIn(u, u.log[i].parent)
    <2>1. \A i \in 1..Len(t.log) : LocalIn(u, u.log[i].parent)
        BY <1>2, <1>4, LocalStays DEF LocalContexts
    <2>2. \A i \in 1..Len(u.log) : i = Len(u.log) \/ i \in 1..Len(t.log)
        BY <1>1, <1>2
    <2>3. QED
        BY <1>7, <2>1, <2>2
<1>9. QED
    BY <1>2, <1>3, <1>4, <1>6, <1>8 DEF LocalContexts

LEMMA LocalEnded ==
    ASSUME NEW t \in StreamTracings, LocalContexts(t), NEW g \in Streams!All,
           NEW i \in 1..Len(t.log), t.log[i].kind = "local", NEW u, u = EndSpan(t, g, i)
    PROVE  u \in StreamTracings /\ LocalContexts(u) /\ ExitsStay(t, u)
<1>1. t \in Tracings(Streams!All, StreamNames) /\ Len(t.log) \in Nat
    BY TracingTypes DEF StreamTracings
<1>2. /\ u \in StreamTracings /\ Len(u.log) = Len(t.log)
      /\ \A j \in 1..Len(t.log) : j # i => u.log[j] = t.log[j]
      /\ SameSpan(u.log[i], t.log[i])
      /\ u.act[g] = IF t.log[i].depth > 1 \/ t.act[g] = NoContext THEN t.act[g]
                    ELSE t.log[i].parent
      /\ \A h \in Streams!All : h # g => u.act[h] = t.act[h]
    BY <1>1, EndSpanEnds DEF StreamTracings
<1>3. \A j \in 1..Len(t.log) : u.log[j].kind = t.log[j].kind /\ u.log[j].parent = t.log[j].parent
    BY <1>2 DEF SameSpan
<1>4. ExitsStay(t, u)
    BY <1>1, <1>2, <1>3 DEF ExitsStay
<1>5. LocalIn(t, u.act[g])
    BY <1>2 DEF LocalContexts
<1>6. \A h \in Streams!All : LocalIn(u, u.act[h])
    BY <1>2, <1>4, <1>5, LocalStays DEF LocalContexts
<1>7. \A j \in 1..Len(u.log) : LocalIn(u, u.log[j].parent)
    BY <1>2, <1>3, <1>4, LocalStays DEF LocalContexts
<1>8. QED
    BY <1>2, <1>4, <1>6, <1>7 DEF LocalContexts

LEMMA PassiveSet ==
    ASSUME NEW t \in StreamTracings, LocalContexts(t), NEW g \in Streams!All,
           NEW c \in Contexts, Passive(c), NEW u, u = ContinueContext(t, g, c)
    PROVE  u \in StreamTracings /\ LocalContexts(u) /\ ExitsStay(t, u)
<1>1. t \in Tracings(Streams!All, StreamNames) /\ Len(t.log) \in Nat
    BY TracingTypes DEF StreamTracings
<1>2. /\ u \in StreamTracings /\ u.log = t.log /\ u.act[g] = c
      /\ \A h \in Streams!All : h # g => u.act[h] = t.act[h]
    BY <1>1, ContextSet DEF StreamTracings
<1>3. QED
    BY <1>1, <1>2 DEF LocalContexts, LocalIn, ExitsStay

-----------------------------------------------------------------------------
(* The steps that leave finish alone, but for RecvMsg, which arms it.       *)

Armed(s) ==
    /\ streams'[s].span = streams[s].span /\ streams'[s].result = streams[s].result
    /\ streams'[s].over = streams[s].over
    /\ streams'[s].continueSnapShot = streams[s].continueSnapShot
    /\ streams'[s].endSnapShot = streams[s].endSnapShot
    /\ \/ streams'[s] = streams[s]
       \/ /\ streams'[s].received
          /\ streams'[s].interceptFinish <=> streams[s].result = "clientStream"

LEMMA StreamsArmed ==
    ASSUME StreamsInv, swStreams' \in StreamTracings, LocalContexts(swStreams)',
           ExitsStay(swStreams, swStreams'), UNCHANGED fin,
           streams' \in Seq(StreamData), Len(streams') = Len(streams),
           \A s \in 1..Len(streams) : Armed(s),
           call' \in [Streams!All -> StreamCalls],
           \A g \in Goroutines : call'[g] = call[g] \/ CallOK(call[g])'
    PROVE  StreamsInv'
<1>1. Len(streams) \in Nat /\ Len(swStreams.log) \in Nat /\ Len(swStreams'.log) \in Nat
    BY StreamTypes, TracingTypes DEF StreamTracings
<1>2. StreamsTypeOK'
    BY DEF StreamsInv, StreamsTypeOK
<1>3. SnapshotInv' /\ OwnSpanInv' /\ FinInv'
    BY SMTT(30) DEF StreamsInv, SnapshotInv, OwnSpanInv, FinInv, Armed
<1>4. ASSUME NEW g \in Goroutines PROVE CallOK(call[g])'
    <2>1. CASE call'[g] = call[g]
        <3>1. CallOK(call[g])
            BY DEF StreamsInv, CallInv
        <3>2. CASE call[g].op = "none"
            BY <2>1, <3>2 DEF CallOK
        <3>3. CASE call[g].op # "none"
            <4>1. call[g].span \in 1..Len(swStreams'.log)
                BY <1>1, <3>1, <3>3 DEF CallOK, ExitsStay
            <4>2. swStreams'.log[call[g].span].kind = "local"
                BY <3>1, <3>3 DEF CallOK, ExitsStay
            <4>3. QED
                BY <2>1, <3>1, <3>3, <4>1, <4>2 DEF CallOK
        <3>4. QED
            BY <3>2, <3>3
    <2>2. QED
        BY <2>1
<1>5. ASSUME NEW s \in 1..Len(streams) PROVE StreamOK(s)'
    <2>1. StreamOK(s) /\ Armed(s)
        BY DEF StreamsInv, StreamInv
    <2>2. PICK i \in 1..Len(swStreams.log) : i = streams[s].span /\ i = streams'[s].span
        BY <2>1 DEF StreamOK, Armed
    <2>3. /\ i \in 1..Len(swStreams'.log)
          /\ swStreams'.log[i].kind = swStreams.log[i].kind
          /\ swStreams'.log[i].depth = swStreams.log[i].depth
          /\ swStreams'.log[i].async = swStreams.log[i].async
        BY <1>1, <2>1, <2>2, SMTT(30) DEF ExitsStay, StreamOK
    <2>4. (Finished(s)' <=> Finished(s)) /\ (Finishing(s)' <=> Finishing(s))
        BY <2>2, <2>3 DEF Finished, Finishing
    <2>5. streams'[s].received \in BOOLEAN /\ streams[s].received \in BOOLEAN
        <3>1. streams[s] \in StreamData /\ s \in 1..Len(streams')
            BY StreamTypes
        <3>2. streams'[s] \in StreamData
            BY <3>1, ElementOfSeq
        <3>3. QED
            BY <3>1, <3>2 DEF StreamData
    <2>6. CASE streams'[s] = streams[s]
        BY <2>1, <2>2, <2>3, <2>4, <2>6 DEF StreamOK
    <2>7. CASE /\ streams'[s].received
               /\ streams'[s].interceptFinish <=> streams[s].result = "clientStream"
        BY <2>1, <2>2, <2>3, <2>4, <2>7 DEF StreamOK, Armed
    <2>8. QED
        BY <2>1, <2>6, <2>7 DEF Armed
<1>6. QED
    BY <1>2, <1>3, <1>4, <1>5 DEF StreamsInv, StreamInv, CallInv

LEMMA StreamsKept ==
    ASSUME StreamsInv, UNCHANGED streams
    PROVE  /\ streams' \in Seq(StreamData) /\ Len(streams') = Len(streams)
           /\ \A s \in 1..Len(streams) : Armed(s)
BY StreamTypes DEF Armed


LEMMA AppStartKeeps ==
    ASSUME StreamsInv, NEW g \in Goroutines, Streams!AppStart(g)
    PROVE  StreamsInv'
<1>1. /\ g \in Streams!All /\ "app" \in StreamNames /\ swStreams \in StreamTracings
      /\ LocalContexts(swStreams)
    BY StreamTypes DEF StreamNames, StreamsInv
<1>2. /\ swStreams' = Create(swStreams, g, "local", "app") /\ UNCHANGED <<streams, call, fin>>
    BY StreamsContext DEF Streams!AppStart
<1>3. swStreams' \in StreamTracings /\ LocalContexts(swStreams') /\ ExitsStay(swStreams, swStreams')
    BY <1>1, <1>2, LocalCreated
<1>4. call' \in [Streams!All -> StreamCalls] /\ \A k \in Goroutines : call'[k] = call[k]
    BY <1>2 DEF StreamsInv, StreamsTypeOK
<1>5. QED
    BY <1>2, <1>3, <1>4, StreamsKept, StreamsArmed DEF LocalContexts

LEMMA AppEndKeeps ==
    ASSUME StreamsInv, NEW g \in Goroutines, Streams!AppEnd(g)
    PROVE  StreamsInv'
<1>1. /\ g \in Streams!All /\ swStreams \in StreamTracings /\ LocalContexts(swStreams)
    BY StreamTypes DEF StreamsInv
<1>2. PICK i : i = swStreams.act[g].span
    OBVIOUS
<1>3. /\ i # 0 /\ ~swStreams.act[g].snap /\ swStreams' = EndSpan(swStreams, g, i)
      /\ UNCHANGED <<streams, call, fin>>
    BY <1>2, StreamsContext DEF Streams!AppEnd
<1>4. i \in 1..Len(swStreams.log) /\ swStreams.log[i].kind = "local"
    BY <1>1, <1>2, <1>3 DEF LocalContexts, LocalIn, Passive
<1>5. swStreams' \in StreamTracings /\ LocalContexts(swStreams') /\ ExitsStay(swStreams, swStreams')
    BY <1>1, <1>3, <1>4, LocalEnded
<1>6. call' \in [Streams!All -> StreamCalls] /\ \A k \in Goroutines : call'[k] = call[k]
    BY <1>3 DEF StreamsInv, StreamsTypeOK
<1>7. QED
    BY <1>3, <1>5, <1>6, StreamsKept, StreamsArmed DEF LocalContexts

\* A call begins, on the stream's context if that has data.
LEMMA Begun ==
    ASSUME StreamsInv, NEW g \in Goroutines, NEW s \in 1..Len(streams), NEW op \in StreamOps,
           NEW t, t = swStreams \/ t = Streams!Continued(g, s), Streams!Begin(t, g, s, op),
           UNCHANGED fin,
           streams' \in Seq(StreamData), Len(streams') = Len(streams),
           \A r \in 1..Len(streams) : Armed(r)
    PROVE  StreamsInv'
<1>1. /\ g \in Streams!All /\ op \in StreamNames /\ swStreams \in StreamTracings
      /\ LocalContexts(swStreams) /\ Len(swStreams.log) \in Nat
      /\ call \in [Streams!All -> StreamCalls]
    BY StreamTypes DEF StreamNames, StreamOps, StreamsInv, StreamsTypeOK
<1>2. t \in StreamTracings /\ LocalContexts(t) /\ ExitsStay(swStreams, t)
    <2>1. PICK c : c = streams[s].continueSnapShot
        OBVIOUS
    <2>2. c \in Contexts /\ Passive(c)
        BY <2>1, StreamTypes DEF StreamData, StreamsInv, SnapshotInv
    <2>3. t = swStreams \/ t = ContinueContext(swStreams, g, c)
        BY <2>1, StreamsContext DEF Streams!Continued
    <2>4. CASE t = swStreams
        BY <1>1, <2>4 DEF ExitsStay
    <2>5. CASE t = ContinueContext(swStreams, g, c)
        BY <1>1, <2>2, <2>5, PassiveSet
    <2>6. QED
        BY <2>3, <2>4, <2>5
<1>3. PICK u : u = Create(t, g, "local", op)
    OBVIOUS
<1>4. /\ u \in StreamTracings /\ LocalContexts(u) /\ ExitsStay(t, u)
      /\ u.act[g].span \in 1..Len(u.log) /\ u.log[u.act[g].span].kind = "local"
    BY <1>1, <1>2, <1>3, LocalCreated
<1>5. ExitsStay(swStreams, u)
    BY <1>1, <1>2, <1>4, StaysTwice
<1>6. PICK e : e = [op |-> op, stream |-> s, span |-> u.act[g].span]
    OBVIOUS
<1>7. swStreams' = u /\ call' = [call EXCEPT ![g] = e]
    BY <1>3, <1>6, StreamsContext DEF Streams!Begin
<1>8. Len(u.log) \in Nat /\ s \in Nat
    BY <1>4, TracingTypes, StreamTypes DEF StreamTracings
<1>9. e \in StreamCalls
    BY <1>4, <1>6, <1>8 DEF StreamCalls
<1>10. /\ call' \in [Streams!All -> StreamCalls] /\ call'[g] = e
       /\ \A k \in Streams!All : k # g => call'[k] = call[k]
    BY <1>1, <1>7, <1>9
<1>11. CallOK(call[g])'
    BY <1>4, <1>6, <1>7, <1>10 DEF CallOK
<1>12. \A k \in Goroutines : call'[k] = call[k] \/ CallOK(call[k])'
    BY <1>10, <1>11, StreamTypes
<1>13. swStreams' \in StreamTracings /\ LocalContexts(swStreams') /\ ExitsStay(swStreams, swStreams')
    BY <1>4, <1>5, <1>7
<1>14. QED
    BY <1>10, <1>12, <1>13, StreamsArmed DEF LocalContexts

LEMMA SendOrCloseKeeps ==
    ASSUME StreamsInv, NEW g \in Goroutines, NEW s \in 1..Len(streams),
           Streams!SendMsg(g, s) \/ Streams!CloseSend(g, s)
    PROVE  StreamsInv'
<1>1. UNCHANGED <<streams, fin>> /\ "SendMsg" \in StreamOps /\ "CloseSend" \in StreamOps
    BY DEF Streams!SendMsg, Streams!CloseSend, StreamOps
<1>2. \/ Streams!Begin(Streams!Continued(g, s), g, s, "SendMsg")
      \/ Streams!Begin(swStreams, g, s, "CloseSend")
    BY DEF Streams!SendMsg, Streams!CloseSend
<1>3. QED
    BY <1>1, <1>2, StreamsKept, Begun

LEMMA RecvMsgKeeps ==
    ASSUME StreamsInv, NEW g \in Goroutines, NEW s \in 1..Len(streams), Streams!RecvMsg(g, s)
    PROVE  StreamsInv'
<1>1. /\ "RecvMsg" \in StreamOps /\ UNCHANGED fin
      /\ Streams!Begin(Streams!Continued(g, s), g, s, "RecvMsg")
    BY DEF Streams!RecvMsg, StreamOps
<1>2. PICK e : e = [streams[s] EXCEPT !.interceptFinish = (streams[s].result = "clientStream"),
                                      !.received = TRUE]
    OBVIOUS
<1>3. streams[s] \in StreamData /\ DOMAIN streams = 1..Len(streams) /\ streams \in Seq(StreamData)
    BY StreamTypes
<1>4. /\ e \in StreamData /\ e.span = streams[s].span /\ e.result = streams[s].result
      /\ e.over = streams[s].over /\ e.continueSnapShot = streams[s].continueSnapShot
      /\ e.endSnapShot = streams[s].endSnapShot /\ e.received
      /\ (e.interceptFinish <=> streams[s].result = "clientStream")
    BY <1>2, <1>3 DEF StreamData
<1>5. streams' = [streams EXCEPT ![s] = e]
    BY <1>2, <1>3 DEF Streams!RecvMsg, Streams!HasData
<1>6. /\ streams' \in Seq(StreamData) /\ Len(streams') = Len(streams) /\ streams'[s] = e
      /\ \A r \in 1..Len(streams) : r # s => streams'[r] = streams[r]
    BY <1>3, <1>4, <1>5, ExceptSeq
<1>7. \A r \in 1..Len(streams) : Armed(r)
    BY <1>4, <1>6 DEF Armed
<1>8. QED
    BY <1>1, <1>6, <1>7, Begun

LEMMA ReturnKeeps ==
    ASSUME StreamsInv, NEW g \in Goroutines, Streams!Return(g)
    PROVE  StreamsInv'
<1>1. /\ g \in Streams!All /\ swStreams \in StreamTracings /\ LocalContexts(swStreams)
      /\ call \in [Streams!All -> StreamCalls]
    BY StreamTypes DEF StreamsInv, StreamsTypeOK
<1>2. PICK i, s : i = call[g].span /\ s = call[g].stream
    OBVIOUS
<1>3. s \in 1..Len(streams) /\ i \in 1..Len(swStreams.log) /\ swStreams.log[i].kind = "local"
    BY <1>2 DEF Streams!Return, StreamsInv, CallInv, CallOK
<1>4. PICK t : t = EndSpan(swStreams, g, i)
    OBVIOUS
<1>5. t \in StreamTracings /\ LocalContexts(t) /\ ExitsStay(swStreams, t)
    BY <1>1, <1>3, <1>4, LocalEnded
<1>6. PICK c : c = streams[s].endSnapShot
    OBVIOUS
<1>7. c \in Contexts /\ Passive(c)
    BY <1>3, <1>6, StreamTypes DEF StreamData, StreamsInv, SnapshotInv
<1>8. swStreams' = t \/ swStreams' = ContinueContext(t, g, c)
    BY <1>2, <1>4, <1>6, StreamsContext DEF Streams!Return
<1>9. swStreams' \in StreamTracings /\ LocalContexts(swStreams') /\ ExitsStay(swStreams, swStreams')
    <2>1. CASE swStreams' = t
        BY <1>5, <2>1
    <2>2. CASE swStreams' = ContinueContext(t, g, c)
        BY <1>1, <1>5, <1>7, <2>2, PassiveSet, StaysTwice
    <2>3. QED
        BY <1>8, <2>1, <2>2
<1>10. call' = [call EXCEPT ![g] = Streams!Idle] /\ UNCHANGED <<streams, fin>>
    BY DEF Streams!Return
<1>11. Streams!Idle \in StreamCalls /\ Streams!Idle.op = "none"
    BY DEF Streams!Idle, StreamCalls
<1>12. /\ call' \in [Streams!All -> StreamCalls]
       /\ \A k \in Goroutines : call'[k] = call[k] \/ CallOK(call[k])'
    BY <1>1, <1>10, <1>11, StreamTypes DEF CallOK
<1>13. QED
    BY <1>9, <1>10, <1>12, StreamsKept, StreamsArmed DEF LocalContexts

-----------------------------------------------------------------------------
(* A new stream: the exit span is its own, is set aside, and has ended.     *)

\* What NewStream leaves of the tracing context: a span of its own at the end of the log.
SpanAdded(t, u) ==
    /\ Len(u.log) = Len(t.log) + 1
    /\ \A i \in 1..Len(t.log) : u.log[i] = t.log[i]
    /\ u.log[Len(u.log)].kind = "exit" /\ u.log[Len(u.log)].depth = 0
    /\ u.log[Len(u.log)].async = "prepared"

\* t2 has the span set aside; t3 and t4 have it ended, without and with a watcher w.
SetsAside(t, g, w, t2, t3, t4) ==
    /\ t2 = PrepareAsync(Create(t, g, "exit", "stream"),
                         Create(t, g, "exit", "stream").act[g].span)
    /\ t3 = EndSpan(t2, g, Len(t.log) + 1)
    /\ t4 = EndSpan(ContinueContext(t2, w, CaptureContext(t2, g)), g, Len(t.log) + 1)

LEMMA SpanSetAside ==
    ASSUME NEW t \in StreamTracings, LocalContexts(t), NEW g \in Streams!All,
           NEW w \in Streams!All, w # g, NEW t2, NEW t3, NEW t4,
           SetsAside(t, g, w, t2, t3, t4)
    PROVE  /\ Create(t, g, "exit", "stream").act[g].span = Len(t.log) + 1
           /\ t2 \in StreamTracings
           /\ t3 \in StreamTracings /\ LocalContexts(t3) /\ SpanAdded(t, t3)
           /\ t4 \in StreamTracings /\ LocalContexts(t4) /\ SpanAdded(t, t4)
<1>1. /\ t \in Tracings(Streams!All, StreamNames) /\ Len(t.log) \in Nat /\ t.act[g] \in Contexts
      /\ "exit" \in SpanKinds /\ "stream" \in StreamNames
    BY TracingTypes DEF StreamTracings, SpanKinds, StreamNames
<1>2. ~Reuses(t, g, "exit")
    BY DEF Reuses, LocalContexts, LocalIn, Passive
<1>3. PICK n, t1, p : /\ n = Len(t.log) + 1 /\ t1 = Create(t, g, "exit", "stream")
                      /\ p = (IF t.act[g] = NoContext THEN NoSpan ELSE t.act[g])
    OBVIOUS
<1>4. /\ t1 \in StreamTracings /\ Len(t1.log) = n /\ t1.act[g].span = n
      /\ \A i \in 1..Len(t.log) : t1.log[i] = t.log[i]
      /\ t1.log[n].kind = "exit" /\ t1.log[n].depth = 1 /\ t1.log[n].parent = p
      /\ \A h \in Streams!All : h # g => t1.act[h] = t.act[h]
    <2>1. PICK r : r = [kind |-> "exit", name |-> "stream", parent |-> p, depth |-> 1,
                        async |-> "no"]
        OBVIOUS
    <2>2. /\ t1 \in StreamTracings /\ Len(t1.log) = n
          /\ \A i \in 1..Len(t.log) : t1.log[i] = t.log[i]
          /\ t1.log[Len(t1.log)] = r
          /\ t1.act[g] = [span |-> Len(t1.log), snap |-> FALSE]
          /\ \A h \in Streams!All : h # g => t1.act[h] = t.act[h]
        BY <1>1, <1>2, <1>3, <2>1, CreateMakes DEF StreamTracings
    <2>3. t1.log[n] = r /\ t1.act[g].span = n
        BY <2>2
    <2>4. r.kind = "exit" /\ r.depth = 1 /\ r.parent = p
        BY <2>1
    <2>5. QED
        BY <2>2, <2>3, <2>4
<1>5. n \in 1..Len(t1.log) /\ t2 = PrepareAsync(t1, n)
    <2>1. n \in 1..Len(t1.log)
        BY <1>1, <1>3, <1>4
    <2>2. t1.act[g].span = n /\ t1 = Create(t, g, "exit", "stream")
        BY <1>3, <1>4
    <2>3. QED
        BY <2>1, <2>2 DEF SetsAside
<1>6. /\ t2 \in StreamTracings /\ Len(t2.log) = n /\ t2.act = t1.act
      /\ \A i \in 1..Len(t.log) : t2.log[i] = t.log[i]
      /\ t2.log[n].kind = "exit" /\ t2.log[n].depth = 1 /\ t2.log[n].parent = p
      /\ t2.log[n].async = "prepared"
    <2>1. /\ t2 \in StreamTracings /\ Len(t2.log) = n /\ t2.act = t1.act
          /\ \A i \in 1..Len(t1.log) : i # n => t2.log[i] = t1.log[i]
          /\ t2.log[n].kind = "exit" /\ t2.log[n].depth = 1 /\ t2.log[n].parent = p
          /\ t2.log[n].async = "prepared"
        BY <1>4, <1>5, SpanPrepared DEF StreamTracings
    <2>2. \A i \in 1..Len(t.log) : i \in 1..Len(t1.log) /\ i # n
        BY <1>1, <1>3, <1>4
    <2>3. QED
        BY <1>4, <2>1, <2>2
<1>7. LocalIn(t, p)
    BY <1>3 DEF LocalContexts, LocalIn, Passive, NoSpan
<1>8. ASSUME NEW v \in StreamTracings, v.log = t2.log,
             \A h \in Streams!All : h # g => v.act[h] = t.act[h] \/ Passive(v.act[h]),
             NEW u, u = EndSpan(v, g, n)
      PROVE  u \in StreamTracings /\ LocalContexts(u) /\ SpanAdded(t, u)
    <2>1. v \in Tracings(Streams!All, StreamNames) /\ n \in 1..Len(v.log)
        <3>1. n \in Nat \ {0} /\ Len(v.log) = n
            BY <1>1, <1>3, <1>6, <1>8
        <3>2. QED
            BY <3>1 DEF StreamTracings
    <2>2. /\ u \in StreamTracings /\ Len(u.log) = Len(v.log)
          /\ \A j \in 1..Len(v.log) : j # n => u.log[j] = v.log[j]
          /\ SameSpan(u.log[n], v.log[n]) /\ u.log[n].depth = 0
          /\ u.act[g] = (IF v.act[g] = NoContext THEN v.act[g] ELSE p)
          /\ \A h \in Streams!All : h # g => u.act[h] = v.act[h]
        <3>1. /\ u \in Tracings(Streams!All, StreamNames) /\ Len(u.log) = Len(v.log)
              /\ \A j \in 1..Len(v.log) : j # n => u.log[j] = v.log[j]
              /\ SameSpan(u.log[n], v.log[n])
              /\ u.log[n].depth = IF v.log[n].depth > 1 THEN v.log[n].depth - 1 ELSE 0
              /\ u.act[g] = IF v.log[n].depth > 1 \/ v.act[g] = NoContext THEN v.act[g]
                            ELSE v.log[n].parent
              /\ \A h \in Streams!All : h # g => u.act[h] = v.act[h]
            BY <1>8, <2>1, EndSpanEnds
        <3>2. v.log[n].depth = 1 /\ v.log[n].parent = p
            BY <1>6, <1>8
        <3>3. u.log[n].depth = 0
            BY <3>1, <3>2
        <3>4. u.act[g] = IF v.act[g] = NoContext THEN v.act[g] ELSE p
            BY <3>1, <3>2
        <3>5. QED
            BY <3>1, <3>3, <3>4 DEF StreamTracings
    <2>3. SpanAdded(t, u)
        <3>1. Len(u.log) = n /\ n = Len(t.log) + 1
            BY <1>3, <1>6, <1>8, <2>2
        <3>2. u.log[n].kind = "exit" /\ u.log[n].depth = 0 /\ u.log[n].async = "prepared"
            BY <1>6, <1>8, <2>2 DEF SameSpan
        <3>3. \A i \in 1..Len(t.log) : i \in 1..n /\ i # n
            BY <1>1, <1>3
        <3>4. ASSUME NEW i \in 1..Len(t.log) PROVE u.log[i] = t.log[i]
            <4>1. i \in 1..Len(v.log) /\ i # n
                BY <1>6, <1>8, <3>3
            <4>2. u.log[i] = v.log[i]
                BY <2>2, <4>1
            <4>3. QED
                BY <1>6, <1>8, <4>2
        <3>5. QED
            BY <3>1, <3>2, <3>4 DEF SpanAdded
    <2>4. ExitsStay(t, u) /\ Len(u.log) = n
        BY <1>1, <1>3, <2>3 DEF SpanAdded, ExitsStay
    <2>5. LocalIn(u, u.act[g]) /\ LocalIn(u, p)
        <3>1. LocalIn(u, p)
            BY <1>7, <2>2, <2>4, LocalStays
        <3>2. LocalIn(u, NoContext)
            BY DEF LocalIn, Passive, NoContext
        <3>3. QED
            BY <2>2, <3>1, <3>2
    <2>6. \A h \in Streams!All : LocalIn(u, u.act[h])
        <3>1. ASSUME NEW h \in Streams!All, h # g PROVE LocalIn(u, u.act[h])
            <4>1. CASE Passive(v.act[h])
                BY <2>2, <3>1, <4>1 DEF LocalIn
            <4>2. CASE v.act[h] = t.act[h]
                BY <2>2, <2>4, <3>1, <4>2, LocalStays DEF LocalContexts
            <4>3. QED
                BY <1>8, <3>1, <4>1, <4>2
        <3>2. QED
            BY <2>5, <3>1
    <2>7. \A i \in 1..Len(u.log) : LocalIn(u, u.log[i].parent)
        <3>1. \A i \in 1..Len(t.log) : LocalIn(u, u.log[i].parent)
            BY <2>2, <2>3, <2>4, LocalStays DEF LocalContexts, SpanAdded
        <3>2. u.log[n].parent = p
            BY <1>6, <1>8, <2>2 DEF SameSpan
        <3>3. \A i \in 1..Len(u.log) : i = n \/ i \in 1..Len(t.log)
            BY <1>1, <1>3, <2>4
        <3>4. QED
            BY <2>5, <3>1, <3>2, <3>3
    <2>8. QED
        BY <2>2, <2>3, <2>6, <2>7 DEF LocalContexts
<1>9. t3 \in StreamTracings /\ LocalContexts(t3) /\ SpanAdded(t, t3)
    <2>1. t3 = EndSpan(t2, g, n)
        BY <1>3 DEF SetsAside
    <2>2. \A h \in Streams!All : h # g => t2.act[h] = t.act[h]
        BY <1>4, <1>6
    <2>3. QED
        BY <1>6, <1>8, <2>1, <2>2
<1>10. PICK c, v : c = CaptureContext(t2, g) /\ v = ContinueContext(t2, w, c)
    OBVIOUS
<1>11. c \in Contexts /\ Passive(c)
    BY <1>6, <1>10, SnapshotIsPassive DEF StreamTracings
<1>12. /\ v \in StreamTracings /\ v.log = t2.log /\ v.act[w] = c
       /\ \A h \in Streams!All : h # w => v.act[h] = t2.act[h]
    <2>1. t2 \in Tracings(Streams!All, StreamNames)
        BY <1>6 DEF StreamTracings
    <2>2. QED
        BY <1>10, <1>11, <2>1, ContextSet DEF StreamTracings
<1>13. t4 \in StreamTracings /\ LocalContexts(t4) /\ SpanAdded(t, t4)
    <2>1. \A h \in Streams!All : h # g => v.act[h] = t.act[h] \/ Passive(v.act[h])
        <3>1. ASSUME NEW h \in Streams!All, h # g, h # w PROVE v.act[h] = t.act[h]
            BY <1>4, <1>6, <1>12, <3>1
        <3>2. Passive(v.act[w])
            BY <1>11, <1>12
        <3>3. QED
            BY <3>1, <3>2
    <2>2. t4 = EndSpan(v, g, n)
        BY <1>3, <1>10 DEF SetsAside
    <2>3. QED
        BY <1>8, <1>12, <2>1, <2>2
<1>14. QED
    BY <1>3, <1>4, <1>6, <1>9, <1>13

LEMMA NewStreamKeeps ==
    ASSUME StreamsInv, NEW g \in Goroutines, NEW result \in StreamResults,
           Streams!NewStream(g, result)
    PROVE  StreamsInv'
<1>1. /\ g \in Streams!All /\ swStreams \in StreamTracings /\ LocalContexts(swStreams)
      /\ Len(swStreams.log) \in Nat /\ Len(streams) \in Nat /\ streams \in Seq(StreamData)
      /\ call \in [Streams!All -> StreamCalls]
      /\ fin \in SUBSET (Streams!All \X (1..Len(streams)))
    BY StreamTypes DEF StreamsInv, StreamsTypeOK
<1>2. PICK n, w : n = Len(streams) + 1 /\ w = Streams!Watcher(Len(streams) + 1)
    OBVIOUS
<1>3. n \in 1..MaxStreams /\ w \in Streams!All /\ w # g
    BY <1>1, <1>2, WatchersAssumption DEF Streams!NewStream, Streams!All
<1>4. PICK t1, t2, t3, t4, i :
          /\ t1 = Create(swStreams, g, "exit", "stream") /\ i = Len(swStreams.log) + 1
          /\ t2 = PrepareAsync(t1, t1.act[g].span) /\ t3 = EndSpan(t2, g, i)
          /\ t4 = EndSpan(ContinueContext(t2, w, CaptureContext(t2, g)), g, i)
    OBVIOUS
<1>5. /\ t1.act[g].span = i /\ t2 \in StreamTracings
      /\ t3 \in StreamTracings /\ LocalContexts(t3) /\ SpanAdded(swStreams, t3)
      /\ t4 \in StreamTracings /\ LocalContexts(t4) /\ SpanAdded(swStreams, t4)
    <2>1. SetsAside(swStreams, g, w, t2, t3, t4)
        BY <1>4 DEF SetsAside
    <2>2. QED
        BY <1>1, <1>3, <1>4, <2>1, SpanSetAside
<1>6. PICK c, d : c = CaptureContext(t2, g) /\ d = CaptureContext(t3, g)
    OBVIOUS
<1>7. c \in Contexts /\ Passive(c) /\ d \in Contexts /\ Passive(d)
    BY <1>1, <1>5, <1>6, SnapshotIsPassive DEF StreamTracings
<1>8. PICK e : e = [span |-> i, result |-> result, continueSnapShot |-> c,
                    endSnapShot |-> d, interceptFinish |-> FALSE,
                    received |-> FALSE, over |-> "no", finishes |-> 0]
    OBVIOUS
<1>9. e \in StreamData
    BY <1>1, <1>4, <1>7, <1>8 DEF StreamData, Verdicts
<1>10. /\ swStreams' = (IF result = "failed" THEN t3 ELSE t4)
       /\ streams' = Append(streams, e) /\ UNCHANGED <<call, fin>>
    BY <1>2, <1>4, <1>5, <1>6, <1>8, StreamsContext DEF Streams!NewStream
<1>11. /\ swStreams' \in StreamTracings /\ LocalContexts(swStreams')
       /\ SpanAdded(swStreams, swStreams')
    BY <1>5, <1>10
<1>12. /\ streams' \in Seq(StreamData) /\ Len(streams') = n /\ streams'[n] = e
       /\ \A s \in 1..Len(streams) : streams'[s] = streams[s]
       /\ \A s \in 1..n : s = n \/ s \in 1..Len(streams)
    BY <1>1, <1>2, <1>9, <1>10, AppendProperties
<1>13. /\ Len(swStreams'.log) = i
       /\ \A j \in 1..Len(swStreams.log) : j \in 1..i /\ j # i /\ swStreams'.log[j] = swStreams.log[j]
       /\ swStreams'.log[i].kind = "exit" /\ swStreams'.log[i].depth = 0
       /\ swStreams'.log[i].async = "prepared" /\ i \in 1..i
    BY <1>1, <1>4, <1>11 DEF SpanAdded
<1>14. StreamsTypeOK'
    <2>1. 1..Len(streams) \subseteq 1..n
        BY <1>1, <1>2
    <2>2. fin' \in SUBSET (Streams!All \X (1..Len(streams')))
        BY <1>1, <1>10, <1>12, <2>1
    <2>3. QED
        BY <1>1, <1>3, <1>10, <1>11, <1>12, <2>2, WatchersAssumption DEF StreamsTypeOK
<1>15. SnapshotInv'
    BY <1>7, <1>8, <1>12 DEF SnapshotInv, StreamsInv
<1>16. CallInv'
    <2>1. \A s \in 1..Len(streams) : s \in 1..Len(streams')
        BY <1>1, <1>2, <1>12
    <2>2. QED
        BY <1>10, <1>13, <2>1, SMTT(30) DEF CallInv, CallOK, StreamsInv
<1>17. ASSUME NEW s \in 1..n PROVE StreamOK(s)'
    <2>1. CASE s = n
        BY <1>8, <1>12, <1>13, <2>1 DEF StreamOK, Finished, Finishing
    <2>2. CASE s \in 1..Len(streams)
        <3>1. StreamOK(s) /\ streams'[s] = streams[s]
            BY <1>12, <2>2 DEF StreamsInv, StreamInv
        <3>2. streams[s].span \in 1..Len(swStreams.log)
            BY <3>1 DEF StreamOK
        <3>3. (Finished(s)' <=> Finished(s)) /\ (Finishing(s)' <=> Finishing(s))
            BY <1>10, <1>13, <3>1, <3>2, ZenonT(30) DEF Finished, Finishing
        <3>4. QED
            BY <1>13, <3>1, <3>2, <3>3 DEF StreamOK
    <2>3. QED
        BY <1>12, <2>1, <2>2
<1>18. FinInv'
    <2>1. \A k \in Streams!All, s \in 1..n : <<k, s>> \in fin => s \in 1..Len(streams)
        BY <1>1
    <2>2. QED
        BY <1>10, <1>12, <2>1 DEF FinInv, StreamsInv
<1>19. OwnSpanInv'
    <2>1. \A s \in 1..Len(streams) : streams'[s].span = streams[s].span /\ streams[s].span # i
        BY <1>12, <1>13 DEF StreamsInv, StreamInv, StreamOK
    <2>2. streams'[n].span = i
        BY <1>8, <1>12
    <2>3. QED
        BY <1>12, <2>1, <2>2 DEF OwnSpanInv, StreamsInv
<1>20. QED
    BY <1>11, <1>12, <1>14, <1>15, <1>16, <1>17, <1>18, <1>19
       DEF StreamsInv, StreamInv, LocalContexts

-----------------------------------------------------------------------------
(* finish.                                                                  *)

LEMMA FinishKeeps ==
    ASSUME StreamsInv, NEW g \in Streams!All, NEW s \in 1..Len(streams), Streams!Finish(g, s)
    PROVE  StreamsInv'
<1>1. /\ streams \in Seq(StreamData) /\ streams[s] \in StreamData /\ Len(streams) \in Nat
      /\ DOMAIN streams = 1..Len(streams) /\ call \in [Streams!All -> StreamCalls]
      /\ fin \in SUBSET (Streams!All \X (1..Len(streams)))
    BY StreamTypes DEF StreamsInv, StreamsTypeOK
<1>2. StreamOK(s)
    BY DEF StreamsInv, StreamInv
<1>3. PICK verdict : verdict = IF streams[s].received THEN "received" ELSE "unread"
    OBVIOUS
<1>4. PICK e : e = [streams[s] EXCEPT !.interceptFinish = FALSE, !.over = verdict]
    OBVIOUS
<1>5. /\ e \in StreamData /\ e.span = streams[s].span /\ e.result = streams[s].result
      /\ e.over = verdict /\ e.continueSnapShot = streams[s].continueSnapShot
      /\ e.endSnapShot = streams[s].endSnapShot /\ e.received = streams[s].received
      /\ ~e.interceptFinish
    BY <1>1, <1>3, <1>4 DEF StreamData, Verdicts
<1>6. streams' = [streams EXCEPT ![s] = e] /\ UNCHANGED swStreams
    BY <1>1, <1>3, <1>4 DEF Streams!Finish
<1>7. /\ streams' \in Seq(StreamData) /\ Len(streams') = Len(streams) /\ streams'[s] = e
      /\ \A r \in 1..Len(streams) : r # s => streams'[r] = streams[r]
    BY <1>1, <1>5, <1>6, ExceptSeq
<1>8. /\ fin' = IF streams[s].interceptFinish THEN fin \cup {<<g, s>>} ELSE fin
      /\ call' = IF g = Streams!Watcher(s) THEN [call EXCEPT ![g].op = "over"] ELSE call
    BY DEF Streams!Finish
<1>9. fin' \in SUBSET (Streams!All \X (1..Len(streams)))
    BY <1>1, <1>8
<1>10. call' \in [Streams!All -> StreamCalls] /\ \A k \in Goroutines : call'[k] = call[k]
    <2>1. CASE g = Streams!Watcher(s)
        <3>1. PICK c : c = [call[g] EXCEPT !.op = "over"]
            OBVIOUS
        <3>2. c \in StreamCalls
            BY <1>1, <3>1 DEF StreamCalls
        <3>3. call' = [call EXCEPT ![g] = c]
            BY <1>1, <1>8, <2>1, <3>1
        <3>4. g \notin Goroutines
            BY <1>1, <2>1, WatchersAssumption DEF StreamsInv, StreamsTypeOK
        <3>5. QED
            BY <1>1, <3>2, <3>3, <3>4, StreamTypes
    <2>2. CASE g # Streams!Watcher(s)
        BY <1>1, <1>8, <2>2
    <2>3. QED
        BY <2>1, <2>2
<1>11. StreamsTypeOK'
    BY <1>6, <1>7, <1>9, <1>10 DEF StreamsInv, StreamsTypeOK
<1>12. SnapshotInv'
    BY <1>5, <1>7 DEF StreamsInv, SnapshotInv
<1>13. CallInv'
    BY <1>6, <1>7, <1>10 DEF StreamsInv, CallInv, CallOK
<1>14. \A r \in 1..Len(streams) : /\ streams'[r].span = streams[r].span
                                  /\ streams'[r].result = streams[r].result
    BY <1>5, <1>7
<1>15. OwnSpanInv'
    BY <1>7, <1>14 DEF StreamsInv, OwnSpanInv
<1>16. FinInv'
    <2>1. ASSUME NEW k \in Streams!All, NEW r \in 1..Len(streams), <<k, r>> \in fin'
          PROVE  streams'[r].over = "received" /\ streams'[r].result = "clientStream"
        <3>1. CASE <<k, r>> \in fin
            <4>1. streams[r].over = "received" /\ streams[r].result = "clientStream"
                BY <3>1 DEF StreamsInv, FinInv
            <4>2. CASE r = s
                BY <1>2, <1>3, <1>5, <1>7, <4>1, <4>2 DEF StreamOK
            <4>3. QED
                BY <1>7, <4>1, <4>2
        <3>2. CASE <<k, r>> \notin fin
            <4>1. r = s /\ streams[s].interceptFinish
                BY <1>8, <2>1, <3>2
            <4>2. QED
                BY <1>2, <1>3, <1>5, <1>7, <4>1 DEF StreamOK
        <3>3. QED
            BY <3>1, <3>2
    <2>2. QED
        BY <1>7, <2>1 DEF FinInv
<1>17. ASSUME NEW r \in 1..Len(streams) PROVE StreamOK(r)'
    <2>1. StreamOK(r) /\ (Finished(r)' <=> Finished(r)) /\ (Finishing(r) => Finishing(r)')
        BY <1>6, <1>8, <1>14 DEF StreamsInv, StreamInv, Finished, Finishing
    <2>2. CASE r # s
        BY <1>6, <1>7, <2>1, <2>2 DEF StreamOK
    <2>3. CASE r = s
        <3>1. streams[s].interceptFinish => Finishing(s)'
            BY <1>8 DEF Finishing
        <3>2. streams[s].received \in BOOLEAN /\ streams[s].interceptFinish \in BOOLEAN
            BY <1>1 DEF StreamData
        <3>3. streams[s].result = "clientStream" /\ streams[s].received
              => Finished(s) \/ Finishing(s)'
            BY <2>1, <2>3, <3>1, <3>2 DEF StreamOK
        <3>4. Finished(s) => verdict = "received" /\ streams[s].result = "clientStream"
            BY <1>2, <1>3 DEF StreamOK
        <3>5. verdict = "received" => streams[s].received
            BY <1>3, <3>2
        <3>6. QED
            BY <1>2, <1>5, <1>6, <1>7, <2>1, <2>3, <3>3, <3>4, <3>5 DEF StreamOK
    <2>4. QED
        BY <2>2, <2>3
<1>18. QED
    BY <1>6, <1>7, <1>11, <1>12, <1>13, <1>15, <1>16, <1>17
       DEF StreamsInv, StreamInv, LocalContexts

\* A span is renamed.
Renamed(t, i, name) == [t EXCEPT !.log[i].name = name]

LEMMA SpanRenamed ==
    ASSUME NEW G, NEW N, NEW t \in Tracings(G, N), NEW i \in 1..Len(t.log), NEW name \in N,
           NEW u, u = Renamed(t, i, name)
    PROVE  /\ u \in Tracings(G, N) /\ Len(u.log) = Len(t.log) /\ u.act = t.act
           /\ \A j \in 1..Len(t.log) : j # i => u.log[j] = t.log[j]
           /\ u.log[i].kind = t.log[i].kind /\ u.log[i].parent = t.log[i].parent
<1>1. t.log[i] \in Spans(N) /\ i \in DOMAIN t.log /\ t = [log |-> t.log, act |-> t.act]
    BY TracingTypes
<1>2. PICK r : r = [t.log[i] EXCEPT !.name = name]
    OBVIOUS
<1>3. r \in Spans(N) /\ r.kind = t.log[i].kind /\ r.parent = t.log[i].parent
    BY <1>1, <1>2 DEF Spans
<1>4. u = [log |-> [t.log EXCEPT ![i].name = name], act |-> t.act]
    BY <1>1 DEF Renamed
<1>5. [t.log EXCEPT ![i].name = name] = [t.log EXCEPT ![i] = r]
    BY <1>1, <1>2
<1>6. u = [log |-> [t.log EXCEPT ![i] = r], act |-> t.act]
    BY <1>4, <1>5
<1>7. t.act \in [G -> Contexts] /\ r \in Spans(N)
    BY <1>3, TracingTypes
<1>8. /\ u \in Tracings(G, N) /\ Len(u.log) = Len(t.log) /\ u.log[i] = r
      /\ \A j \in 1..Len(t.log) : j # i => u.log[j] = t.log[j]
      /\ u.act = t.act
    BY <1>6, <1>7, LogUpdated
<1>9. QED
    BY <1>3, <1>8

LEMMA FinishStreamSpanKeeps ==
    ASSUME StreamsInv, NEW g \in Streams!All, NEW s \in 1..Len(streams),
           Streams!FinishStreamSpan(g, s)
    PROVE  StreamsInv'
<1>1. /\ streams \in Seq(StreamData) /\ streams[s] \in StreamData /\ Len(streams) \in Nat
      /\ DOMAIN streams = 1..Len(streams) /\ call \in [Streams!All -> StreamCalls]
      /\ fin \in SUBSET (Streams!All \X (1..Len(streams))) /\ swStreams \in StreamTracings
      /\ LocalContexts(swStreams) /\ <<g, s>> \in fin
    BY StreamTypes DEF StreamsInv, StreamsTypeOK, Streams!FinishStreamSpan
<1>2. StreamOK(s) /\ streams[s].over = "received" /\ streams[s].result = "clientStream"
    BY <1>1 DEF StreamsInv, StreamInv, FinInv
<1>3. PICK i, t : i = streams[s].span /\ t = AsyncFinish(swStreams, i)
    OBVIOUS
<1>4. i \in 1..Len(swStreams.log) /\ swStreams.log[i].kind = "exit" /\ swStreams.log[i].depth = 0
    BY <1>2, <1>3 DEF StreamOK
<1>5. /\ t \in StreamTracings /\ Len(t.log) = Len(swStreams.log) /\ t.act = swStreams.act
      /\ \A j \in 1..Len(swStreams.log) : j # i => t.log[j] = swStreams.log[j]
      /\ t.log[i].kind = "exit" /\ t.log[i].parent = swStreams.log[i].parent
      /\ t.log[i].depth = 0 /\ t.log[i].async = "finished"
    <2>1. /\ swStreams \in Tracings(Streams!All, StreamNames)
          /\ t = AsyncFinish(swStreams, i) /\ i \in 1..Len(swStreams.log)
        BY <1>1, <1>3, <1>4 DEF StreamTracings
    <2>2. /\ t \in Tracings(Streams!All, StreamNames)
          /\ Len(t.log) = Len(swStreams.log) /\ t.act = swStreams.act
          /\ \A j \in 1..Len(swStreams.log) : j # i => t.log[j] = swStreams.log[j]
          /\ t.log[i].kind = swStreams.log[i].kind /\ t.log[i].parent = swStreams.log[i].parent
          /\ t.log[i].depth = swStreams.log[i].depth /\ t.log[i].async = "finished"
        BY <2>1, SpanFinished
    <2>3. QED
        BY <1>4, <2>2 DEF StreamTracings
<1>6. PICK a : a = swStreams.act[g].span
    OBVIOUS
<1>7. \/ swStreams' = t
      \/ /\ a # 0 /\ ~swStreams.act[g].snap
         /\ swStreams' = Renamed(t, a, "CloseRecv")
    BY <1>3, <1>5, <1>6, StreamsContext, ZenonT(30) DEF Streams!FinishStreamSpan, Renamed
<1>8. /\ swStreams' \in StreamTracings /\ Len(swStreams'.log) = Len(swStreams.log)
      /\ swStreams'.act = swStreams.act
      /\ \A j \in 1..Len(swStreams.log) :
            /\ swStreams'.log[j].kind = swStreams.log[j].kind
            /\ swStreams'.log[j].parent = swStreams.log[j].parent
            /\ swStreams.log[j].kind = "exit" /\ j # i => swStreams'.log[j] = swStreams.log[j]
      /\ swStreams'.log[i].depth = 0 /\ swStreams'.log[i].async = "finished"
    <2>1. CASE swStreams' = t
        BY <1>4, <1>5, <2>1
    <2>2. CASE /\ a # 0 /\ ~swStreams.act[g].snap
               /\ swStreams' = Renamed(t, a, "CloseRecv")
        <3>1. a \in 1..Len(swStreams.log) /\ swStreams.log[a].kind = "local" /\ a # i
            BY <1>1, <1>4, <1>6, <2>2 DEF LocalContexts, LocalIn, Passive
        <3>2. a \in 1..Len(t.log) /\ "CloseRecv" \in StreamNames
            BY <1>5, <3>1 DEF StreamNames
        <3>3. /\ swStreams' \in StreamTracings /\ Len(swStreams'.log) = Len(t.log)
              /\ swStreams'.act = t.act
              /\ \A j \in 1..Len(t.log) : j # a => swStreams'.log[j] = t.log[j]
              /\ swStreams'.log[a].kind = t.log[a].kind
              /\ swStreams'.log[a].parent = t.log[a].parent
            BY <1>5, <2>2, <3>2, SpanRenamed DEF StreamTracings
        <3>4. ASSUME NEW j \in 1..Len(swStreams.log)
              PROVE  /\ swStreams'.log[j].kind = swStreams.log[j].kind
                     /\ swStreams'.log[j].parent = swStreams.log[j].parent
                     /\ swStreams.log[j].kind = "exit" /\ j # i
                        => swStreams'.log[j] = swStreams.log[j]
            <4>1. CASE j = a
                BY <1>5, <3>1, <3>3, <4>1
            <4>2. CASE j # a
                <5>1. swStreams'.log[j] = t.log[j]
                    BY <1>5, <3>3, <4>2
                <5>2. QED
                    BY <1>4, <1>5, <5>1
            <4>3. QED
                BY <4>1, <4>2
        <3>5. swStreams'.log[i] = t.log[i]
            BY <1>4, <1>5, <3>1, <3>3
        <3>6. QED
            BY <1>5, <3>3, <3>4, <3>5
    <2>3. QED
        BY <1>7, <2>1, <2>2
<1>9. LocalContexts(swStreams')
    <2>1. ASSUME NEW c, LocalIn(swStreams, c) PROVE LocalIn(swStreams', c)
        BY <1>8, <2>1 DEF LocalIn
    <2>2. QED
        BY <1>1, <1>8, <2>1 DEF LocalContexts
<1>10. PICK n, e : n = streams[s].finishes + 1 /\ e = [streams[s] EXCEPT !.finishes = n]
    OBVIOUS
<1>11. n \in Nat
    BY <1>1, <1>10 DEF StreamData
<1>12. /\ e \in StreamData /\ e.span = streams[s].span /\ e.result = streams[s].result
       /\ e.over = streams[s].over /\ e.continueSnapShot = streams[s].continueSnapShot
       /\ e.endSnapShot = streams[s].endSnapShot /\ e.received = streams[s].received
       /\ e.interceptFinish = streams[s].interceptFinish
    BY <1>1, <1>10, <1>11 DEF StreamData
<1>13. /\ streams' = [streams EXCEPT ![s] = e] /\ fin' = fin \ {<<g, s>>} /\ UNCHANGED call
    BY <1>1, <1>10 DEF Streams!FinishStreamSpan
<1>14. /\ streams' \in Seq(StreamData) /\ Len(streams') = Len(streams)
       /\ \A r \in 1..Len(streams) :
             /\ streams'[r].span = streams[r].span /\ streams'[r].result = streams[r].result
             /\ streams'[r].over = streams[r].over
             /\ streams'[r].continueSnapShot = streams[r].continueSnapShot
             /\ streams'[r].endSnapShot = streams[r].endSnapShot
             /\ streams'[r].received = streams[r].received
             /\ streams'[r].interceptFinish = streams[r].interceptFinish
    <2>1. /\ streams' \in Seq(StreamData) /\ Len(streams') = Len(streams) /\ streams'[s] = e
          /\ \A r \in 1..Len(streams) : r # s => streams'[r] = streams[r]
        BY <1>1, <1>12, <1>13, ExceptSeq
    <2>2. QED
        BY <1>12, <2>1
<1>15. StreamsTypeOK' /\ SnapshotInv' /\ FinInv' /\ OwnSpanInv'
    BY <1>1, <1>8, <1>13, <1>14
       DEF StreamsInv, StreamsTypeOK, SnapshotInv, FinInv, OwnSpanInv
<1>16. CallInv'
    BY <1>8, <1>13, <1>14 DEF StreamsInv, CallInv, CallOK
<1>17. ASSUME NEW r \in 1..Len(streams) PROVE StreamOK(r)'
    <2>1. StreamOK(r)
        BY DEF StreamsInv, StreamInv
    <2>2. CASE r = s
        <3>1. Finished(s)'
            BY <1>3, <1>8, <1>14 DEF Finished
        <3>2. QED
            BY <1>2, <1>3, <1>4, <1>8, <1>14, <2>2, <3>1 DEF StreamOK
    <2>3. CASE r # s
        <3>1. streams[r].span # i /\ streams[r].span \in 1..Len(swStreams.log)
              /\ swStreams.log[streams[r].span].kind = "exit"
            BY <1>3, <2>1, <2>3 DEF StreamsInv, OwnSpanInv, StreamOK
        <3>2. swStreams'.log[streams[r].span] = swStreams.log[streams[r].span]
            BY <1>8, <3>1
        <3>3. (Finished(r)' <=> Finished(r)) /\ (Finishing(r)' <=> Finishing(r))
            BY <1>13, <1>14, <2>3, <3>2 DEF Finished, Finishing
        <3>4. /\ streams'[r].span \in 1..Len(swStreams'.log)
              /\ swStreams'.log[streams'[r].span] = swStreams.log[streams[r].span]
            BY <1>8, <1>14, <3>1, <3>2
        <3>5. QED
            BY <1>14, <2>1, <3>3, <3>4 DEF StreamOK
    <2>4. QED
        BY <2>2, <2>3
<1>18. QED
    BY <1>8, <1>9, <1>14, <1>15, <1>16, <1>17 DEF StreamsInv, StreamInv, LocalContexts

LEMMA StreamsNextInv == StreamsInv /\ (Streams!Next \/ UNCHANGED streamVars) => StreamsInv'
<1> SUFFICES ASSUME StreamsInv, Streams!Next \/ UNCHANGED streamVars PROVE StreamsInv'
    OBVIOUS
<1>1. DOMAIN streams = 1..Len(streams)
    BY StreamTypes
<1>2. CASE UNCHANGED streamVars
    <2>1. UNCHANGED <<swStreams, streams, call, fin>>
        BY <1>2 DEF streamVars
    <2>2. StreamsTypeOK' /\ LocalContexts(swStreams)'
        BY <2>1 DEF StreamsInv, StreamsTypeOK, LocalContexts, LocalIn
    <2>3. SnapshotInv' /\ FinInv' /\ OwnSpanInv'
        BY <2>1 DEF StreamsInv, SnapshotInv, FinInv, OwnSpanInv
    <2>4. CallInv'
        BY <2>1 DEF StreamsInv, CallInv, CallOK
    <2>5. StreamInv'
        BY <2>1 DEF StreamsInv, StreamInv, StreamOK, Finished, Finishing
    <2>6. QED
        BY <2>2, <2>3, <2>4, <2>5 DEF StreamsInv
<1>3. ASSUME NEW g \in Goroutines,
             Streams!AppStart(g) \/ Streams!AppEnd(g) \/ Streams!Return(g)
      PROVE  StreamsInv'
    BY <1>3, AppStartKeeps, AppEndKeeps, ReturnKeeps
<1>4. ASSUME NEW g \in Goroutines, NEW result \in StreamResults, Streams!NewStream(g, result)
      PROVE  StreamsInv'
    BY <1>4, NewStreamKeeps
<1>5. ASSUME NEW g \in Goroutines, NEW s \in 1..Len(streams),
             Streams!SendMsg(g, s) \/ Streams!RecvMsg(g, s) \/ Streams!CloseSend(g, s)
      PROVE  StreamsInv'
    BY <1>5, SendOrCloseKeeps, RecvMsgKeeps
<1>6. ASSUME NEW g \in Streams!All, NEW s \in 1..Len(streams),
             Streams!Finish(g, s) \/ Streams!FinishStreamSpan(g, s)
      PROVE  StreamsInv'
    BY <1>6, FinishKeeps, FinishStreamSpanKeeps
<1>7. QED
    BY <1>1, <1>2, <1>3, <1>4, <1>5, <1>6 DEF Streams!Next, StreamResults

LEMMA StreamsInvSafe == StreamsInv => StreamIsReportedWhenOver
<1> SUFFICES ASSUME StreamsInv PROVE StreamIsReportedWhenOver
    OBVIOUS
<1>1. ASSUME NEW s \in DOMAIN streams
      PROVE  LET ended == Streams!Reported(swStreams, streams[s].span)
             IN  /\ /\ streams[s].over = "received" /\ Streams!HasData(s)
                    /\ \A g \in Streams!All : <<g, s>> \notin fin
                    => ended
                 /\ ended => streams[s].over = "received" /\ Streams!HasData(s)
    <2>1. StreamOK(s) /\ s \in 1..Len(streams)
        BY StreamTypes DEF StreamsInv, StreamInv
    <2>2. Streams!Reported(swStreams, streams[s].span) <=> Finished(s)
        BY <2>1, StreamsContext DEF StreamOK, Finished, Reported
    <2>3. QED
        BY <2>1, <2>2 DEF StreamOK, Finishing, Streams!HasData
<1>2. QED
    BY <1>1 DEF StreamIsReportedWhenOver, Streams!StreamIsReportedWhenOver

\* NewStream, RecvMsg, finish and the watcher's goroutine: with any number of goroutines and
\* streams, and finish running on any goroutine between any two steps of the others, the exit
\* span of a stream is reported when the stream is over and was read, and never before.
THEOREM StreamsAreReported == SkyWalkingSpec => []StreamIsReportedWhenOver
<1>1. SkyWalkingInit => StreamsInv
    BY StreamsInitInv DEF SkyWalkingInit
<1>2. StreamsInv
      /\ [SkyWalkingNext]_<<hooks, vars, callVars, streamVars, sqlVars, mongoVars, socketVars>>
          => StreamsInv'
    <2>1. SkyWalkingNext
              \/ UNCHANGED <<hooks, vars, callVars, streamVars, sqlVars, mongoVars, socketVars>>
          => Streams!Next \/ UNCHANGED streamVars
        BY DEF SkyWalkingNext
    <2>2. QED
        BY <2>1, StreamsNextInv
<1>3. StreamsInv => StreamIsReportedWhenOver
    BY StreamsInvSafe
<1>4. QED
    BY <1>1, <1>2, <1>3, PTL DEF SkyWalkingSpec

-----------------------------------------------------------------------------
(* Connections: Accept, Close and ServeRequest.                             *)

LEMMA SocketContext ==
    /\ Socket!Empty(Goroutines) = Empty(Goroutines)
    /\ Socket!NoContext = NoContext
    /\ \A t, g, kind, name : Socket!Create(t, g, kind, name) = Create(t, g, kind, name)
    /\ \A t, g, i : Socket!EndSpan(t, g, i) = EndSpan(t, g, i)
    /\ \A t, g : Socket!ActiveSpan(t, g) = t.act[g].span
    /\ \A t, i : Socket!PrepareAsync(t, i) = PrepareAsync(t, i)
    /\ \A t, i : Socket!AsyncFinish(t, i) = AsyncFinish(t, i)
    /\ \A t, i : Socket!Reported(t, i) <=> Reported(t, i)
    /\ \A t, g : Socket!CaptureContext(t, g) = CaptureContext(t, g)
    /\ \A t, g, c : Socket!ContinueContext(t, g, c) = ContinueContext(t, g, c)
BY DEF Socket!Empty, Empty, Socket!Create, Create, Socket!EndSpan, EndSpan,
   Socket!ActiveSpan, Socket!NoContext, NoContext, Socket!NoSpan, NoSpan, Socket!Reuses,
   Reuses, Socket!PrepareAsync, PrepareAsync, Socket!AsyncFinish, AsyncFinish,
   Socket!Reported, Reported, Socket!CaptureContext, CaptureContext,
   Socket!ContinueContext, ContinueContext

SocketNames == {"connection", "request", "call"}
SocketTracings == Tracings(Goroutines, SocketNames)
InjectData == [span : Nat, snapshot : Contexts, done : BOOLEAN]
Reads == {"snapshot", "span"}
SocketSteps == [at : {"idle", "do", "clear", "serve"} \cup Reads, data : Nat, moved : SUBSET Reads]
Uses == [span : Nat, data : Nat, moved : BOOLEAN]

SocketTypeOK ==
    /\ swSocket \in SocketTracings
    /\ datas \in Seq(InjectData)
    /\ SwInjectData \in 0..Len(datas)
    /\ pc \in [Goroutines -> SocketSteps]
    /\ finishes \in Seq(Nat) /\ Len(finishes) = Len(datas)
    /\ used \subseteq Uses

\* A goroutine holds a snapshot, or an entry span of its own that is not ended yet.
HoldsEntry(t, c) ==
    /\ c.span \in 1..Len(t.log)
    /\ t.log[c.span].kind = "entry" /\ t.log[c.span].depth = 1 /\ t.log[c.span].parent = NoSpan
Held(t, g) == Passive(t.act[g]) \/ HoldsEntry(t, t.act[g])
HeldAlone(t, g) ==
    \A h \in Goroutines :
        ~Passive(t.act[g]) /\ ~Passive(t.act[h]) /\ t.act[h].span = t.act[g].span => h = g
HeldInv == \A g \in Goroutines : Held(swSocket, g) /\ HeldAlone(swSocket, g)

Clearing(d) == \E g \in Goroutines : pc[g].at = "clear" /\ pc[g].data = d

\* The span of a connection has ended; whether it is finished is what the Once remembers,
\* and the socket has its data until Close has cleared it.
DataOK(d) ==
    /\ datas[d].span \in 1..Len(swSocket.log)
    /\ swSocket.log[datas[d].span].depth = 0
    /\ swSocket.log[datas[d].span].async = IF datas[d].done THEN "finished" ELSE "prepared"
    /\ datas[d].snapshot = [span |-> datas[d].span, snap |-> TRUE]
    /\ finishes[d] = IF datas[d].done THEN 1 ELSE 0
    /\ SwInjectData = d <=> (~datas[d].done \/ Clearing(d))
DataInv == \A d \in 1..Len(datas) : DataOK(d)
DataSpansInv == \A d, e \in 1..Len(datas) : datas[d].span = datas[e].span => d = e

\* A request that has yet to read the data finds none or that of its connection, unless
\* the socket has moved; its context is the snapshot it read.
LooksOK(g) ==
    /\ pc[g].data \in 1..Len(datas)
    /\ pc[g].at = "snapshot" => "span" \notin pc[g].moved
    /\ pc[g].moved = {} => SwInjectData \in {0, pc[g].data}
AdoptedOK(g) ==
    /\ pc[g].data \in 1..Len(datas)
    /\ swSocket.act[g].snap
    /\ "snapshot" \notin pc[g].moved => swSocket.act[g].span = datas[pc[g].data].span

\* A Close works on data of the socket, and clears it when the span is finished; a
\* request that is served has a context: its own entry span, or the snapshot.
StepOK(g) ==
    /\ pc[g].at = "idle" => pc[g].data = 0 /\ pc[g].moved = {}
    /\ pc[g].at \in {"do", "clear"} => pc[g].data \in 1..Len(datas)
    /\ pc[g].at = "clear" => datas[pc[g].data].done
    /\ pc[g].at = "serve" /\ pc[g].data = 0 => ~Passive(swSocket.act[g])
    /\ pc[g].at \in Reads => LooksOK(g)
    /\ pc[g].at = "span" \/ (pc[g].at = "serve" /\ pc[g].data # 0) => AdoptedOK(g)
StepInv == \A g \in Goroutines : StepOK(g)
ClearInv ==
    \A g, h \in Goroutines : pc[g].at = "clear" /\ pc[h].at = "clear" => g = h

UseOK(u) ==
    /\ u.data \in 1..Len(datas)
    /\ u.moved \/ u.span = datas[u.data].span
UseInv == \A u \in used : UseOK(u)

SocketInv ==
    /\ SocketTypeOK /\ HeldInv /\ DataInv /\ DataSpansInv /\ StepInv /\ ClearInv /\ UseInv

\* A Close that is about to clear the data has finished the span.
LEMMA ClearingDone ==
    ASSUME SocketInv, NEW g \in Goroutines, pc[g].at = "clear"
    PROVE  /\ pc[g].data \in 1..Len(datas) /\ datas[pc[g].data].done
           /\ SwInjectData = pc[g].data /\ Clearing(pc[g].data)
<1>1. PICK d : d = pc[g].data
    OBVIOUS
<1>2. pc[g] \in SocketSteps /\ d \in 1..Len(datas)
    BY <1>1 DEF SocketInv, SocketTypeOK, StepInv, StepOK
<1>3. pc[g].at = "clear" /\ pc[g].data = d
    BY <1>1
<1>4. Clearing(d) /\ DataOK(d)
    BY <1>2, <1>3 DEF Clearing, SocketInv, DataInv
<1>5. SwInjectData = d
    BY <1>4 DEF DataOK
<1>6. datas[d].done
    BY <1>1 DEF SocketInv, StepInv, StepOK
<1>7. QED
    BY <1>1, <1>2, <1>4, <1>5, <1>6

LEMMA SocketTypes ==
    ASSUME SocketInv
    PROVE  /\ swSocket \in SocketTracings /\ swSocket \in Tracings(Goroutines, SocketNames)
           /\ Len(swSocket.log) \in Nat
           /\ \A g \in Goroutines : swSocket.act[g] \in Contexts
           /\ datas \in Seq(InjectData) /\ Len(datas) \in Nat /\ DOMAIN datas = 1..Len(datas)
           /\ \A d \in 1..Len(datas) : datas[d] \in InjectData
           /\ finishes \in Seq(Nat) /\ Len(finishes) = Len(datas)
           /\ pc \in [Goroutines -> SocketSteps]
           /\ SwInjectData \in 0..Len(datas) /\ used \subseteq Uses
BY LenProperties, TracingTypes DEF SocketInv, SocketTypeOK, SocketTracings

LEMMA SocketInitInv == Socket!Init => SocketInv
<1> SUFFICES ASSUME Socket!Init PROVE SocketInv
    OBVIOUS
<1>1. /\ swSocket \in SocketTracings /\ swSocket.log = <<>>
      /\ \A g \in Goroutines : swSocket.act[g] = NoContext
    BY SocketContext, EmptyTyped DEF Socket!Init, SocketTracings
<1>2. /\ datas = <<>> /\ finishes = <<>> /\ SwInjectData = 0 /\ used = {}
      /\ \A g \in Goroutines : pc[g] = Socket!Idle
      /\ Len(datas) = 0 /\ Len(finishes) = 0
    BY DEF Socket!Init
<1>3. pc \in [Goroutines -> SocketSteps]
    BY DEF Socket!Init, Socket!Idle, SocketSteps, Reads
<1>4. SocketTypeOK
    BY <1>1, <1>2, <1>3 DEF SocketTypeOK
<1>5. HeldInv
    BY <1>1 DEF HeldInv, Held, HeldAlone, Passive, NoContext
<1>6. StepInv /\ ClearInv
    BY <1>2 DEF StepInv, StepOK, ClearInv, Socket!Idle, Reads
<1>7. QED
    BY <1>2, <1>4, <1>5, <1>6 DEF SocketInv, DataInv, DataSpansInv, UseInv

\* The steps that leave the connections alone: they may make spans, and change the context
\* of their goroutine, or end the span it holds.
LEMMA SocketKept ==
    ASSUME SocketInv, NEW g \in Goroutines, swSocket' \in SocketTracings,
           UNCHANGED <<datas, SwInjectData, finishes>>,
           Len(swSocket.log) <= Len(swSocket'.log),
           \A i \in 1..Len(swSocket.log) :
               \/ swSocket'.log[i] = swSocket.log[i]
               \/ /\ i = swSocket.act[g].span /\ ~Passive(swSocket.act[g])
                  /\ SameSpan(swSocket'.log[i], swSocket.log[i])
                  /\ Passive(swSocket'.act[g]),
           \A h \in Goroutines : h # g => swSocket'.act[h] = swSocket.act[h],
           \/ Passive(swSocket'.act[g]) \/ swSocket'.act[g] = swSocket.act[g]
           \/ HoldsEntry(swSocket', swSocket'.act[g])
              /\ swSocket'.act[g].span \notin 1..Len(swSocket.log),
           pc' \in [Goroutines -> SocketSteps],
           \A h \in Goroutines : h # g => pc'[h] = pc[h],
           pc[g].at # "clear", pc'[g].at # "clear", StepOK(g)',
           \A c \in used' : c \in used \/ UseOK(c)', used' \subseteq Uses
    PROVE  SocketInv'
<1>1. Len(swSocket.log) \in Nat /\ Len(swSocket'.log) \in Nat
    BY SocketTypes, TracingTypes DEF SocketTracings
<1>2. SocketTypeOK'
    BY DEF SocketInv, SocketTypeOK
<1>3. \A h \in Goroutines : h # g => Held(swSocket', h)
    <2>1. SUFFICES ASSUME NEW h \in Goroutines, h # g, ~Passive(swSocket.act[h])
                   PROVE  HoldsEntry(swSocket', swSocket'.act[h])
        BY DEF Held
    <2>2. PICK i : i = swSocket.act[h].span
        OBVIOUS
    <2>3. HoldsEntry(swSocket, swSocket.act[h]) /\ i \in 1..Len(swSocket.log)
        BY <2>1, <2>2 DEF SocketInv, HeldInv, Held, HoldsEntry
    <2>4. swSocket'.log[i] = swSocket.log[i]
        BY <2>1, <2>2, <2>3 DEF SocketInv, HeldInv, HeldAlone
    <2>5. i \in 1..Len(swSocket'.log) /\ swSocket'.act[h].span = i
        BY <1>1, <2>1, <2>2, <2>3
    <2>6. QED
        BY <2>2, <2>3, <2>4, <2>5 DEF HoldsEntry
<1>4. Held(swSocket', g)
    <2>1. CASE swSocket'.act[g] = swSocket.act[g] /\ ~Passive(swSocket'.act[g])
        <3>1. PICK i : i = swSocket.act[g].span
            OBVIOUS
        <3>2. HoldsEntry(swSocket, swSocket.act[g]) /\ i \in 1..Len(swSocket.log)
            BY <2>1, <3>1 DEF SocketInv, HeldInv, Held, HoldsEntry
        <3>3. swSocket'.log[i] = swSocket.log[i] /\ i \in 1..Len(swSocket'.log)
            BY <1>1, <2>1, <3>2
        <3>4. QED
            BY <2>1, <3>1, <3>2, <3>3 DEF Held, HoldsEntry
    <2>2. QED
        BY <2>1 DEF Held
<1>5. \A h \in Goroutines : HeldAlone(swSocket', h)
    <2>1. SUFFICES ASSUME NEW h \in Goroutines, NEW k \in Goroutines, h # k,
                          ~Passive(swSocket'.act[h]), ~Passive(swSocket'.act[k]),
                          swSocket'.act[h].span = swSocket'.act[k].span
                   PROVE  FALSE
        BY DEF HeldAlone
    <2>2. \A m \in Goroutines : m # g /\ ~Passive(swSocket'.act[m])
              => /\ swSocket'.act[m] = swSocket.act[m]
                 /\ swSocket.act[m].span \in 1..Len(swSocket.log)
        BY DEF SocketInv, HeldInv, Held, HoldsEntry
    <2>3. \A m \in Goroutines : ~Passive(swSocket'.act[m]) =>
              \/ swSocket'.act[m] = swSocket.act[m]
              \/ m = g /\ swSocket'.act[g].span \notin 1..Len(swSocket.log)
        BY <2>2
    <2>4. swSocket'.act[h] = swSocket.act[h] /\ swSocket'.act[k] = swSocket.act[k]
        BY <2>1, <2>2, <2>3
    <2>5. QED
        BY <2>1, <2>4 DEF SocketInv, HeldInv, HeldAlone
<1>6. \A d \in 1..Len(datas) : swSocket'.log[datas[d].span] = swSocket.log[datas[d].span]
    <2>1. ASSUME NEW d \in 1..Len(datas)
          PROVE  swSocket'.log[datas[d].span] = swSocket.log[datas[d].span]
        <3>1. datas[d].span \in 1..Len(swSocket.log) /\ swSocket.log[datas[d].span].depth = 0
            BY DEF SocketInv, DataInv, DataOK
        <3>2. ~Passive(swSocket.act[g]) => swSocket.log[swSocket.act[g].span].depth = 1
            BY DEF SocketInv, HeldInv, Held, HoldsEntry
        <3>3. QED
            BY <3>1, <3>2
    <2>2. QED
        BY <2>1
<1>7. \A d \in 1..Len(datas) : Clearing(d)' <=> Clearing(d)
    BY DEF Clearing
<1>8. DataInv' /\ DataSpansInv'
    <2>1. ASSUME NEW d \in 1..Len(datas) PROVE DataOK(d)'
        <3>1. DataOK(d) /\ datas[d].span \in 1..Len(swSocket'.log)
            BY <1>1 DEF SocketInv, DataInv, DataOK
        <3>2. QED
            BY <1>6, <1>7, <3>1 DEF DataOK
    <2>2. QED
        BY <2>1 DEF DataInv, DataSpansInv, SocketInv
<1>9. StepInv'
    <2>1. ASSUME NEW h \in Goroutines, h # g PROVE StepOK(h)'
        BY <2>1 DEF SocketInv, StepInv, StepOK, LooksOK, AdoptedOK
    <2>2. QED
        BY <2>1 DEF StepInv
<1>10. ClearInv'
    BY DEF SocketInv, ClearInv
<1>11. ASSUME NEW c \in used, UseOK(c) PROVE UseOK(c)'
    BY <1>11 DEF UseOK
<1>12. UseInv'
    BY <1>11 DEF SocketInv, UseInv
<1>13. QED
    BY <1>2, <1>3, <1>4, <1>5, <1>8, <1>9, <1>10, <1>12 DEF SocketInv, HeldInv

LEMMA EntryMade ==
    ASSUME NEW t \in SocketTracings, NEW g \in Goroutines, t.act[g].span = 0,
           NEW name \in SocketNames, NEW u, u = Create(t, g, "entry", name)
    PROVE  /\ u \in SocketTracings /\ Len(t.log) <= Len(u.log)
           /\ \A i \in 1..Len(t.log) : u.log[i] = t.log[i]
           /\ \A h \in Goroutines : h # g => u.act[h] = t.act[h]
           /\ HoldsEntry(u, u.act[g]) /\ u.act[g].span \notin 1..Len(t.log)
           /\ ~Passive(u.act[g])
<1>1. /\ t \in Tracings(Goroutines, SocketNames) /\ Len(t.log) \in Nat /\ "entry" \in SpanKinds
    BY TracingTypes DEF SocketTracings, SpanKinds
<1>2. ~Reuses(t, g, "entry") /\ NoSpan = IF t.act[g] = NoContext THEN NoSpan ELSE t.act[g]
    <2>1. t.act[g] \in Contexts
        BY <1>1, TracingTypes
    <2>2. t.act[g] = [span |-> 0, snap |-> TRUE] \/ t.act[g] = [span |-> 0, snap |-> FALSE]
        BY <2>1 DEF Contexts
    <2>3. QED
        BY <2>2 DEF Reuses, NoContext, NoSpan
<1>3. PICK r : r = [kind |-> "entry", name |-> name, parent |-> NoSpan, depth |-> 1,
                    async |-> "no"]
    OBVIOUS
<1>4. /\ u \in SocketTracings /\ Len(u.log) = Len(t.log) + 1
      /\ \A i \in 1..Len(t.log) : u.log[i] = t.log[i]
      /\ u.log[Len(u.log)] = r
      /\ u.act[g] = [span |-> Len(u.log), snap |-> FALSE]
      /\ \A h \in Goroutines : h # g => u.act[h] = t.act[h]
    BY <1>1, <1>2, <1>3, CreateMakes DEF SocketTracings
<1>5. u.act[g].span = Len(u.log) /\ ~u.act[g].snap
    BY <1>4
<1>6. r.kind = "entry" /\ r.depth = 1 /\ r.parent = NoSpan
    BY <1>3
<1>7. Len(u.log) \in 1..Len(u.log) /\ Len(u.log) # 0 /\ Len(u.log) \notin 1..Len(t.log)
    BY <1>1, <1>4
<1>8. QED
    BY <1>1, <1>4, <1>5, <1>6, <1>7 DEF HoldsEntry, Passive

LEMMA EntrySpanKeeps ==
    ASSUME SocketInv, NEW g \in Goroutines, Socket!EntrySpan(g)
    PROVE  SocketInv'
<1>1. /\ swSocket.act[g].span = 0 /\ pc[g] = Socket!Idle
      /\ swSocket' = Create(swSocket, g, "entry", "connection")
      /\ UNCHANGED <<SwInjectData, datas, pc, finishes, used>>
    BY SocketContext DEF Socket!EntrySpan
<1>2. swSocket \in SocketTracings /\ "connection" \in SocketNames
    BY SocketTypes DEF SocketNames
<1>3. /\ swSocket' \in SocketTracings /\ Len(swSocket.log) <= Len(swSocket'.log)
      /\ \A i \in 1..Len(swSocket.log) : swSocket'.log[i] = swSocket.log[i]
      /\ \A h \in Goroutines : h # g => swSocket'.act[h] = swSocket.act[h]
      /\ HoldsEntry(swSocket', swSocket'.act[g])
      /\ swSocket'.act[g].span \notin 1..Len(swSocket.log)
    BY <1>1, <1>2, EntryMade
<1>4. /\ pc' \in [Goroutines -> SocketSteps] /\ used' \subseteq Uses
      /\ pc[g].at # "clear" /\ pc'[g].at # "clear" /\ StepOK(g)'
    BY <1>1, SocketTypes DEF StepOK, Socket!Idle, Reads
<1>5. QED
    BY <1>1, <1>3, <1>4, SocketKept

\* A step of pc alone, or one that gives the goroutine a snapshot.
LEMMA StepTaken ==
    ASSUME SocketInv, NEW g \in Goroutines, NEW e \in SocketSteps, pc' = [pc EXCEPT ![g] = e],
           UNCHANGED <<SwInjectData, datas, finishes>>,
           pc[g].at # "clear", e.at # "clear", StepOK(g)',
           used' \subseteq Uses, \A u \in used' : u \in used \/ UseOK(u)',
           \/ UNCHANGED swSocket
           \/ \E c \in Contexts : Passive(c) /\ swSocket' = ContinueContext(swSocket, g, c)
    PROVE  SocketInv'
<1>1. /\ pc' \in [Goroutines -> SocketSteps] /\ pc'[g] = e
      /\ \A h \in Goroutines : h # g => pc'[h] = pc[h]
      /\ Len(swSocket.log) \in Nat
    BY SocketTypes
<1>2. /\ swSocket' \in SocketTracings /\ swSocket'.log = swSocket.log
      /\ \A h \in Goroutines : h # g => swSocket'.act[h] = swSocket.act[h]
      /\ Passive(swSocket'.act[g]) \/ swSocket'.act[g] = swSocket.act[g]
    <2>1. CASE UNCHANGED swSocket
        BY <2>1, SocketTypes
    <2>2. ASSUME NEW c \in Contexts, Passive(c), swSocket' = ContinueContext(swSocket, g, c)
          PROVE  /\ swSocket' \in SocketTracings /\ swSocket'.log = swSocket.log
                 /\ swSocket'.act[g] = c
                 /\ \A h \in Goroutines : h # g => swSocket'.act[h] = swSocket.act[h]
        <3>1. PICK t, u : /\ t = swSocket /\ u = ContinueContext(swSocket, g, c)
                          /\ t \in Tracings(Goroutines, SocketNames)
            BY SocketTypes
        <3>2. u = ContinueContext(t, g, c)
            BY <3>1
        <3>3. /\ u \in Tracings(Goroutines, SocketNames) /\ u.log = t.log /\ u.act[g] = c
              /\ \A h \in Goroutines : h # g => u.act[h] = t.act[h]
            BY <3>1, <3>2, ContextSet
        <3>4. swSocket' = u /\ swSocket = t
            BY <2>2, <3>1
        <3>5. QED
            BY <3>3, <3>4 DEF SocketTracings
    <2>3. QED
        BY <2>1, <2>2
<1>3. /\ Len(swSocket.log) <= Len(swSocket'.log)
      /\ \A i \in 1..Len(swSocket.log) : swSocket'.log[i] = swSocket.log[i]
    BY <1>1, <1>2
<1>4. QED
    BY <1>1, <1>2, <1>3, SocketKept

LEMMA GoesIdle ==
    ASSUME SocketInv, NEW g \in Goroutines, pc' = [pc EXCEPT ![g] = Socket!Idle],
           UNCHANGED <<swSocket, SwInjectData, datas, finishes, used>>, pc[g].at # "clear"
    PROVE  SocketInv'
<1>1. /\ Socket!Idle \in SocketSteps /\ Socket!Idle.at = "idle" /\ Socket!Idle.data = 0
      /\ Socket!Idle.moved = {}
    BY DEF Socket!Idle, SocketSteps
<1>2. pc'[g] = Socket!Idle /\ used' \subseteq Uses
    BY SocketTypes
<1>3. StepOK(g)'
    BY <1>1, <1>2 DEF StepOK, Reads
<1>4. QED
    BY <1>1, <1>2, <1>3, StepTaken

LEMMA ServeRequestKeeps ==
    ASSUME SocketInv, NEW g \in Goroutines, Socket!ServeRequest(g)
    PROVE  SocketInv'
<1>1. /\ swSocket.act[g] = NoContext /\ pc[g] = Socket!Idle
      /\ UNCHANGED <<SwInjectData, datas, finishes, used>>
    BY SocketContext DEF Socket!ServeRequest
<1>2. /\ pc[g].at = "idle" /\ pc[g].data = 0 /\ pc[g].moved = {}
      /\ pc \in [Goroutines -> SocketSteps] /\ used' \subseteq Uses
    BY <1>1, SocketTypes DEF Socket!Idle
<1>3. CASE SwInjectData # 0
    <2>1. PICK e : e = [at |-> "snapshot", data |-> SwInjectData, moved |-> {}]
        OBVIOUS
    <2>2. /\ e \in SocketSteps /\ e.at = "snapshot" /\ e.data = SwInjectData /\ e.moved = {}
          /\ e.data \in 1..Len(datas)
        BY <1>3, <2>1, SocketTypes DEF SocketSteps, Reads
    <2>3. pc' = [pc EXCEPT ![g] = e] /\ UNCHANGED swSocket
        <3>1. pc' = [pc EXCEPT ![g].at = "snapshot", ![g].data = SwInjectData]
              /\ UNCHANGED swSocket
            BY <1>3 DEF Socket!ServeRequest
        <3>2. e = [[pc[g] EXCEPT !.at = "snapshot"] EXCEPT !.data = SwInjectData]
            <4>1. pc[g] = [at |-> "idle", data |-> 0, moved |-> {}]
                BY <1>1 DEF Socket!Idle
            <4>2. PICK m : m = [pc[g] EXCEPT !.at = "snapshot"]
                OBVIOUS
            <4>3. m = [at |-> "snapshot", data |-> 0, moved |-> {}]
                BY <4>1, <4>2
            <4>4. [m EXCEPT !.data = SwInjectData]
                      = [at |-> "snapshot", data |-> SwInjectData, moved |-> {}]
                BY <4>3
            <4>5. QED
                BY <2>1, <4>2, <4>4
        <3>3. QED
            BY <1>2, <3>1, <3>2
    <2>4. pc'[g] = e
        BY <1>2, <2>3
    <2>5. StepOK(g)'
        BY <1>1, <2>2, <2>4 DEF StepOK, LooksOK
    <2>6. QED
        BY <1>1, <1>2, <2>2, <2>3, <2>5, StepTaken
<1>4. CASE SwInjectData = 0
    <2>1. PICK e : e = [pc[g] EXCEPT !.at = "serve"]
        OBVIOUS
    <2>2. e = [at |-> "serve", data |-> 0, moved |-> {}]
        BY <1>1, <2>1 DEF Socket!Idle
    <2>3. e \in SocketSteps /\ e.at = "serve" /\ e.data = 0
        BY <2>2 DEF SocketSteps
    <2>4. /\ pc' = [pc EXCEPT ![g] = e]
          /\ swSocket' = Create(swSocket, g, "entry", "request")
        BY <1>4, <2>1, SocketContext, SocketTypes DEF Socket!ServeRequest
    <2>5. /\ swSocket \in SocketTracings /\ "request" \in SocketNames
          /\ swSocket.act[g].span = 0
        BY <1>1, SocketTypes DEF SocketNames, NoContext
    <2>6. /\ swSocket' \in SocketTracings /\ Len(swSocket.log) <= Len(swSocket'.log)
          /\ \A i \in 1..Len(swSocket.log) : swSocket'.log[i] = swSocket.log[i]
          /\ \A h \in Goroutines : h # g => swSocket'.act[h] = swSocket.act[h]
          /\ HoldsEntry(swSocket', swSocket'.act[g])
          /\ swSocket'.act[g].span \notin 1..Len(swSocket.log)
          /\ ~Passive(swSocket'.act[g])
        BY <2>4, <2>5, EntryMade
    <2>7. /\ pc' \in [Goroutines -> SocketSteps] /\ pc'[g] = e
          /\ \A h \in Goroutines : h # g => pc'[h] = pc[h]
        BY <1>2, <2>3, <2>4
    <2>8. StepOK(g)'
        BY <2>3, <2>6, <2>7 DEF StepOK, Reads
    <2>9. QED
        BY <1>1, <1>2, <2>3, <2>6, <2>7, <2>8, SocketKept
<1>5. QED
    BY <1>3, <1>4

LEMMA CrashKeeps ==
    ASSUME SocketInv, NEW g \in Goroutines, Socket!Crash(g)
    PROVE  SocketInv'
BY GoesIdle DEF Socket!Crash

\* What a request that looks at the data finds.
LEMMA DataFound ==
    ASSUME SocketInv, NEW g \in Goroutines, pc[g].at \in Reads, SwInjectData # 0,
           NEW d, d = SwInjectData
    PROVE  /\ pc[g] \in SocketSteps /\ pc[g].data \in 1..Len(datas) /\ pc[g].data # 0
           /\ d \in 1..Len(datas) /\ datas[d] \in InjectData
           /\ datas[d].snapshot = [span |-> datas[d].span, snap |-> TRUE]
           /\ pc[g].moved = {} => d = pc[g].data
           /\ pc[g].at = "snapshot" => "span" \notin pc[g].moved
<1>1. d \in 1..Len(datas) /\ datas[d] \in InjectData /\ pc[g] \in SocketSteps
    BY SocketTypes
<1>2. datas[d].snapshot = [span |-> datas[d].span, snap |-> TRUE]
    BY <1>1 DEF SocketInv, DataInv, DataOK
<1>3. LooksOK(g)
    BY DEF SocketInv, StepInv, StepOK
<1>4. QED
    BY <1>1, <1>2, <1>3 DEF LooksOK

LEMMA AdoptSnapshotKeeps ==
    ASSUME SocketInv, NEW g \in Goroutines, Socket!AdoptSnapshot(g)
    PROVE  SocketInv'
<1>1. PICK d, c, e : d = SwInjectData /\ c = datas[d].snapshot /\ e = [pc[g] EXCEPT !.at = "span"]
    OBVIOUS
<1>2. /\ pc[g].at = "snapshot" /\ d # 0 /\ swSocket' = ContinueContext(swSocket, g, c)
      /\ UNCHANGED <<SwInjectData, datas, finishes, used>>
    BY <1>1, SocketContext DEF Socket!AdoptSnapshot
<1>3. /\ pc[g] \in SocketSteps /\ pc[g].data \in 1..Len(datas) /\ pc[g].data # 0
      /\ d \in 1..Len(datas) /\ datas[d] \in InjectData
      /\ c = [span |-> datas[d].span, snap |-> TRUE]
      /\ pc[g].moved = {} => d = pc[g].data
      /\ "span" \notin pc[g].moved
    BY <1>1, <1>2, DataFound DEF Reads
<1>4. c \in Contexts /\ Passive(c) /\ c.snap /\ c.span = datas[d].span
    BY <1>3 DEF Contexts, InjectData, Passive
<1>5. /\ e \in SocketSteps /\ e.at = "span" /\ e.data = pc[g].data /\ e.moved = pc[g].moved
      /\ pc' = [pc EXCEPT ![g] = e]
    BY <1>1, <1>3, SocketTypes DEF SocketSteps, Reads, Socket!AdoptSnapshot
<1>6. pc'[g] = e /\ swSocket'.act[g] = c /\ used' \subseteq Uses
    BY <1>2, <1>4, <1>5, SocketTypes, ContextSet DEF SocketTracings
<1>7. "snapshot" \notin e.moved => d = e.data
    BY <1>3, <1>5 DEF SocketSteps, Reads
<1>8. LooksOK(g)'
    BY <1>1, <1>2, <1>3, <1>5, <1>6 DEF LooksOK
<1>9. AdoptedOK(g)'
    BY <1>2, <1>3, <1>4, <1>5, <1>6, <1>7 DEF AdoptedOK
<1>10. StepOK(g)'
    BY <1>5, <1>6, <1>8, <1>9 DEF StepOK
<1>11. QED
    BY <1>2, <1>4, <1>5, <1>6, <1>10, StepTaken

LEMMA AdoptSpanKeeps ==
    ASSUME SocketInv, NEW g \in Goroutines, Socket!AdoptSpan(g)
    PROVE  SocketInv'
<1>1. PICK d, e : d = SwInjectData /\ e = [pc[g] EXCEPT !.at = "serve"]
    OBVIOUS
<1>2. PICK b \in BOOLEAN : b <=> pc[g].moved # {}
    OBVIOUS
<1>3. PICK u : u = [span |-> datas[d].span, data |-> pc[g].data, moved |-> b]
    OBVIOUS
<1>4. /\ pc[g].at = "span" /\ d # 0 /\ used' = used \cup {u}
      /\ UNCHANGED <<swSocket, SwInjectData, datas, finishes>>
    <2>1. b = (pc[g].moved # {})
        BY <1>2
    <2>2. QED
        BY <1>1, <1>3, <2>1 DEF Socket!AdoptSpan, Socket!Use
<1>5. /\ pc[g] \in SocketSteps /\ pc[g].data \in 1..Len(datas) /\ pc[g].data # 0
      /\ d \in 1..Len(datas) /\ datas[d] \in InjectData
      /\ pc[g].moved = {} => d = pc[g].data
    BY <1>1, <1>4, DataFound DEF Reads
<1>6. /\ u.span = datas[d].span /\ u.data = pc[g].data /\ (u.moved <=> pc[g].moved # {})
      /\ u \in Uses
    BY <1>2, <1>3, <1>5 DEF Uses, InjectData, SocketSteps
<1>7. UseOK(u)'
    BY <1>4, <1>5, <1>6 DEF UseOK
<1>8. /\ e \in SocketSteps /\ e.at = "serve" /\ e.data = pc[g].data /\ e.moved = pc[g].moved
      /\ pc' = [pc EXCEPT ![g] = e]
    BY <1>1, <1>5, SocketTypes DEF SocketSteps, Reads, Socket!AdoptSpan
<1>9. pc'[g] = e /\ used' \subseteq Uses /\ \A v \in used' : v \in used \/ UseOK(v)'
    BY <1>4, <1>6, <1>7, <1>8, SocketTypes
<1>10. AdoptedOK(g)
    BY <1>4 DEF SocketInv, StepInv, StepOK
<1>11. AdoptedOK(g)'
    BY <1>4, <1>8, <1>9, <1>10 DEF AdoptedOK
<1>12. StepOK(g)'
    BY <1>5, <1>8, <1>9, <1>11 DEF StepOK, Reads
<1>13. QED
    BY <1>4, <1>8, <1>9, <1>12, StepTaken

LEMMA CloseReadKeeps ==
    ASSUME SocketInv, NEW g \in Goroutines, Socket!CloseRead(g)
    PROVE  SocketInv'
<1>1. PICK e : e = [Socket!Idle EXCEPT !.at = "do", !.data = SwInjectData]
    OBVIOUS
<1>2. e = [at |-> "do", data |-> SwInjectData, moved |-> {}]
    BY <1>1 DEF Socket!Idle
<1>3. e \in SocketSteps /\ e.at = "do" /\ e.data \in 1..Len(datas)
    BY <1>2, SocketTypes DEF SocketSteps, Socket!CloseRead
<1>4. /\ pc' = [pc EXCEPT ![g] = e] /\ pc[g].at # "clear"
      /\ UNCHANGED <<swSocket, SwInjectData, datas, finishes, used>>
    BY <1>1 DEF Socket!CloseRead, Socket!Idle
<1>5. pc'[g] = e /\ used' \subseteq Uses
    BY <1>4, SocketTypes
<1>6. StepOK(g)'
    BY <1>3, <1>4, <1>5 DEF StepOK, Reads
<1>7. QED
    BY <1>3, <1>4, <1>5, <1>6, StepTaken

LEMMA CallKeeps ==
    ASSUME SocketInv, NEW g \in Goroutines, Socket!Call(g)
    PROVE  SocketInv'
<1>1. /\ pc[g].at = "serve" /\ UNCHANGED <<SwInjectData, datas, pc, finishes>>
      /\ swSocket \in SocketTracings /\ Len(swSocket.log) \in Nat
      /\ "exit" \in SpanKinds /\ "call" \in SocketNames
    BY SocketTypes DEF Socket!Call, SpanKinds, SocketNames
<1>2. PICK c, n, t, u : /\ c = swSocket.act[g] /\ n = Len(swSocket.log) + 1
                        /\ t = Create(swSocket, g, "exit", "call") /\ u = EndSpan(t, g, n)
    OBVIOUS
<1>3. c # NoContext /\ c \in Contexts
    <2>1. CASE pc[g].data = 0
        BY <1>1, <1>2, <2>1, SocketTypes DEF SocketInv, StepInv, StepOK, Passive, NoContext
    <2>2. CASE pc[g].data # 0
        <3>1. c.snap /\ ~NoContext.snap
            BY <1>1, <1>2, <2>2 DEF SocketInv, StepInv, StepOK, AdoptedOK, NoContext
        <3>2. QED
            BY <1>2, <3>1, SocketTypes
    <2>3. QED
        BY <2>1, <2>2
<1>4. ~Reuses(swSocket, g, "exit")
    BY <1>2 DEF Reuses, SocketInv, HeldInv, Held, HoldsEntry, Passive
<1>5. PICK r : r = [kind |-> "exit", name |-> "call", parent |-> c, depth |-> 1, async |-> "no"]
    OBVIOUS
<1>6. /\ t \in SocketTracings /\ Len(t.log) = n /\ t.log[Len(t.log)] = r
      /\ \A i \in 1..Len(swSocket.log) : t.log[i] = swSocket.log[i]
      /\ t.act[g] = [span |-> Len(t.log), snap |-> FALSE]
      /\ \A h \in Goroutines : h # g => t.act[h] = swSocket.act[h]
    BY <1>1, <1>2, <1>3, <1>4, <1>5, CreateMakes DEF SocketTracings
<1>7. /\ t.log[n] = r /\ t.act[g].span = n /\ n \in 1..Len(t.log) /\ t.act[g] # NoContext
    BY <1>1, <1>2, <1>6 DEF NoContext
<1>8. r.depth = 1 /\ r.parent = c
    BY <1>5
<1>9. /\ u \in SocketTracings /\ Len(u.log) = n
      /\ \A i \in 1..Len(t.log) : i # n => u.log[i] = t.log[i]
      /\ SameSpan(u.log[n], r) /\ u.act[g] = c
      /\ \A h \in Goroutines : h # g => u.act[h] = t.act[h]
    <2>1. t \in Tracings(Goroutines, SocketNames) /\ t.log[n].depth = 1 /\ u = EndSpan(t, g, n)
        BY <1>2, <1>6, <1>7, <1>8 DEF SocketTracings
    <2>2. /\ u \in Tracings(Goroutines, SocketNames) /\ Len(u.log) = Len(t.log)
          /\ \A i \in 1..Len(t.log) : i # n => u.log[i] = t.log[i]
          /\ SameSpan(u.log[n], t.log[n])
          /\ u.act[g] = IF t.act[g] = NoContext THEN t.act[g] ELSE t.log[n].parent
          /\ \A h \in Goroutines : h # g => u.act[h] = t.act[h]
        BY <1>7, <2>1, EndSpanCloses
    <2>3. u.act[g] = c
        BY <1>7, <1>8, <2>2
    <2>4. QED
        BY <1>6, <1>7, <2>2, <2>3 DEF SocketTracings
<1>10. /\ Len(swSocket.log) <= Len(u.log) /\ u.act[g] = swSocket.act[g]
       /\ \A i \in 1..Len(swSocket.log) : u.log[i] = swSocket.log[i]
       /\ \A h \in Goroutines : h # g => u.act[h] = swSocket.act[h]
       /\ n \in 1..Len(u.log) /\ u.log[n].parent = c
    BY <1>1, <1>2, <1>6, <1>8, <1>9 DEF SameSpan
<1>11. t.log[n].parent.span = c.span /\ c.span \in Nat /\ pc[g] \in SocketSteps
    BY <1>1, <1>3, <1>7, <1>8, SocketTypes DEF Contexts
<1>12. swSocket' = u
    BY <1>2, <1>7, SocketContext DEF Socket!Call
<1>13. StepOK(g)'
    BY <1>1, <1>10, <1>12 DEF SocketInv, StepInv, StepOK, AdoptedOK, Reads
<1>14. CASE pc[g].data = 0
    <2>1. used' = used
        BY <1>14 DEF Socket!Call
    <2>2. QED
        BY <1>1, <1>9, <1>10, <1>12, <1>13, <2>1, SocketKept, SocketTypes
<1>15. CASE pc[g].data # 0
    <2>1. PICK b \in BOOLEAN : b <=> "snapshot" \in pc[g].moved
        OBVIOUS
    <2>2. PICK k : k = [span |-> c.span, data |-> pc[g].data, moved |-> b]
        OBVIOUS
    <2>3. used' = used \cup {k}
        <3>1. b = ("snapshot" \in pc[g].moved)
            BY <2>1
        <3>2. Socket!Use(t.log[n].parent.span, b, pc[g].data)
            BY <1>2, <1>7, <1>15, <3>1, SocketContext DEF Socket!Call
        <3>3. QED
            BY <1>11, <2>2, <3>2 DEF Socket!Use
    <2>4. /\ k.span = c.span /\ k.data = pc[g].data /\ (k.moved <=> "snapshot" \in pc[g].moved)
          /\ k \in Uses
        BY <1>11, <2>1, <2>2 DEF SocketSteps, Uses
    <2>5. AdoptedOK(g)
        BY <1>1, <1>15 DEF SocketInv, StepInv, StepOK
    <2>6. UseOK(k)'
        BY <1>1, <1>2, <2>4, <2>5 DEF AdoptedOK, UseOK
    <2>7. used' \subseteq Uses /\ \A v \in used' : v \in used \/ UseOK(v)'
        BY <2>3, <2>4, <2>6, SocketTypes
    <2>8. QED
        BY <1>1, <1>9, <1>10, <1>12, <1>13, <2>7, SocketKept, SocketTypes
<1>16. QED
    BY <1>14, <1>15

LEMMA ServedKeeps ==
    ASSUME SocketInv, NEW g \in Goroutines, Socket!Served(g)
    PROVE  SocketInv'
<1>1. /\ pc[g].at = "serve" /\ pc' = [pc EXCEPT ![g] = Socket!Idle]
      /\ UNCHANGED <<SwInjectData, datas, finishes, used>>
    BY DEF Socket!Served
<1>2. /\ Socket!Idle \in SocketSteps /\ Socket!Idle.at = "idle" /\ Socket!Idle.data = 0
      /\ Socket!Idle.moved = {}
    BY DEF Socket!Idle, SocketSteps
<1>3. CASE pc[g].data # 0
    <2>1. UNCHANGED swSocket
        BY <1>3 DEF Socket!Served
    <2>2. QED
        BY <1>1, <2>1, GoesIdle
<1>4. CASE pc[g].data = 0
    <2>1. PICK i : i = swSocket.act[g].span
        OBVIOUS
    <2>2. /\ ~Passive(swSocket.act[g]) /\ i \in 1..Len(swSocket.log)
          /\ swSocket.log[i].depth = 1 /\ swSocket.log[i].parent = NoSpan
        BY <1>1, <1>4, <2>1 DEF SocketInv, HeldInv, Held, HoldsEntry, StepInv, StepOK
    <2>3. swSocket' = EndSpan(swSocket, g, i)
        BY <1>4, <2>1, SocketContext DEF Socket!Served
    <2>4. /\ swSocket' \in SocketTracings /\ Len(swSocket'.log) = Len(swSocket.log)
          /\ \A j \in 1..Len(swSocket.log) : j # i => swSocket'.log[j] = swSocket.log[j]
          /\ SameSpan(swSocket'.log[i], swSocket.log[i])
          /\ swSocket'.act[g] = (IF swSocket.act[g] = NoContext THEN swSocket.act[g] ELSE NoSpan)
          /\ \A h \in Goroutines : h # g => swSocket'.act[h] = swSocket.act[h]
        BY <2>2, <2>3, SocketTypes, EndSpanEnds DEF SocketTracings
    <2>5. Passive(swSocket'.act[g])
        BY <2>4 DEF Passive, NoContext, NoSpan
    <2>6. /\ pc' \in [Goroutines -> SocketSteps] /\ pc'[g] = Socket!Idle
          /\ \A h \in Goroutines : h # g => pc'[h] = pc[h]
          /\ used' \subseteq Uses
        BY <1>1, <1>2, SocketTypes
    <2>7. StepOK(g)'
        BY <1>2, <2>6 DEF StepOK, Reads
    <2>8. Len(swSocket.log) <= Len(swSocket'.log)
        BY <2>4, SocketTypes
    <2>9. QED
        BY <1>1, <1>2, <2>1, <2>2, <2>4, <2>5, <2>6, <2>7, <2>8, SocketKept
<1>5. QED
    BY <1>3, <1>4

-----------------------------------------------------------------------------
(* The steps of a connection's own span.                                    *)

\* Accept changes the goroutines' steps in what has moved alone.
Moved(h) ==
    /\ pc'[h].at = pc[h].at /\ pc'[h].data = pc[h].data
    /\ pc'[h].moved = IF pc[h].at \in Reads THEN pc[h].moved \cup {pc[h].at} ELSE pc[h].moved

LEMMA AcceptKeeps ==
    ASSUME SocketInv, NEW g \in Goroutines, Socket!Accept(g)
    PROVE  SocketInv'
<1>1. /\ pc[g] = Socket!Idle /\ SwInjectData = 0 /\ ~swSocket.act[g].snap
      /\ swSocket.act[g].span # 0 /\ UNCHANGED used
      /\ SwInjectData' = Len(datas) + 1 /\ finishes' = Append(finishes, 0)
    BY SocketContext DEF Socket!Accept
<1>2. /\ swSocket \in SocketTracings /\ Len(swSocket.log) \in Nat /\ Len(datas) \in Nat
      /\ datas \in Seq(InjectData) /\ finishes \in Seq(Nat) /\ Len(finishes) = Len(datas)
      /\ pc \in [Goroutines -> SocketSteps] /\ used \subseteq Uses
    BY SocketTypes
<1>3. PICK i, n, t, u : /\ i = swSocket.act[g].span /\ n = Len(datas) + 1
                        /\ t = PrepareAsync(swSocket, i) /\ u = EndSpan(t, g, i)
    OBVIOUS
<1>4. /\ ~Passive(swSocket.act[g]) /\ i \in 1..Len(swSocket.log)
      /\ swSocket.log[i].depth = 1 /\ swSocket.log[i].parent = NoSpan
    BY <1>1, <1>3 DEF SocketInv, HeldInv, Held, HoldsEntry, Passive
<1>5. /\ t \in SocketTracings /\ Len(t.log) = Len(swSocket.log) /\ t.act = swSocket.act
      /\ \A j \in 1..Len(swSocket.log) : j # i => t.log[j] = swSocket.log[j]
      /\ t.log[i].depth = 1 /\ t.log[i].parent = NoSpan /\ t.log[i].async = "prepared"
    <2>1. /\ swSocket \in Tracings(Goroutines, SocketNames) /\ t = PrepareAsync(swSocket, i)
          /\ i \in 1..Len(swSocket.log)
        BY <1>2, <1>3, <1>4 DEF SocketTracings
    <2>2. /\ t \in Tracings(Goroutines, SocketNames) /\ Len(t.log) = Len(swSocket.log)
          /\ t.act = swSocket.act
          /\ \A j \in 1..Len(swSocket.log) : j # i => t.log[j] = swSocket.log[j]
          /\ t.log[i].depth = swSocket.log[i].depth /\ t.log[i].parent = swSocket.log[i].parent
          /\ t.log[i].async = "prepared"
        BY <2>1, SpanPrepared
    <2>3. QED
        BY <1>4, <2>2 DEF SocketTracings
<1>6. i \in 1..Len(t.log)
    BY <1>4, <1>5
<1>7. /\ u \in SocketTracings /\ Len(u.log) = Len(swSocket.log)
      /\ \A j \in 1..Len(swSocket.log) : j # i => u.log[j] = swSocket.log[j]
      /\ SameSpan(u.log[i], t.log[i]) /\ u.log[i].depth = 0
      /\ u.act[g] = (IF t.act[g] = NoContext THEN t.act[g] ELSE NoSpan)
      /\ \A h \in Goroutines : h # g => u.act[h] = swSocket.act[h]
    <2>1. /\ u \in SocketTracings /\ Len(u.log) = Len(t.log)
          /\ \A j \in 1..Len(t.log) : j # i => u.log[j] = t.log[j]
          /\ SameSpan(u.log[i], t.log[i]) /\ u.log[i].depth = 0
          /\ u.act[g] = (IF t.act[g] = NoContext THEN t.act[g] ELSE NoSpan)
          /\ \A h \in Goroutines : h # g => u.act[h] = t.act[h]
        <3>1. t \in Tracings(Goroutines, SocketNames) /\ u = EndSpan(t, g, i)
            BY <1>3, <1>5 DEF SocketTracings
        <3>2. t.log[i].depth = 1 /\ t.log[i].parent = NoSpan
            BY <1>5
        <3>3. /\ u \in Tracings(Goroutines, SocketNames) /\ Len(u.log) = Len(t.log)
              /\ \A j \in 1..Len(t.log) : j # i => u.log[j] = t.log[j]
              /\ SameSpan(u.log[i], t.log[i]) /\ u.log[i].depth = 0
              /\ u.act[g] = IF t.act[g] = NoContext THEN t.act[g] ELSE t.log[i].parent
              /\ \A h \in Goroutines : h # g => u.act[h] = t.act[h]
            BY <1>6, <3>1, <3>2, EndSpanCloses
        <3>4. QED
            BY <3>2, <3>3 DEF SocketTracings
    <2>2. QED
        BY <1>5, <2>1
<1>8. Passive(u.act[g]) /\ u.log[i].async = "prepared" /\ u.log[i].parent = NoSpan
    BY <1>5, <1>7 DEF Passive, NoContext, NoSpan, SameSpan
<1>9. PICK c : c = CaptureContext(t, g)
    OBVIOUS
<1>10. c = [span |-> i, snap |-> TRUE] /\ c \in Contexts
    <2>1. t.act[g] = swSocket.act[g] /\ t.act[g] \in Contexts
        BY <1>5, SocketTypes
    <2>2. c = [t.act[g] EXCEPT !.snap = TRUE]
        BY <1>1, <1>9, <2>1 DEF CaptureContext, NoContext
    <2>3. QED
        BY <1>3, <2>1, <2>2 DEF Contexts
<1>11. PICK e : e = [span |-> i, snapshot |-> c, done |-> FALSE]
    OBVIOUS
<1>12. /\ e \in InjectData /\ e.span = i /\ e.snapshot = [span |-> i, snap |-> TRUE] /\ ~e.done
    BY <1>2, <1>4, <1>10, <1>11 DEF InjectData
<1>13. swSocket' = u /\ datas' = Append(datas, e)
    BY <1>3, <1>9, <1>11, SocketContext DEF Socket!Accept
<1>14. /\ datas' \in Seq(InjectData) /\ Len(datas') = n /\ datas'[n] = e
       /\ \A d \in 1..Len(datas) : datas'[d] = datas[d]
    BY <1>2, <1>3, <1>12, <1>13, AppendProperties
<1>15. /\ finishes' \in Seq(Nat) /\ Len(finishes') = n /\ finishes'[n] = 0
       /\ \A d \in 1..Len(datas) : finishes'[d] = finishes[d]
    BY <1>1, <1>2, <1>3, AppendProperties
<1>16. /\ \A d \in 1..n : d = n \/ d \in 1..Len(datas)
       /\ \A d \in 1..Len(datas) : d \in 1..n /\ d # n /\ d # 0
       /\ n \in 0..n /\ n # 0
    BY <1>2, <1>3
<1>17. /\ pc' \in [Goroutines -> SocketSteps] /\ \A h \in Goroutines : Moved(h)
    <2>1. pc' = [h \in Goroutines |-> IF pc[h].at \in Reads
                                     THEN [pc[h] EXCEPT !.moved = @ \cup {pc[h].at}] ELSE pc[h]]
        BY DEF Socket!Accept, Socket!Looking, Reads
    <2>2. ASSUME NEW h \in Goroutines PROVE pc'[h] \in SocketSteps /\ Moved(h)
        <3>1. pc[h] \in SocketSteps
            BY <1>2
        <3>2. CASE pc[h].at \in Reads
            <4>1. pc'[h] = [pc[h] EXCEPT !.moved = @ \cup {pc[h].at}]
                BY <2>1, <3>2
            <4>2. QED
                BY <3>1, <3>2, <4>1 DEF SocketSteps, Moved
        <3>3. CASE pc[h].at \notin Reads
            BY <2>1, <3>1, <3>3 DEF Moved
        <3>4. QED
            BY <3>2, <3>3
    <2>3. QED
        BY <2>1, <2>2
<1>18. SocketTypeOK'
    BY <1>1, <1>2, <1>3, <1>7, <1>13, <1>14, <1>15, <1>16, <1>17 DEF SocketTypeOK
<1>19. HeldInv'
    <2>1. ASSUME NEW h \in Goroutines, ~Passive(u.act[h])
          PROVE  /\ h # g /\ u.act[h] = swSocket.act[h] /\ HoldsEntry(u, u.act[h])
        <3>1. h # g /\ u.act[h] = swSocket.act[h]
            BY <1>7, <1>8, <2>1
        <3>2. HoldsEntry(swSocket, swSocket.act[h]) /\ swSocket.act[h].span # i
            BY <1>3, <1>4, <2>1, <3>1 DEF SocketInv, HeldInv, Held, HeldAlone
        <3>3. QED
            BY <1>7, <3>1, <3>2 DEF HoldsEntry
    <2>2. \A h \in Goroutines : Held(u, h)
        BY <2>1 DEF Held
    <2>3. \A h \in Goroutines : HeldAlone(u, h)
        BY <2>1 DEF HeldAlone, SocketInv, HeldInv
    <2>4. QED
        BY <1>13, <2>2, <2>3 DEF HeldInv
<1>20. ASSUME NEW d \in 1..Len(datas)
       PROVE  /\ datas[d].span # i /\ datas[d].span \in 1..Len(swSocket.log)
              /\ datas[d].done /\ ~Clearing(d) /\ DataOK(d)
    <2>1. DataOK(d) /\ SwInjectData # d
        BY <1>1, <1>16 DEF SocketInv, DataInv
    <2>2. datas[d].done /\ ~Clearing(d)
        BY <2>1 DEF DataOK
    <2>3. QED
        BY <1>4, <2>1, <2>2 DEF DataOK
<1>21. \A d \in 1..n : Clearing(d)' <=> Clearing(d)
    BY <1>17 DEF Clearing, Moved
<1>22. ASSUME NEW d \in 1..n PROVE DataOK(d)'
    <2>1. CASE d = n
        <3>1. /\ swSocket'.log[i].depth = 0 /\ swSocket'.log[i].async = "prepared"
              /\ i \in 1..Len(swSocket'.log)
            BY <1>4, <1>7, <1>8, <1>13
        <3>2. /\ datas'[n].span = i /\ ~datas'[n].done /\ finishes'[n] = 0 /\ SwInjectData' = n
              /\ datas'[n].snapshot = [span |-> i, snap |-> TRUE]
            BY <1>1, <1>3, <1>12, <1>14, <1>15
        <3>3. QED
            BY <2>1, <3>1, <3>2 DEF DataOK
    <2>2. CASE d \in 1..Len(datas)
        <3>1. swSocket'.log[datas[d].span] = swSocket.log[datas[d].span]
            BY <1>7, <1>13, <1>20, <2>2
        <3>2. SwInjectData' # d /\ SwInjectData # d
            BY <1>1, <1>3, <1>16, <2>2
        <3>3. /\ datas'[d] = datas[d] /\ finishes'[d] = finishes[d]
              /\ DataOK(d) /\ datas[d].done /\ ~Clearing(d)'
              /\ Len(swSocket'.log) = Len(swSocket.log)
            BY <1>7, <1>13, <1>14, <1>15, <1>16, <1>20, <1>21, <2>2
        <3>4. QED
            BY <3>1, <3>2, <3>3 DEF DataOK
    <2>3. QED
        BY <1>16, <2>1, <2>2
<1>23. DataInv'
    BY <1>14, <1>22 DEF DataInv
<1>24. DataSpansInv'
    <2>1. \A d \in 1..Len(datas) : datas'[d].span = datas[d].span /\ datas[d].span # i
        BY <1>14, <1>20
    <2>2. datas'[n].span = i
        BY <1>12, <1>14
    <2>3. QED
        BY <1>14, <1>16, <2>1, <2>2 DEF DataSpansInv, SocketInv
<1>25. StepInv'
    <2>1. ASSUME NEW h \in Goroutines PROVE StepOK(h)'
        <3>1. Moved(h) /\ StepOK(h)
            BY <1>17 DEF SocketInv, StepInv
        <3>2. CASE h = g
            <4>1. pc[h].at = "idle"
                BY <1>1, <3>2 DEF Socket!Idle
            <4>2. QED
                BY <3>1, <4>1 DEF StepOK, Moved, Reads
        <3>3. CASE h # g
            <4>1. swSocket'.act[h] = swSocket.act[h]
                BY <1>7, <1>13, <3>3
            <4>2. PICK a, d, m, later : /\ a = pc[h].at /\ d = pc[h].data /\ m = pc[h].moved
                                     /\ later = pc'[h].moved
                OBVIOUS
            <4>3. /\ pc'[h].at = a /\ pc'[h].data = d
                  /\ a \in Reads => later = m \cup {a}
                  /\ a \notin Reads => later = m
                BY <3>1, <4>2 DEF Moved
            <4>4. a \in Reads => LooksOK(h)'
                <5>1. SUFFICES ASSUME a \in Reads PROVE LooksOK(h)'
                    OBVIOUS
                <5>2. LooksOK(h)
                    BY <3>1, <4>2, <5>1 DEF StepOK
                <5>3. d \in 1..Len(datas) /\ (a = "snapshot" => "span" \notin m)
                    BY <4>2, <5>2 DEF LooksOK
                <5>4. d \in 1..Len(datas') /\ (a = "snapshot" => "span" \notin later) /\ later # {}
                    BY <1>14, <1>16, <4>3, <5>1, <5>3
                <5>5. QED
                    BY <4>2, <4>3, <5>4 DEF LooksOK
            <4>5. AdoptedOK(h) => AdoptedOK(h)'
                <5>1. SUFFICES ASSUME AdoptedOK(h) PROVE AdoptedOK(h)'
                    OBVIOUS
                <5>2. /\ d \in 1..Len(datas) /\ swSocket.act[h].snap
                      /\ "snapshot" \notin m => swSocket.act[h].span = datas[d].span
                    BY <4>2, <5>1 DEF AdoptedOK
                <5>3. /\ d \in 1..Len(datas') /\ datas'[d] = datas[d]
                      /\ "snapshot" \notin later => "snapshot" \notin m
                    BY <1>14, <1>16, <4>3, <5>2
                <5>4. QED
                    BY <4>1, <4>2, <4>3, <5>2, <5>3 DEF AdoptedOK
            <4>6. /\ a = "idle" => d = 0 /\ later = {}
                  /\ a \in {"do", "clear"} => d \in 1..Len(datas')
                  /\ a = "clear" => datas'[d].done
                  /\ a = "serve" /\ d = 0 => ~Passive(swSocket'.act[h])
                <5>1. /\ a = "idle" => d = 0 /\ m = {}
                      /\ a \in {"do", "clear"} => d \in 1..Len(datas)
                      /\ a = "clear" => datas[d].done
                      /\ a = "serve" /\ d = 0 => ~Passive(swSocket.act[h])
                    BY <3>1, <4>2 DEF StepOK
                <5>2. a = "idle" => a \notin Reads
                    BY DEF Reads
                <5>3. \A k \in 1..Len(datas) : k \in 1..Len(datas') /\ datas'[k] = datas[k]
                    BY <1>14, <1>16
                <5>4. QED
                    BY <4>1, <4>3, <5>1, <5>2, <5>3
            <4>7. a = "span" \/ (a = "serve" /\ d # 0) => AdoptedOK(h)
                BY <3>1, <4>2 DEF StepOK
            <4>8. QED
                BY <4>2, <4>3, <4>4, <4>5, <4>6, <4>7 DEF StepOK
        <3>4. QED
            BY <3>2, <3>3
    <2>2. QED
        BY <2>1 DEF StepInv
<1>26. ClearInv'
    <2>1. \A h \in Goroutines : pc'[h].at = pc[h].at
        BY <1>17 DEF Moved
    <2>2. QED
        BY <2>1 DEF SocketInv, ClearInv
<1>27. UseInv'
    <2>1. ASSUME NEW k \in used PROVE UseOK(k)'
        <3>1. UseOK(k)
            BY DEF SocketInv, UseInv
        <3>2. QED
            BY <1>14, <1>16, <3>1 DEF UseOK
    <2>2. QED
        BY <1>1, <2>1 DEF UseInv
<1>28. QED
    BY <1>19, <1>23, <1>24, <1>25, <1>26, <1>27, <1>18 DEF SocketInv

LEMMA CloseClearKeeps ==
    ASSUME SocketInv, NEW g \in Goroutines, Socket!CloseClear(g)
    PROVE  SocketInv'
<1>1. /\ pc[g].at = "clear" /\ SwInjectData' = 0 /\ pc' = [pc EXCEPT ![g] = Socket!Idle]
      /\ UNCHANGED <<swSocket, datas, finishes, used>>
    BY DEF Socket!CloseClear
<1>2. /\ pc \in [Goroutines -> SocketSteps] /\ Len(datas) \in Nat
      /\ Socket!Idle \in SocketSteps /\ Socket!Idle.at = "idle" /\ Socket!Idle.data = 0
      /\ Socket!Idle.moved = {}
    BY SocketTypes DEF Socket!Idle, SocketSteps
<1>3. /\ pc' \in [Goroutines -> SocketSteps] /\ pc'[g] = Socket!Idle
      /\ \A h \in Goroutines : h # g => pc'[h] = pc[h]
    BY <1>1, <1>2
<1>4. \A h \in Goroutines : pc'[h].at # "clear"
    BY <1>1, <1>2, <1>3 DEF SocketInv, ClearInv
<1>5. SocketTypeOK'
    BY <1>1, <1>2, <1>3 DEF SocketInv, SocketTypeOK
<1>6. \A d \in 1..Len(datas) : datas[d].done
    BY <1>1, ClearingDone DEF SocketInv, DataInv, DataOK
<1>7. \A d \in 1..Len(datas) : ~Clearing(d)'
    BY <1>4 DEF Clearing
<1>8. DataInv'
    <2>1. ASSUME NEW d \in 1..Len(datas) PROVE DataOK(d)'
        <3>1. DataOK(d) /\ d # 0
            BY DEF SocketInv, DataInv
        <3>2. QED
            BY <1>1, <1>6, <1>7, <3>1 DEF DataOK
    <2>2. QED
        BY <1>1, <2>1 DEF DataInv
<1>9. StepInv'
    <2>1. ASSUME NEW h \in Goroutines PROVE StepOK(h)'
        BY <1>1, <1>2, <1>3 DEF SocketInv, StepInv, StepOK, LooksOK, AdoptedOK, Reads
    <2>2. QED
        BY <2>1 DEF StepInv
<1>10. QED
    BY <1>1, <1>4, <1>5, <1>8, <1>9
       DEF SocketInv, HeldInv, Held, HeldAlone, HoldsEntry, DataSpansInv, ClearInv, UseInv, UseOK

LEMMA CloseFinishKeeps ==
    ASSUME SocketInv, NEW g \in Goroutines, Socket!CloseFinish(g)
    PROVE  SocketInv'
<1>1. pc[g].at = "do" /\ UNCHANGED <<SwInjectData, used>>
    BY DEF Socket!CloseFinish
<1>2. PICK d : d = pc[g].data
    OBVIOUS
<1>3. d \in 1..Len(datas) /\ DataOK(d) /\ datas[d] \in InjectData
    BY <1>1, <1>2, SocketTypes DEF SocketInv, StepInv, StepOK, DataInv
<1>4. CASE datas[d].done
    <2>1. pc' = [pc EXCEPT ![g] = Socket!Idle] /\ UNCHANGED <<swSocket, datas, finishes>>
        BY <1>2, <1>4 DEF Socket!CloseFinish, Socket!First
    <2>2. QED
        BY <1>1, <2>1, GoesIdle
<1>5. CASE ~datas[d].done
    <2>1. /\ swSocket \in SocketTracings /\ Len(swSocket.log) \in Nat /\ Len(datas) \in Nat
          /\ datas \in Seq(InjectData) /\ DOMAIN datas = 1..Len(datas)
          /\ finishes \in Seq(Nat) /\ Len(finishes) = Len(datas)
          /\ pc \in [Goroutines -> SocketSteps] /\ used \subseteq Uses
        BY SocketTypes
    <2>2. PICK i, t : i = datas[d].span /\ t = AsyncFinish(swSocket, i)
        OBVIOUS
    <2>3. /\ swSocket' = t /\ datas' = [datas EXCEPT ![d].done = TRUE]
          /\ finishes' = [finishes EXCEPT ![d] = @ + 1]
          /\ pc' = [pc EXCEPT ![g].at = "clear"]
        BY <1>2, <1>5, <2>2, SocketContext DEF Socket!CloseFinish, Socket!First
    <2>4. /\ SwInjectData = d /\ finishes[d] = 0 /\ i \in 1..Len(swSocket.log)
          /\ swSocket.log[i].depth = 0 /\ datas[d].snapshot = [span |-> i, snap |-> TRUE]
        BY <1>3, <1>5, <2>2 DEF DataOK
    <2>5. \A h \in Goroutines : pc[h].at # "clear"
        BY <1>5, <2>4, ClearingDone
    <2>6. \A e \in 1..Len(datas) : e # d => datas[e].done /\ SwInjectData # e
        BY <2>4 DEF SocketInv, DataInv, DataOK
    <2>7. /\ t \in SocketTracings /\ Len(t.log) = Len(swSocket.log) /\ t.act = swSocket.act
          /\ \A j \in 1..Len(swSocket.log) :
                /\ j # i => t.log[j] = swSocket.log[j]
                /\ t.log[j].kind = swSocket.log[j].kind
                /\ t.log[j].depth = swSocket.log[j].depth
                /\ t.log[j].parent = swSocket.log[j].parent
          /\ t.log[i].async = "finished"
        <3>1. PICK s : s = swSocket
            OBVIOUS
        <3>2. /\ s \in Tracings(Goroutines, SocketNames) /\ t = AsyncFinish(s, i)
              /\ i \in 1..Len(s.log)
            BY <2>1, <2>2, <2>4, <3>1 DEF SocketTracings
        <3>3. /\ t \in Tracings(Goroutines, SocketNames) /\ Len(t.log) = Len(s.log)
              /\ t.act = s.act
              /\ t.log[i].kind = s.log[i].kind /\ t.log[i].depth = s.log[i].depth
              /\ t.log[i].parent = s.log[i].parent /\ t.log[i].async = "finished"
            BY <3>2, SpanFinished
        <3>4. ASSUME NEW j \in 1..Len(s.log), j # i PROVE t.log[j] = s.log[j]
            BY <3>2, <3>4, SpanFinished
        <3>5. QED
            BY <3>1, <3>3, <3>4 DEF SocketTracings
    <2>8. PICK e : e = [datas[d] EXCEPT !.done = TRUE]
        OBVIOUS
    <2>9. /\ e \in InjectData /\ e.span = i /\ e.snapshot = datas[d].snapshot /\ e.done
        BY <1>3, <2>2, <2>8 DEF InjectData
    <2>10. /\ datas' \in Seq(InjectData) /\ Len(datas') = Len(datas) /\ datas'[d] = e
           /\ \A k \in 1..Len(datas) : k # d => datas'[k] = datas[k]
        <3>1. datas' = [datas EXCEPT ![d] = e]
            BY <1>3, <2>1, <2>3, <2>8
        <3>2. QED
            BY <1>3, <2>1, <2>9, <3>1, ExceptSeq
    <2>11. /\ finishes' \in Seq(Nat) /\ Len(finishes') = Len(datas) /\ finishes'[d] = 1
           /\ \A k \in 1..Len(datas) : k # d => finishes'[k] = finishes[k]
        <3>1. DOMAIN finishes = 1..Len(finishes) /\ d \in DOMAIN finishes
            BY <1>3, <2>1, LenProperties
        <3>2. finishes' = [finishes EXCEPT ![d] = 1]
            BY <2>3, <2>4, <3>1
        <3>3. QED
            BY <1>3, <2>1, <3>2, ExceptSeq
    <2>12. PICK p : p = [pc[g] EXCEPT !.at = "clear"]
        OBVIOUS
    <2>13. p \in SocketSteps /\ p.at = "clear" /\ p.data = d
        BY <1>2, <2>1, <2>12 DEF SocketSteps
    <2>14. /\ pc' \in [Goroutines -> SocketSteps] /\ pc'[g] = p
           /\ \A h \in Goroutines : h # g => pc'[h] = pc[h]
        <3>1. pc' = [pc EXCEPT ![g] = p]
            BY <2>1, <2>3, <2>12
        <3>2. QED
            BY <2>1, <2>13, <3>1
    <2>15. \A k \in 1..Len(datas) : Clearing(k)' <=> k = d
        <3>1. Clearing(d)'
            BY <2>13, <2>14 DEF Clearing
        <3>2. ASSUME NEW k \in 1..Len(datas), NEW h \in Goroutines,
                     pc'[h].at = "clear", pc'[h].data = k
              PROVE  k = d
            <4>1. h = g
                BY <2>5, <2>14, <3>2
            <4>2. QED
                BY <2>13, <2>14, <3>2, <4>1
        <3>3. QED
            BY <3>1, <3>2 DEF Clearing
    <2>16. SocketTypeOK'
        BY <1>1, <2>1, <2>3, <2>7, <2>10, <2>11, <2>14, SocketTypes DEF SocketTypeOK
    <2>17. HeldInv'
        <3>1. \A h \in Goroutines : Held(t, h)
            <4>1. ASSUME NEW h \in Goroutines PROVE Held(t, h)
                <5>1. PICK c : c = swSocket.act[h]
                    OBVIOUS
                <5>2. Passive(c) \/ HoldsEntry(swSocket, c)
                    BY <5>1 DEF SocketInv, HeldInv, Held
                <5>3. t.act[h] = c
                    BY <2>7, <5>1
                <5>4. HoldsEntry(swSocket, c) => HoldsEntry(t, c)
                    BY <2>7 DEF HoldsEntry
                <5>5. QED
                    BY <5>2, <5>3, <5>4 DEF Held
            <4>2. QED
                BY <4>1
        <3>2. \A h \in Goroutines : HeldAlone(t, h)
            BY <2>7 DEF SocketInv, HeldInv, HeldAlone
        <3>3. QED
            BY <2>3, <3>1, <3>2 DEF HeldInv
    <2>18. \A k \in 1..Len(datas) : datas'[k].span = datas[k].span
                                    /\ datas'[k].snapshot = datas[k].snapshot
        BY <2>2, <2>9, <2>10
    <2>19. DataSpansInv'
        BY <2>10, <2>18 DEF SocketInv, DataSpansInv
    <2>20. ASSUME NEW k \in 1..Len(datas) PROVE DataOK(k)'
        <3>1. CASE k = d
            BY <1>1, <2>2, <2>3, <2>4, <2>7, <2>9, <2>10, <2>11, <2>15, <3>1 DEF DataOK
        <3>2. CASE k # d
            <4>1. DataOK(k) /\ datas[k].span # i /\ datas'[k] = datas[k]
                  /\ finishes'[k] = finishes[k] /\ ~Clearing(k)' /\ datas[k].done
                  /\ SwInjectData' # k /\ SwInjectData # k
                BY <1>1, <1>3, <2>2, <2>6, <2>10, <2>11, <2>15, <3>2
                   DEF SocketInv, DataInv, DataSpansInv
            <4>2. /\ datas[k].span \in 1..Len(swSocket'.log)
                  /\ swSocket'.log[datas[k].span] = swSocket.log[datas[k].span]
                BY <2>3, <2>7, <4>1 DEF DataOK
            <4>3. QED
                BY <4>1, <4>2 DEF DataOK
        <3>3. QED
            BY <3>1, <3>2
    <2>21. DataInv'
        BY <2>10, <2>20 DEF DataInv
    <2>22. StepInv'
        <3>1. ASSUME NEW h \in Goroutines PROVE StepOK(h)'
            <4>1. CASE h = g
                BY <1>3, <2>9, <2>10, <2>13, <2>14, <4>1 DEF StepOK, Reads
            <4>2. CASE h # g
                <5>1. StepOK(h) /\ pc'[h] = pc[h] /\ swSocket'.act[h] = swSocket.act[h]
                      /\ pc[h].at # "clear"
                    BY <2>3, <2>5, <2>7, <2>14, <4>2 DEF SocketInv, StepInv
                <5>2. QED
                    BY <1>1, <2>10, <2>18, <5>1 DEF StepOK, LooksOK, AdoptedOK
            <4>3. QED
                BY <4>1, <4>2
        <3>2. QED
            BY <3>1 DEF StepInv
    <2>23. ClearInv'
        BY <2>5, <2>14 DEF ClearInv
    <2>24. UseInv'
        <3>1. ASSUME NEW k \in used PROVE UseOK(k)'
            <4>1. UseOK(k)
                BY DEF SocketInv, UseInv
            <4>2. QED
                BY <2>3, <2>7, <2>10, <2>18, <4>1 DEF UseOK
        <3>2. QED
            BY <1>1, <3>1 DEF UseInv
    <2>25. QED
        BY <2>16, <2>17, <2>19, <2>21, <2>22, <2>23, <2>24 DEF SocketInv
<1>6. QED
    BY <1>4, <1>5

LEMMA SocketNextInv == SocketInv /\ (Socket!Next \/ UNCHANGED socketVars) => SocketInv'
<1> SUFFICES ASSUME SocketInv, Socket!Next \/ UNCHANGED socketVars PROVE SocketInv'
    OBVIOUS
<1>1. CASE UNCHANGED socketVars
    <2>1. UNCHANGED <<swSocket, SwInjectData, datas, pc, finishes, used>>
        BY <1>1 DEF socketVars
    <2>2. SocketTypeOK' /\ HeldInv'
        BY <2>1 DEF SocketInv, SocketTypeOK, HeldInv, Held, HeldAlone, HoldsEntry
    <2>3. DataInv' /\ DataSpansInv'
        BY <2>1 DEF SocketInv, DataInv, DataOK, DataSpansInv, Clearing
    <2>4. StepInv' /\ ClearInv'
        BY <2>1 DEF SocketInv, StepInv, StepOK, LooksOK, AdoptedOK, ClearInv
    <2>5. UseInv'
        BY <2>1 DEF SocketInv, UseInv, UseOK
    <2>6. QED
        BY <2>2, <2>3, <2>4, <2>5 DEF SocketInv
<1>2. CASE Socket!Next
    <2>1. PICK g \in Goroutines :
              \/ Socket!EntrySpan(g) \/ Socket!Accept(g)
              \/ Socket!CloseRead(g) \/ Socket!CloseFinish(g) \/ Socket!CloseClear(g)
              \/ Socket!ServeRequest(g) \/ Socket!Crash(g)
              \/ Socket!AdoptSnapshot(g) \/ Socket!AdoptSpan(g)
              \/ Socket!Call(g) \/ Socket!Served(g)
        BY <1>2 DEF Socket!Next
    <2>2. QED
        BY <2>1, EntrySpanKeeps, AcceptKeeps, CloseReadKeeps, CloseFinishKeeps, CloseClearKeeps,
           ServeRequestKeeps, CrashKeeps, AdoptSnapshotKeeps, AdoptSpanKeeps, CallKeeps,
           ServedKeeps
<1>3. QED
    BY <1>1, <1>2

LEMMA SocketInvSafe == SocketInv => Socket!FinishedOnce
<1> SUFFICES ASSUME SocketInv PROVE Socket!FinishedOnce
    OBVIOUS
<1>1. ASSUME NEW d \in DOMAIN datas
      PROVE  /\ finishes[d] = IF datas[d].done THEN 1 ELSE 0
             /\ Socket!Reported(swSocket, datas[d].span) <=> datas[d].done
             /\ SwInjectData = d <=> (~datas[d].done \/ Socket!Clearing(d))
    <2>1. DataOK(d)
        BY SocketTypes DEF SocketInv, DataInv
    <2>2. Socket!Reported(swSocket, datas[d].span) <=> datas[d].done
        BY <2>1, SocketContext DEF DataOK, Reported
    <2>3. QED
        BY <2>1, <2>2 DEF DataOK, Clearing, Socket!Clearing
<1>2. \A u \in used : u.moved \/ u.span = datas[u.data].span
    BY DEF SocketInv, UseInv, UseOK
<1>3. QED
    BY <1>1, <1>2 DEF Socket!FinishedOnce
-----------------------------------------------------------------------------
(* Mongo: the monitors of clients that share options, and the spans of       *)
(* their commands.                                                          *)

LEMMA MongoContext ==
    /\ Mongo!Empty(Goroutines) = Empty(Goroutines)
    /\ Mongo!NoContext = NoContext
    /\ \A t, g, kind, name : Mongo!Create(t, g, kind, name) = Create(t, g, kind, name)
    /\ \A t, g, i : Mongo!EndSpan(t, g, i) = EndSpan(t, g, i)
    /\ \A t, g : Mongo!ActiveSpan(t, g) = t.act[g].span
    /\ \A t, i : Mongo!PrepareAsync(t, i) = PrepareAsync(t, i)
    /\ \A t, i : Mongo!AsyncFinish(t, i) = AsyncFinish(t, i)
    /\ \A t, i : Mongo!Reported(t, i) <=> Reported(t, i)
BY DEF Mongo!Empty, Empty, Mongo!Create, Create, Mongo!EndSpan, EndSpan,
   Mongo!ActiveSpan, Mongo!NoContext, NoContext, Mongo!NoSpan, NoSpan, Mongo!Reuses,
   Reuses, Mongo!PrepareAsync, PrepareAsync, Mongo!AsyncFinish, AsyncFinish,
   Mongo!Reported, Reported

MongoNames == {"app", "command"}
MongoTracings == Tracings(Goroutines, MongoNames)

\* No goroutine holds an exit span: those of commands are popped as they are made.
NoneExits(t) ==
    \A g \in Goroutines :
        \/ Passive(t.act[g])
        \/ t.act[g].span \in 1..Len(t.log) /\ t.log[t.act[g].span].kind = "local"

\* What a layer leaves: one span more, set aside and ended.
Aside(r, from) ==
    r.depth = 0 /\ r.async = "prepared" /\ r.kind = "exit" /\ r.parent.span = from
Layered(t, u, g, n) ==
    /\ u \in MongoTracings /\ NoneExits(u) /\ Len(u.log) = Len(t.log) + n
    /\ \A i \in 1..Len(t.log) : u.log[i] = t.log[i]
    /\ \A i \in 1..Len(u.log) : i > Len(t.log) => Aside(u.log[i], t.act[g].span)
    /\ u.act[g].span = t.act[g].span

LEMMA LayerSpanLayers ==
    ASSUME NEW t \in MongoTracings, NoneExits(t), NEW g \in Goroutines,
           NEW u, u = Mongo!LayerSpan(t, g)
    PROVE  Layered(t, u, g, 1)
<1>1. /\ t \in Tracings(Goroutines, MongoNames) /\ Len(t.log) \in Nat
      /\ "exit" \in SpanKinds /\ "command" \in MongoNames /\ t.act[g] \in Contexts
    BY TracingTypes DEF MongoTracings, SpanKinds, MongoNames
<1>2. ~Reuses(t, g, "exit")
    BY DEF Reuses, NoneExits, Passive
<1>3. PICK n, p, v, w : /\ n = Len(t.log) + 1
                        /\ p = (IF t.act[g] = NoContext THEN NoSpan ELSE t.act[g])
                        /\ v = Create(t, g, "exit", "command") /\ w = PrepareAsync(v, n)
    OBVIOUS
<1>4. PICK r : r = [kind |-> "exit", name |-> "command", parent |-> p, depth |-> 1,
                    async |-> "no"]
    OBVIOUS
<1>5. /\ v \in MongoTracings /\ Len(v.log) = n /\ v.log[Len(v.log)] = r
      /\ \A i \in 1..Len(t.log) : v.log[i] = t.log[i]
      /\ v.act[g] = [span |-> Len(v.log), snap |-> FALSE]
      /\ \A h \in Goroutines : h # g => v.act[h] = t.act[h]
    BY <1>1, <1>2, <1>3, <1>4, CreateMakes DEF MongoTracings
<1>6. /\ v.log[n] = r /\ v.act[g].span = n /\ n \in 1..Len(v.log) /\ v.act[g] # NoContext
      /\ v \in Tracings(Goroutines, MongoNames)
    BY <1>1, <1>3, <1>5 DEF NoContext, MongoTracings
<1>7. r.depth = 1 /\ r.parent = p /\ r.kind = "exit"
    BY <1>4
<1>8. /\ w \in Tracings(Goroutines, MongoNames) /\ Len(w.log) = Len(v.log) /\ w.act = v.act
      /\ \A j \in 1..Len(v.log) : j # n => w.log[j] = v.log[j]
      /\ w.log[n].kind = v.log[n].kind /\ w.log[n].parent = v.log[n].parent
      /\ w.log[n].depth = v.log[n].depth /\ w.log[n].async = "prepared"
    BY <1>3, <1>6, SpanPrepared
<1>9. u = EndSpan(w, g, n)
    BY <1>3, <1>6, MongoContext DEF Mongo!LayerSpan
<1>10. /\ u \in Tracings(Goroutines, MongoNames) /\ Len(u.log) = Len(w.log)
       /\ \A j \in 1..Len(w.log) : j # n => u.log[j] = w.log[j]
       /\ SameSpan(u.log[n], w.log[n]) /\ u.log[n].depth = 0
       /\ u.act[g] = p
       /\ \A h \in Goroutines : h # g => u.act[h] = w.act[h]
    <2>1. n \in 1..Len(w.log) /\ w.log[n].depth = 1 /\ w.log[n].parent = p
          /\ w.act[g] # NoContext
        BY <1>6, <1>7, <1>8
    <2>2. QED
        BY <1>8, <1>9, <2>1, EndSpanEnds
<1>11. Len(u.log) = Len(t.log) + 1
    BY <1>3, <1>5, <1>8, <1>10
<1>12. ASSUME NEW i \in 1..Len(t.log) PROVE u.log[i] = t.log[i]
    <2>1. i \in 1..Len(v.log) /\ i \in 1..Len(w.log) /\ i # n
        BY <1>1, <1>3, <1>5, <1>8
    <2>2. QED
        BY <1>5, <1>8, <1>10, <2>1
<1>13. p.span = t.act[g].span
    BY <1>3 DEF NoContext, NoSpan
<1>14. Aside(u.log[n], t.act[g].span)
    BY <1>6, <1>7, <1>8, <1>10, <1>13 DEF Aside, SameSpan
<1>15. \A i \in 1..Len(u.log) : i > Len(t.log) => i = n
    BY <1>1, <1>3, <1>11
<1>16. NoneExits(u)
    <2>1. ASSUME NEW c, \/ Passive(c)
                        \/ c.span \in 1..Len(t.log) /\ t.log[c.span].kind = "local"
          PROVE  \/ Passive(c)
                 \/ c.span \in 1..Len(u.log) /\ u.log[c.span].kind = "local"
        BY <1>1, <1>11, <1>12, <2>1
    <2>2. ASSUME NEW h \in Goroutines PROVE u.act[h] = t.act[h] \/ Passive(u.act[h])
        BY <1>3, <1>5, <1>8, <1>10 DEF Passive, NoSpan
    <2>3. QED
        BY <2>1, <2>2 DEF NoneExits
<1>17. QED
    BY <1>10, <1>11, <1>12, <1>13, <1>14, <1>15, <1>16 DEF Layered, MongoTracings

\* The layers one after the other: by induction on how many there are.
LEMMA LayerSpansLayer ==
    ASSUME NEW t \in MongoTracings, NoneExits(t), NEW g \in Goroutines,
           NEW layers \in Seq(Nat), NEW u, u = Mongo!LayerSpans(t, g, layers)
    PROVE  Layered(t, u, g, Len(layers))
<1> DEFINE n == Len(layers)
           Prefix(f, m) ==
               /\ DOMAIN f = 0..m /\ f[0] = t
               /\ \A k \in 1..m : f[k] = Mongo!LayerSpan(f[k - 1], g)
               /\ \A k \in 0..m : Layered(t, f[k], g, k)
               /\ f = [k \in 0..m |-> f[k]]
<1>1. n \in Nat /\ Len(t.log) \in Nat
    BY LenProperties, TracingTypes DEF MongoTracings
<1>2. PICK S : S = {k \in Nat : \E f : Prefix(f, k)}
    OBVIOUS
<1>3. \A m \in Nat : m \in S
    <2>1. S = {k \in Nat : \E f : Prefix(f, k)}
        BY <1>2
    <2>2. 0 \in S
        <3>1. PICK f : f = [k \in 0..0 |-> t]
            OBVIOUS
        <3>2. Layered(t, t, g, 0)
            BY <1>1 DEF Layered
        <3>3. Prefix(f, 0)
            BY <3>1, <3>2
        <3>4. QED
            BY <2>1, <3>3
    <2>3. ASSUME NEW m \in Nat, m \in S PROVE m + 1 \in S
        <3>1. PICK f : Prefix(f, m)
            BY <2>1, <2>3
        <3>2. PICK v, h : /\ v = Mongo!LayerSpan(f[m], g)
                          /\ h = [k \in 0..(m + 1) |-> IF k <= m THEN f[k] ELSE v]
            OBVIOUS
        <3>3. PICK w : w = f[m]
            OBVIOUS
        <3>4. Layered(t, w, g, m) /\ w \in MongoTracings /\ NoneExits(w)
            BY <3>1, <3>3 DEF Layered
        <3>5. Layered(w, v, g, 1)
            BY <3>2, <3>3, <3>4, LayerSpanLayers
        <3>6. Layered(t, v, g, m + 1)
            <4>1. Len(w.log) = Len(t.log) + m /\ Len(v.log) = Len(t.log) + (m + 1)
                <5>1. Len(w.log) = Len(t.log) + m
                    BY <3>4 DEF Layered
                <5>2. Len(v.log) = Len(w.log) + 1
                    BY <3>5 DEF Layered
                <5>3. ASSUME NEW a \in Nat, NEW b, NEW c, b = a + m, c = b + 1
                      PROVE  c = a + (m + 1)
                    BY <5>3
                <5>4. QED
                    BY <1>1, <5>1, <5>2, <5>3
            <4>2. ASSUME NEW i \in 1..Len(t.log) PROVE v.log[i] = t.log[i]
                BY <1>1, <3>4, <3>5, <4>1 DEF Layered
            <4>3. ASSUME NEW i \in 1..Len(v.log), i > Len(t.log)
                  PROVE  Aside(v.log[i], t.act[g].span)
                <5>1. CASE i > Len(w.log)
                    BY <3>4, <3>5, <5>1 DEF Layered
                <5>2. CASE i \in 1..Len(w.log)
                    BY <3>4, <3>5, <4>3, <5>2 DEF Layered
                <5>3. QED
                    BY <1>1, <4>1, <5>1, <5>2
            <4>4. QED
                BY <3>4, <3>5, <4>1, <4>2, <4>3 DEF Layered
        <3>7. /\ DOMAIN h = 0..(m + 1) /\ h[m + 1] = v
              /\ \A k \in 0..m : h[k] = f[k]
              /\ \A k \in 0..(m + 1) : k \in 0..m \/ k = m + 1
              /\ \A k \in 1..m : k \in 0..m /\ k - 1 \in 0..m
              /\ m \in 0..m /\ 0 \in 0..m
            BY <3>2
        <3>8. \A k \in 1..(m + 1) : h[k] = Mongo!LayerSpan(h[k - 1], g)
            <4>1. ASSUME NEW k \in 1..(m + 1) PROVE h[k] = Mongo!LayerSpan(h[k - 1], g)
                <5>1. CASE k = m + 1
                    BY <3>2, <3>7, <5>1
                <5>2. CASE k \in 1..m
                    BY <3>1, <3>7, <5>2
                <5>3. QED
                    BY <5>1, <5>2
            <4>2. QED
                BY <4>1
        <3>9. \A k \in 0..(m + 1) : Layered(t, h[k], g, k)
            BY <3>1, <3>7, <3>6
        <3>10. h = [k \in 0..(m + 1) |-> h[k]]
            BY <3>2
        <3>11. h[0] = t
            BY <3>1, <3>7
        <3>12. Prefix(h, m + 1)
            BY <3>7, <3>8, <3>9, <3>10, <3>11
        <3>13. m + 1 \in Nat /\ \E e : Prefix(e, m + 1)
            <4> HIDE DEF Prefix
            <4> QED
                BY <3>12
        <3>14. QED
            BY <2>1, <3>13
    <2>4. QED
        BY <2>1, <2>2, <2>3, Induction
<1>4. PICK f : Prefix(f, n)
    BY <1>1, <1>2, <1>3
<1> DEFINE Unfolded(e) == e = [k \in 0..n |-> IF k = 0 THEN t ELSE Mongo!LayerSpan(e[k - 1], g)]
<1>5. Unfolded(f)
    <2>1. \A k \in 0..n : f[k] = IF k = 0 THEN t ELSE Mongo!LayerSpan(f[k - 1], g)
        <3>1. ASSUME NEW k \in 0..n, k # 0 PROVE f[k] = Mongo!LayerSpan(f[k - 1], g)
            <4>1. k \in 1..n
                BY <1>1, <3>1
            <4>2. QED
                BY <1>4, <4>1
        <3>2. QED
            BY <1>4, <3>1
    <2>2. f = [k \in 0..n |-> f[k]]
        BY <1>4
    <2>3. QED
        BY <2>1, <2>2
<1>6. PICK h : h = CHOOSE e : Unfolded(e)
    OBVIOUS
<1>7. Unfolded(h)
    BY <1>5, <1>6
<1>8. u = h[n]
    BY <1>6 DEF Mongo!LayerSpans
<1>9. PICK Q : Q = {k \in Nat : k <= n => h[k] = f[k]}
    OBVIOUS
<1>10. \A m \in Nat : m \in Q
    <2>1. Q = {k \in Nat : k <= n => h[k] = f[k]}
        BY <1>9
    <2>2. 0 \in Q
        BY <1>1, <1>4, <1>7, <2>1
    <2>3. ASSUME NEW m \in Nat, m \in Q PROVE m + 1 \in Q
        <3>1. SUFFICES ASSUME m + 1 <= n PROVE h[m + 1] = f[m + 1]
            BY <2>1
        <3>2. h[m] = f[m]
            BY <1>1, <2>1, <2>3, <3>1
        <3>3. m + 1 \in 1..n /\ m + 1 \in 0..n /\ m + 1 # 0 /\ (m + 1) - 1 = m
            BY <1>1, <3>1
        <3>4. h[m + 1] = Mongo!LayerSpan(h[m], g)
            BY <1>7, <3>3
        <3>5. f[m + 1] = Mongo!LayerSpan(f[m], g)
            BY <1>4, <3>3
        <3>6. QED
            BY <3>2, <3>4, <3>5
    <2>4. QED
        BY <2>1, <2>2, <2>3, Induction
<1>11. u = f[n] /\ n \in 0..n
    BY <1>1, <1>8, <1>9, <1>10
<1>12. QED
    BY <1>4, <1>11

-----------------------------------------------------------------------------
(* The options that clients are made of.                                    *)

Monitors == [user : BOOLEAN, layers : Seq(Nat)]
Options == [hosts : BOOLEAN, monitor : Monitors]

LEMMA MergedOne ==
    ASSUME NEW options, NEW o
    PROVE  Mongo!Merged(options, <<o>>) = options[o].monitor
<1>1. PICK L : L = {i \in DOMAIN <<o>> : options[<<o>>[i]].monitor # Mongo!NoMonitor}
    OBVIOUS
<1>2. DOMAIN <<o>> = 1..1 /\ <<o>>[1] = o
    OBVIOUS
<1>3. CASE L = {}
    <2>1. Mongo!Merged(options, <<o>>) = Mongo!NoMonitor
        BY <1>1, <1>3 DEF Mongo!Merged
    <2>2. 1 \notin L /\ 1 \in DOMAIN <<o>>
        BY <1>2, <1>3
    <2>3. options[o].monitor = Mongo!NoMonitor
        BY <1>1, <1>2, <2>2
    <2>4. QED
        BY <2>1, <2>3
<1>4. CASE L # {}
    <2>1. PICK c : c = CHOOSE i \in L : \A j \in L : j <= i
        OBVIOUS
    <2>2. L \in SUBSET (0..1)
        BY <1>1, <1>2
    <2>3. c \in L
        BY <1>4, <2>1, <2>2, ChosenGreatest
    <2>4. c = 1
        BY <1>1, <1>2, <2>3
    <2>5. Mongo!Merged(options, <<o>>) = options[<<o>>[c]].monitor
        BY <1>1, <1>4, <2>1 DEF Mongo!Merged
    <2>6. QED
        BY <1>2, <2>4, <2>5
<1>5. QED
    BY <1>3, <1>4

LEMMA MergedTwo ==
    ASSUME NEW options, NEW o, NEW p
    PROVE  Mongo!Merged(options, <<o, p>>) =
               IF options[p].monitor # Mongo!NoMonitor THEN options[p].monitor
               ELSE options[o].monitor
<1>1. PICK L : L = {i \in DOMAIN <<o, p>> : options[<<o, p>>[i]].monitor # Mongo!NoMonitor}
    OBVIOUS
<1>2. DOMAIN <<o, p>> = 1..2 /\ <<o, p>>[1] = o /\ <<o, p>>[2] = p
    OBVIOUS
<1>3. /\ 1 \in L <=> options[o].monitor # Mongo!NoMonitor
      /\ 2 \in L <=> options[p].monitor # Mongo!NoMonitor
      /\ \A i \in L : i = 1 \/ i = 2
    BY <1>1, <1>2
<1>4. CASE L = {}
    <2>1. Mongo!Merged(options, <<o, p>>) = Mongo!NoMonitor
        BY <1>1, <1>4 DEF Mongo!Merged
    <2>2. QED
        BY <1>3, <1>4, <2>1
<1>5. CASE L # {}
    <2>1. PICK c : c = CHOOSE i \in L : \A j \in L : j <= i
        OBVIOUS
    <2>2. L \in SUBSET (0..2)
        BY <1>1, <1>2
    <2>3. c \in L /\ \A j \in L : j <= c
        BY <1>5, <2>1, <2>2, ChosenGreatest
    <2>4. c = IF 2 \in L THEN 2 ELSE 1
        BY <1>3, <2>3
    <2>5. Mongo!Merged(options, <<o, p>>) = options[<<o, p>>[c]].monitor
        BY <1>1, <1>5, <2>1 DEF Mongo!Merged
    <2>6. QED
        BY <1>2, <1>3, <2>4, <2>5
<1>6. QED
    BY <1>4, <1>5

\* NewClient keeps the application's monitor inside the layers of its option, and gives an
\* option with hosts a layer for every time it is in the list.
LEMMA OptionWrapped ==
    ASSUME NEW o \in Options, NEW map \in Nat, NEW n \in Nat,
           NEW w, w = Mongo!Wrapped(o, map, n)
    PROVE  /\ w \in Options /\ (w.monitor.user <=> o.monitor.user)
           /\ o.hosts /\ n > 0 => w.monitor # Mongo!NoMonitor
           /\ ~o.hosts => w = o
<1>1. CASE o.hosts
    <2>1. PICK q, new, k : /\ q = o.monitor /\ new = [j \in 1..n |-> map]
                           /\ k = o.monitor.layers \o new
        OBVIOUS
    <2>2. q \in Monitors /\ q.layers \in Seq(Nat)
        BY <2>1 DEF Options, Monitors
    <2>3. new \in Seq(Nat) /\ Len(new) = n
        <3>1. new \in [1..n -> Nat]
            BY <2>1
        <3>2. new \in Seq(Nat)
            BY <3>1, SeqDef
        <3>3. QED
            BY <3>1, <3>2, LenProperties
    <2>4. k \in Seq(Nat) /\ Len(k) = Len(q.layers) + n /\ Len(q.layers) \in Nat
        BY <2>1, <2>2, <2>3, ConcatProperties, LenProperties
    <2>5. PICK m : m = [q EXCEPT !.layers = k]
        OBVIOUS
    <2>6. m \in Monitors /\ m.user = q.user /\ m.layers = k
        BY <2>2, <2>4, <2>5 DEF Monitors
    <2>7. w = [o EXCEPT !.monitor = m]
        BY <1>1, <2>1, <2>5 DEF Mongo!Wrapped
    <2>8. w \in Options /\ w.monitor = m
        BY <2>6, <2>7 DEF Options
    <2>9. n > 0 => k # <<>>
        BY <2>4
    <2>10. Mongo!NoMonitor.layers = <<>>
        BY DEF Mongo!NoMonitor
    <2>11. n > 0 => m # Mongo!NoMonitor
        BY <2>6, <2>9, <2>10
    <2>12. QED
        BY <1>1, <2>1, <2>6, <2>8, <2>11
<1>2. CASE ~o.hosts
    BY <1>2 DEF Mongo!Wrapped
<1>3. QED
    BY <1>1, <1>2

LEMMA MongoCardinality == \A S : Mongo!Cardinality(S) = Cardinality(S)
BY DEF Mongo!Cardinality, Cardinality

\* How often a list has an option: a number, and not zero when it has it.
Times(list, o) == Cardinality({i \in DOMAIN list : list[i] = o})
LEMMA TimesInList ==
    ASSUME NEW list \in Mongo!Lists, NEW o
    PROVE  Times(list, o) \in Nat /\ (o \in ToSet(list) => Times(list, o) > 0)
<1>1. PICK L : L = {i \in DOMAIN list : list[i] = o}
    OBVIOUS
<1>2. DOMAIN list \subseteq 1..2
    <2>1. CASE \E p \in Opts : list = <<p>>
        BY <2>1
    <2>2. CASE \E p, q \in Opts : list = <<p, q>>
        BY <2>2
    <2>3. QED
        BY <2>1, <2>2 DEF Mongo!Lists
<1>3. IsFiniteSet(L)
    <2>1. PICK a, b \in Int : a = 1 /\ b = 2
        OBVIOUS
    <2>2. IsFiniteSet(a..b)
        BY FS_Interval
    <2>3. L \in SUBSET (a..b)
        BY <1>1, <1>2, <2>1
    <2>4. QED
        BY <2>2, <2>3, FS_Subset
<1>4. Cardinality(L) \in Nat /\ (Cardinality(L) = 0 <=> L = {})
    BY <1>3, FS_CardinalityType, FS_EmptySet
<1>5. o \in ToSet(list) => L # {}
    BY <1>1 DEF ToSet
<1>6. QED
    BY <1>1, <1>4, <1>5 DEF Times

\* The client of a list has the application's monitor exactly if it was wanted and no later
\* option with hosts hid it.
LEMMA ClientMonitor ==
    ASSUME opt \in [Opts -> Options], NEW list \in Mongo!Lists,
           NEW map \in Nat, NEW after,
           after = [o \in Opts |-> Mongo!Wrapped(opt[o], map, Times(list, o))]
    PROVE  /\ after \in [Opts -> Options]
           /\ Mongo!Merged(after, list) \in Monitors
           /\ Mongo!Merged(after, list).user
                  <=> Mongo!Merged(opt, list).user /\ ~Mongo!Hidden(list)
<1>1. ASSUME NEW o \in Opts
      PROVE  /\ after[o] \in Options /\ after[o].monitor \in Monitors
             /\ after[o].monitor.user <=> opt[o].monitor.user
             /\ o \in ToSet(list) =>
                    /\ opt[o].hosts => after[o].monitor # Mongo!NoMonitor
                    /\ ~opt[o].hosts => after[o] = opt[o]
    <2>1. opt[o] \in Options
        OBVIOUS
    <2>2. PICK q, w, n : /\ q = opt[o] /\ n = Times(list, o) /\ w = Mongo!Wrapped(q, map, n)
        OBVIOUS
    <2>3. /\ w \in Options /\ (w.monitor.user <=> opt[o].monitor.user)
          /\ opt[o].hosts /\ o \in ToSet(list) => w.monitor # Mongo!NoMonitor
          /\ ~opt[o].hosts => w = opt[o]
        <3>1. n \in Nat /\ (o \in ToSet(list) => n > 0)
            BY <2>2, TimesInList
        <3>2. q \in Options /\ w = Mongo!Wrapped(q, map, n)
            BY <2>1, <2>2
        <3>3. /\ w \in Options /\ (w.monitor.user <=> q.monitor.user)
              /\ q.hosts /\ n > 0 => w.monitor # Mongo!NoMonitor
              /\ ~q.hosts => w = q
            BY <3>1, <3>2, OptionWrapped
        <3>4. QED
            BY <2>2, <3>1, <3>3
    <2>4. after[o] = w
        BY <2>2
    <2>5. after[o] \in Options
        BY <2>1, <2>3, <2>4
    <2>6. after[o].monitor \in Monitors
        BY <2>5 DEF Options
    <2>7. QED
        BY <2>3, <2>4, <2>5, <2>6
<1>2. after \in [Opts -> Options]
    BY <1>1
<1>3. ~Mongo!NoMonitor.user
    BY DEF Mongo!NoMonitor
<1>4. ASSUME NEW o \in Opts, list = <<o>>
      PROVE  /\ Mongo!Merged(after, list) \in Monitors
             /\ Mongo!Merged(after, list).user
                    <=> Mongo!Merged(opt, list).user /\ ~Mongo!Hidden(list)
    <2>1. /\ Mongo!Merged(after, list) = after[o].monitor
          /\ Mongo!Merged(opt, list) = opt[o].monitor
        BY <1>4, MergedOne
    <2>2. DOMAIN list = 1..1
        BY <1>4
    <2>3. ~Mongo!Hidden(list)
        BY <2>2 DEF Mongo!Hidden
    <2>4. QED
        BY <1>1, <2>1, <2>3
<1>5. ASSUME NEW o \in Opts, NEW p \in Opts, list = <<o, p>>
      PROVE  /\ Mongo!Merged(after, list) \in Monitors
             /\ Mongo!Merged(after, list).user
                    <=> Mongo!Merged(opt, list).user /\ ~Mongo!Hidden(list)
    <2>1. /\ Mongo!Merged(after, list) = (IF after[p].monitor # Mongo!NoMonitor
                                          THEN after[p].monitor ELSE after[o].monitor)
          /\ Mongo!Merged(opt, list) = (IF opt[p].monitor # Mongo!NoMonitor
                                        THEN opt[p].monitor ELSE opt[o].monitor)
        BY <1>5, MergedTwo
    <2>2. DOMAIN list = 1..2 /\ list[1] = o /\ list[2] = p
        BY <1>5
    <2>3. p \in ToSet(list)
        BY <2>2 DEF ToSet
    <2>4. PICK hid : hid = Mongo!Hidden(list)
        OBVIOUS
    <2>5. Mongo!Hidden(list) <=> /\ Mongo!Merged(opt, list).user
                                 /\ opt[o].monitor = Mongo!Merged(opt, list)
                                 /\ opt[p].hosts /\ opt[p].monitor = Mongo!NoMonitor
        <3>1. \A i, j \in 1..2 : i < j <=> i = 1 /\ j = 2
            OBVIOUS
        <3>2. QED
            BY <2>2, <3>1 DEF Mongo!Hidden
    <2>6. CASE opt[p].monitor # Mongo!NoMonitor
        <3>1. Mongo!Merged(opt, list) = opt[p].monitor /\ ~Mongo!Hidden(list)
            BY <2>1, <2>5, <2>6
        <3>2. after[p].monitor # Mongo!NoMonitor
            BY <1>1, <2>3, <2>6
        <3>3. QED
            BY <1>1, <2>1, <3>1, <3>2
    <2>7. CASE opt[p].monitor = Mongo!NoMonitor /\ opt[p].hosts
        <3>1. after[p].monitor # Mongo!NoMonitor /\ ~after[p].monitor.user
            BY <1>1, <1>3, <2>3, <2>7
        <3>2. Mongo!Merged(after, list) = after[p].monitor
            BY <2>1, <3>1
        <3>3. Mongo!Merged(opt, list) = opt[o].monitor
            BY <2>1, <2>7
        <3>4. QED
            BY <1>1, <2>5, <2>7, <3>1, <3>2, <3>3
    <2>8. CASE opt[p].monitor = Mongo!NoMonitor /\ ~opt[p].hosts
        <3>1. after[p].monitor = Mongo!NoMonitor /\ ~Mongo!Hidden(list)
            BY <1>1, <2>3, <2>5, <2>8
        <3>2. /\ Mongo!Merged(after, list) = after[o].monitor
              /\ Mongo!Merged(opt, list) = opt[o].monitor
            BY <2>1, <2>8, <3>1
        <3>3. QED
            BY <1>1, <3>1, <3>2
    <2>9. QED
        BY <2>6, <2>7, <2>8
<1>6. (\E o \in Opts : list = <<o>>) \/ (\E o, p \in Opts : list = <<o, p>>)
    BY DEF Mongo!Lists
<1>7. QED
    BY <1>2, <1>4, <1>5, <1>6

-----------------------------------------------------------------------------
(* Commands.                                                                *)

MongoClients == [monitor : Monitors, wanted : BOOLEAN, hidden : BOOLEAN]
CommandStates == {"running", "failed", "succeeded"}
Commands == [client : Nat, state : CommandStates, spans : Seq(Nat), errors : SUBSET Nat,
             from : Contexts, told : BOOLEAN]

MongoTypeOK ==
    /\ swMongo \in MongoTracings
    /\ opt \in [Opts -> Options]
    /\ clients \in Seq(MongoClients)
    /\ commands \in Seq(Commands)

ClientOK(c) == clients[c].monitor.user <=> clients[c].wanted /\ ~clients[c].hidden
ClientInv == \A c \in 1..Len(clients) : ClientOK(c)

\* A command has a span for each of its client's layers, and no span twice.  Those that no
\* later layer replaced wait for its completion, and are finished by it.
LayersOf(r) == clients[commands[r].client].monitor.layers
OneEach(spans, layers) ==
    DOMAIN spans = DOMAIN layers /\ \A m, n \in DOMAIN layers : spans[m] = spans[n] => m = n
LiveOf(spans, layers) ==
    {spans[n] : n \in {n \in DOMAIN layers : ~Mongo!Replaced(layers, n)}}
Own(r) == ToSet(commands[r].spans)
Live(r) == LiveOf(commands[r].spans, LayersOf(r))
CommandOK(r) ==
    /\ commands[r].client \in 1..Len(clients)
    /\ OneEach(commands[r].spans, LayersOf(r))
    /\ Own(r) \subseteq 1..Len(swMongo.log)
    /\ \A i \in Own(r) :
          /\ swMongo.log[i].depth = 0
          /\ swMongo.log[i].async = IF commands[r].state # "running" /\ i \in Live(r)
                                    THEN "finished" ELSE "prepared"
          /\ swMongo.log[i].parent.span = commands[r].from.span
    /\ commands[r].errors = IF commands[r].state = "failed" THEN Live(r) ELSE {}
    /\ commands[r].told <=> clients[commands[r].client].monitor.user
CommandInv == \A r \in 1..Len(commands) : CommandOK(r)
OwnSpansInv == \A q, r \in 1..Len(commands) : q # r => Own(q) \cap Own(r) = {}

\* The maps have the spans of the commands that run, under the layer that made them; an
\* entry is a span of its own command.
WaitingOK(r) ==
    commands[r].state = "running" =>
        \A i \in Live(r) :
            \E e \in syncMap : e.request = r /\ e.span = i /\ e.map \in ToSet(LayersOf(r))
EntryOK(e) == e.request \in 1..Len(commands) /\ e.span \in Live(e.request)
MapInv == (\A r \in 1..Len(commands) : WaitingOK(r)) /\ (\A e \in syncMap : EntryOK(e))

LEMMA LiveAreOwn ==
    ASSUME NEW spans, NEW layers, OneEach(spans, layers)
    PROVE  /\ LiveOf(spans, layers) \subseteq ToSet(spans)
           /\ \A n \in DOMAIN layers :
                 /\ spans[n] \in ToSet(spans)
                 /\ spans[n] \in LiveOf(spans, layers) <=> ~Mongo!Replaced(layers, n)
BY DEF OneEach, LiveOf, ToSet

MongoInv ==
    /\ MongoTypeOK /\ NoneExits(swMongo) /\ ClientInv /\ CommandInv /\ OwnSpansInv /\ MapInv

LEMMA MongoTypes ==
    ASSUME MongoInv
    PROVE  /\ swMongo \in MongoTracings /\ swMongo \in Tracings(Goroutines, MongoNames)
           /\ Len(swMongo.log) \in Nat /\ opt \in [Opts -> Options]
           /\ clients \in Seq(MongoClients) /\ Len(clients) \in Nat
           /\ DOMAIN clients = 1..Len(clients)
           /\ \A c \in 1..Len(clients) : clients[c] \in MongoClients
           /\ commands \in Seq(Commands) /\ Len(commands) \in Nat
           /\ DOMAIN commands = 1..Len(commands)
           /\ \A r \in 1..Len(commands) : commands[r] \in Commands
BY LenProperties, TracingTypes DEF MongoInv, MongoTypeOK, MongoTracings

LEMMA MongoInitInv == Mongo!Init => MongoInv
<1> SUFFICES ASSUME Mongo!Init PROVE MongoInv
    OBVIOUS
<1>1. /\ swMongo \in MongoTracings /\ \A g \in Goroutines : swMongo.act[g] = NoContext
    BY MongoContext, EmptyTyped DEF Mongo!Init, MongoTracings
<1>2. clients = <<>> /\ commands = <<>> /\ syncMap = {} /\ Len(clients) = 0 /\ Len(commands) = 0
    BY DEF Mongo!Init
<1>3. opt \in [Opts -> Options]
    <2>1. Mongo!NoMonitor \in Monitors
        BY EmptySeq DEF Mongo!NoMonitor, Monitors
    <2>2. [Mongo!NoMonitor EXCEPT !.user = TRUE] \in Monitors
        BY <2>1 DEF Monitors
    <2>3. ASSUME NEW o \in [hosts : BOOLEAN,
                            monitor : {Mongo!NoMonitor, [Mongo!NoMonitor EXCEPT !.user = TRUE]}]
          PROVE  o \in Options
        BY <2>1, <2>2 DEF Options
    <2>4. QED
        BY <2>3 DEF Mongo!Init
<1>4. NoneExits(swMongo)
    BY <1>1 DEF NoneExits, Passive, NoContext
<1>5. QED
    BY <1>1, <1>2, <1>3, <1>4
       DEF MongoInv, MongoTypeOK, ClientInv, CommandInv, OwnSpansInv, MapInv

\* What is known of a command stays true while spans and clients are added.
LEMMA CommandStays ==
    ASSUME MongoInv, swMongo' \in MongoTracings, Len(swMongo.log) <= Len(swMongo'.log),
           \A i \in 1..Len(swMongo.log) : swMongo'.log[i] = swMongo.log[i],
           Len(clients') \in Nat, Len(clients) <= Len(clients'),
           \A c \in 1..Len(clients) : clients'[c] = clients[c],
           NEW r \in 1..Len(commands), commands'[r] = commands[r]
    PROVE  /\ CommandOK(r)' /\ LayersOf(r)' = LayersOf(r)
           /\ Own(r)' = Own(r) /\ Live(r)' = Live(r)
<1>1. CommandOK(r) /\ Len(swMongo.log) \in Nat /\ Len(swMongo'.log) \in Nat /\ Len(clients) \in Nat
    BY MongoTypes, TracingTypes DEF MongoInv, CommandInv, MongoTracings
<1>2. PICK c : c = commands[r].client
    OBVIOUS
<1>3. c \in 1..Len(clients) /\ c \in 1..Len(clients') /\ clients'[c] = clients[c]
    BY <1>1, <1>2 DEF CommandOK
<1>4. LayersOf(r)' = LayersOf(r)
    BY <1>2, <1>3 DEF LayersOf
<1>5. Own(r)' = Own(r)
    BY DEF Own
<1>6. Live(r)' = Live(r)
    BY <1>4 DEF Live
<1>7. ASSUME NEW i \in Own(r)
      PROVE  i \in 1..Len(swMongo'.log) /\ swMongo'.log[i] = swMongo.log[i]
    BY <1>1 DEF CommandOK
<1>8. CommandOK(r)'
    <2>1. commands'[r].client \in 1..Len(clients')
          /\ clients'[commands'[r].client] = clients[commands[r].client]
        BY <1>2, <1>3
    <2>2. Own(r)' \subseteq 1..Len(swMongo'.log)
        BY <1>5, <1>7
    <2>3. ASSUME NEW i \in Own(r)'
          PROVE  /\ swMongo'.log[i].depth = 0
                 /\ swMongo'.log[i].async = IF commands'[r].state # "running" /\ i \in Live(r)'
                                            THEN "finished" ELSE "prepared"
                 /\ swMongo'.log[i].parent.span = commands'[r].from.span
        <3>1. i \in Own(r) /\ swMongo'.log[i] = swMongo.log[i]
            BY <1>5, <1>7, <2>3
        <3>2. /\ swMongo.log[i].depth = 0
              /\ swMongo.log[i].async = IF commands[r].state # "running" /\ i \in Live(r)
                                        THEN "finished" ELSE "prepared"
              /\ swMongo.log[i].parent.span = commands[r].from.span
            BY <1>1, <3>1 DEF CommandOK
        <3>3. QED
            BY <1>6, <3>1, <3>2
    <2>4. /\ commands'[r].errors = IF commands'[r].state = "failed" THEN Live(r)' ELSE {}
          /\ commands'[r].told <=> clients'[commands'[r].client].monitor.user
        <3>1. /\ commands[r].errors = IF commands[r].state = "failed" THEN Live(r) ELSE {}
              /\ commands[r].told <=> clients[commands[r].client].monitor.user
            BY <1>1 DEF CommandOK
        <3>2. QED
            BY <1>6, <2>1, <3>1
    <2>5. OneEach(commands'[r].spans, LayersOf(r)')
        BY <1>1, <1>4 DEF CommandOK
    <2>6. QED
        BY <2>1, <2>2, <2>3, <2>4, <2>5, Zenon DEF CommandOK
<1>9. QED
    BY <1>4, <1>5, <1>6, <1>8

LEMMA MongoAppStartKeeps ==
    ASSUME MongoInv, NEW g \in Goroutines, Mongo!AppStart(g)
    PROVE  MongoInv'
<1>1. /\ swMongo.act[g].span = 0 /\ swMongo' = Create(swMongo, g, "local", "app")
      /\ UNCHANGED <<opt, clients, commands, syncMap>>
    BY MongoContext DEF Mongo!AppStart
<1>2. /\ "local" \in SpanKinds /\ "app" \in MongoNames /\ ~Reuses(swMongo, g, "local")
    BY DEF SpanKinds, MongoNames, Reuses
<1>3. PICK r : r = [kind |-> "local", name |-> "app",
                    parent |-> IF swMongo.act[g] = NoContext THEN NoSpan ELSE swMongo.act[g],
                    depth |-> 1, async |-> "no"]
    OBVIOUS
<1>4. r.kind = "local"
    BY <1>3
<1>5. /\ swMongo' \in MongoTracings /\ Len(swMongo'.log) = Len(swMongo.log) + 1
      /\ \A i \in 1..Len(swMongo.log) : swMongo'.log[i] = swMongo.log[i]
      /\ swMongo'.log[Len(swMongo'.log)] = r
      /\ swMongo'.act[g] = [span |-> Len(swMongo'.log), snap |-> FALSE]
      /\ \A h \in Goroutines : h # g => swMongo'.act[h] = swMongo.act[h]
    BY <1>1, <1>2, <1>3, MongoTypes, CreateMakes DEF MongoTracings
<1>6. /\ Len(swMongo.log) <= Len(swMongo'.log) /\ Len(swMongo'.log) \in 1..Len(swMongo'.log)
      /\ \A i \in 1..Len(swMongo.log) : i \in 1..Len(swMongo'.log)
    BY <1>5, MongoTypes
<1>7. NoneExits(swMongo')
    <2>1. swMongo'.act[g].span = Len(swMongo'.log) /\ swMongo'.log[swMongo'.act[g].span].kind = "local"
        BY <1>4, <1>5
    <2>2. ASSUME NEW h \in Goroutines, h # g
          PROVE  \/ Passive(swMongo'.act[h])
                 \/ /\ swMongo'.act[h].span \in 1..Len(swMongo'.log)
                    /\ swMongo'.log[swMongo'.act[h].span].kind = "local"
        <3>1. PICK c : c = swMongo.act[h]
            OBVIOUS
        <3>2. Passive(c) \/ (c.span \in 1..Len(swMongo.log) /\ swMongo.log[c.span].kind = "local")
            BY <3>1 DEF NoneExits, MongoInv
        <3>3. swMongo'.act[h] = c
            BY <1>5, <2>2, <3>1
        <3>4. QED
            BY <1>5, <1>6, <3>2, <3>3
    <2>3. QED
        BY <1>6, <2>1, <2>2 DEF NoneExits
<1>8. /\ MongoTypeOK' /\ ClientInv' /\ OwnSpansInv'
    <2>1. MongoTypeOK' /\ ClientInv'
        BY <1>1, <1>5 DEF MongoInv, MongoTypeOK, ClientInv, ClientOK
    <2>2. OwnSpansInv'
        BY <1>1 DEF MongoInv, OwnSpansInv, Own
    <2>3. QED
        BY <2>1, <2>2
<1>9. \A k \in 1..Len(commands) : CommandOK(k)'
    BY <1>1, <1>5, <1>6, CommandStays, MongoTypes
<1>10. MapInv'
    BY <1>1 DEF MongoInv, MapInv, WaitingOK, EntryOK, Live, LayersOf
<1>11. QED
    BY <1>1, <1>7, <1>8, <1>9, <1>10 DEF MongoInv, CommandInv

LEMMA NewClientKeeps ==
    ASSUME MongoInv, NEW list \in Mongo!Lists, Mongo!NewClient(list)
    PROVE  MongoInv'
<1>1. /\ opt \in [Opts -> Options] /\ clients \in Seq(MongoClients) /\ Len(clients) \in Nat
      /\ Len(clients) + 1 \in Nat
    BY MongoTypes
<1>2. /\ opt' = [o \in Opts |-> Mongo!Wrapped(opt[o], Len(clients) + 1, Times(list, o))]
      /\ UNCHANGED <<swMongo, commands, syncMap>>
    <2>1. opt' = [o \in Opts |-> Mongo!Wrapped(opt[o], Len(clients) + 1,
                                        Mongo!Cardinality({i \in DOMAIN list : list[i] = o}))]
        BY Zenon DEF Mongo!NewClient
    <2>2. UNCHANGED <<swMongo, commands, syncMap>>
        BY Zenon DEF Mongo!NewClient
    <2>3. QED
        BY <2>1, <2>2, MongoCardinality DEF Times
<1>3. PICK after : after = opt'
    OBVIOUS
<1>4. /\ after \in [Opts -> Options] /\ Mongo!Merged(after, list) \in Monitors
      /\ Mongo!Merged(after, list).user <=> Mongo!Merged(opt, list).user /\ ~Mongo!Hidden(list)
    BY <1>1, <1>2, <1>3, ClientMonitor
<1>5. PICK m, w, h : /\ m = Mongo!Merged(after, list)
                     /\ w = Mongo!Merged(opt, list).user /\ h = Mongo!Hidden(list)
    OBVIOUS
<1>6. PICK e : e = [monitor |-> m, wanted |-> w, hidden |-> h]
    OBVIOUS
<1>7. clients' = Append(clients, e)
    BY <1>3, <1>5, <1>6 DEF Mongo!NewClient
<1>8. w \in BOOLEAN /\ h \in BOOLEAN
    <2>1. Mongo!Merged(opt, list) \in Monitors
        <3>1. \A o \in Opts : opt[o].monitor \in Monitors
            BY <1>1 DEF Options
        <3>2. (\E o \in Opts : list = <<o>>) \/ (\E o, p \in Opts : list = <<o, p>>)
            BY DEF Mongo!Lists
        <3>3. QED
            BY <3>1, <3>2, MergedOne, MergedTwo
    <2>2. w \in BOOLEAN
        BY <1>5, <2>1 DEF Monitors
    <2>3. h \in BOOLEAN
        BY <1>5 DEF Mongo!Hidden
    <2>4. QED
        BY <2>2, <2>3
<1>9. /\ e \in MongoClients /\ e.monitor = m /\ e.wanted = w /\ e.hidden = h
    BY <1>4, <1>5, <1>6, <1>8 DEF MongoClients
<1>10. e.monitor.user <=> e.wanted /\ ~e.hidden
    BY <1>4, <1>5, <1>9
<1>11. /\ clients' \in Seq(MongoClients) /\ Len(clients') = Len(clients) + 1
       /\ \A c \in 1..Len(clients) : clients'[c] = clients[c]
       /\ clients'[Len(clients) + 1] = e
    BY <1>1, <1>7, <1>9, AppendProperties
<1>12. /\ Len(clients') \in Nat /\ Len(clients) <= Len(clients')
       /\ \A c \in 1..Len(clients') : c = Len(clients) + 1 \/ c \in 1..Len(clients)
    BY <1>1, <1>11
<1>13. MongoTypeOK'
    BY <1>2, <1>3, <1>4, <1>11 DEF MongoInv, MongoTypeOK
<1>14. ClientInv'
    BY <1>10, <1>11, <1>12 DEF MongoInv, ClientInv, ClientOK
<1>15. ASSUME NEW r \in 1..Len(commands)
       PROVE  CommandOK(r)' /\ LayersOf(r)' = LayersOf(r) /\ Live(r)' = Live(r)
    BY <1>2, <1>11, <1>12, CommandStays, MongoTypes
<1>16. MapInv'
    BY <1>2, <1>15 DEF MongoInv, MapInv, WaitingOK, EntryOK
<1>17. QED
    BY <1>2, <1>13, <1>14, <1>15, <1>16
       DEF MongoInv, NoneExits, CommandInv, OwnSpansInv, Own

LEMMA StartedKeeps ==
    ASSUME MongoInv, NEW g \in Goroutines, NEW c \in 1..Len(clients), Mongo!Started(g, c)
    PROVE  MongoInv'
<1>1. /\ swMongo \in MongoTracings /\ NoneExits(swMongo) /\ Len(swMongo.log) \in Nat
      /\ commands \in Seq(Commands) /\ Len(commands) \in Nat /\ Len(clients) \in Nat
      /\ clients[c] \in MongoClients /\ swMongo.act[g] \in Contexts
    BY MongoTypes, TracingTypes DEF MongoInv
<1>2. PICK layers, n, r, first : /\ layers = clients[c].monitor.layers /\ n = Len(layers)
                                 /\ r = Len(commands) + 1 /\ first = Len(swMongo.log)
    OBVIOUS
<1>3. /\ layers \in Seq(Nat) /\ n \in Nat /\ DOMAIN layers = 1..n
      /\ first \in Nat /\ r \in Nat
    BY <1>1, <1>2, LenProperties DEF MongoClients, Monitors
<1>4. PICK u : u = Mongo!LayerSpans(swMongo, g, layers)
    OBVIOUS
<1>5. /\ u \in MongoTracings /\ NoneExits(u) /\ Len(u.log) = first + n
      /\ \A i \in 1..first : u.log[i] = swMongo.log[i]
      /\ \A i \in 1..(first + n) : i > first => Aside(u.log[i], swMongo.act[g].span)
    <2>1. Layered(swMongo, u, g, Len(layers))
        BY <1>1, <1>3, <1>4, LayerSpansLayer
    <2>2. QED
        BY <1>2, <2>1 DEF Layered
<1>6. PICK spans, news, live, k :
          /\ spans = [j \in DOMAIN layers |-> first + j] /\ news = ToSet(spans)
          /\ live = LiveOf(spans, layers)
          /\ k = [client |-> c, state |-> "running", spans |-> spans, errors |-> {},
                  from |-> swMongo.act[g], told |-> clients[c].monitor.user]
    OBVIOUS
<1>7. /\ spans \in Seq(Nat) /\ OneEach(spans, layers) /\ live \subseteq news
      /\ \A i \in news : i \in 1..(first + n) /\ i > first
      /\ clients[c].monitor.user \in BOOLEAN
    <2>1. spans \in [1..n -> Nat]
        BY <1>3, <1>6
    <2>2. spans \in Seq(Nat)
        BY <1>3, <2>1, SeqDef
    <2>3. OneEach(spans, layers)
        BY <1>3, <1>6 DEF OneEach
    <2>4. live \subseteq news
        BY <1>6, <2>3, LiveAreOwn
    <2>5. ASSUME NEW i \in news PROVE i \in 1..(first + n) /\ i > first
        <3>1. PICK j \in 1..n : i = first + j
            BY <1>3, <1>6 DEF ToSet
        <3>2. QED
            BY <1>3, <3>1
    <2>6. clients[c].monitor.user \in BOOLEAN
        BY <1>1 DEF MongoClients, Monitors
    <2>7. QED
        BY <2>2, <2>3, <2>4, <2>5, <2>6
<1>8. /\ k \in Commands /\ k.client = c /\ k.state = "running" /\ k.spans = spans
      /\ k.errors = {} /\ k.from = swMongo.act[g] /\ (k.told <=> clients[c].monitor.user)
    BY <1>1, <1>6, <1>7 DEF Commands, CommandStates
<1>9. /\ swMongo' = u /\ commands' = Append(commands, k) /\ UNCHANGED <<opt, clients>>
      /\ syncMap' = syncMap \cup
             {[map |-> layers[j], request |-> r, span |-> first + j] :
                  j \in {j \in DOMAIN layers : ~Mongo!Replaced(layers, j)}}
    BY <1>2, <1>4, <1>6, MongoContext DEF Mongo!Started
<1>10. /\ commands' \in Seq(Commands) /\ Len(commands') = r /\ commands'[r] = k
       /\ \A q \in 1..Len(commands) : commands'[q] = commands[q]
       /\ \A q \in 1..r : q = r \/ q \in 1..Len(commands)
       /\ r \in 1..r /\ r \notin 1..Len(commands)
       /\ \A q \in 1..Len(commands) : q \in 1..r
    BY <1>1, <1>2, <1>8, <1>9, AppendProperties
<1>11. MongoTypeOK'
    BY <1>5, <1>9, <1>10 DEF MongoInv, MongoTypeOK
<1>12. ASSUME NEW q \in 1..Len(commands)
       PROVE  /\ CommandOK(q)' /\ LayersOf(q)' = LayersOf(q)
              /\ Own(q)' = Own(q) /\ Live(q)' = Live(q) /\ Own(q) \subseteq 1..first
    <2>1. /\ Len(swMongo.log) <= Len(swMongo'.log) /\ swMongo' \in MongoTracings
          /\ \A i \in 1..Len(swMongo.log) : swMongo'.log[i] = swMongo.log[i]
          /\ Len(clients') \in Nat /\ Len(clients) <= Len(clients')
          /\ \A d \in 1..Len(clients) : clients'[d] = clients[d]
        <3>1. first <= first + n
            BY <1>3
        <3>2. swMongo' = u /\ clients' = clients
            BY <1>9
        <3>3. Len(clients) <= Len(clients)
            BY <1>1
        <3>4. QED
            BY <1>1, <1>2, <1>5, <3>1, <3>2, <3>3
    <2>2. /\ CommandOK(q)' /\ LayersOf(q)' = LayersOf(q)
          /\ Own(q)' = Own(q) /\ Live(q)' = Live(q)
        BY <1>10, <2>1, CommandStays
    <2>3. QED
        BY <1>2, <2>2 DEF MongoInv, CommandInv, CommandOK
<1>13. LayersOf(r)' = layers /\ Own(r)' = news /\ Live(r)' = live
    <2>1. commands'[r].client = c /\ commands'[r].spans = spans /\ clients' = clients
        BY <1>8, <1>9, <1>10
    <2>2. LayersOf(r)' = layers
        BY <1>2, <2>1 DEF LayersOf
    <2>3. QED
        BY <1>6, <2>1, <2>2 DEF Own, Live
<1>14. CommandOK(r)'
    <2>1. ASSUME NEW i \in news
          PROVE  /\ i \in 1..Len(swMongo'.log)
                 /\ swMongo'.log[i].depth = 0 /\ swMongo'.log[i].async = "prepared"
                 /\ swMongo'.log[i].parent.span = swMongo.act[g].span
        BY <1>5, <1>7, <1>9 DEF Aside
    <2>2. commands'[r].client = c /\ clients' = clients /\ commands'[r].spans = spans
          /\ commands'[r].state = "running" /\ commands'[r].errors = {}
          /\ commands'[r].from = swMongo.act[g]
          /\ (commands'[r].told <=> clients[c].monitor.user)
        BY <1>8, <1>9, <1>10
    <2>3. Own(r)' \subseteq 1..Len(swMongo'.log)
        BY <1>13, <2>1
    <2>4. ASSUME NEW i \in Own(r)'
          PROVE  /\ swMongo'.log[i].depth = 0 /\ swMongo'.log[i].async = "prepared"
                 /\ swMongo'.log[i].parent.span = commands'[r].from.span
        BY <1>13, <2>1, <2>2
    <2>5. OneEach(commands'[r].spans, LayersOf(r)')
        BY <1>7, <1>13, <2>2
    <2>6. QED
        BY <2>2, <2>3, <2>4, <2>5 DEF CommandOK
<1>15. CommandInv'
    BY <1>10, <1>12, <1>14 DEF CommandInv
<1>16. OwnSpansInv'
    <2>1. \A q \in 1..Len(commands) : Own(q)' \cap Own(r)' = {}
        <3>1. ASSUME NEW i \in news PROVE i \notin 1..first
            BY <1>3, <1>7
        <3>2. QED
            BY <1>12, <1>13, <3>1
    <2>2. \A p, q \in 1..Len(commands) : p # q => Own(p)' \cap Own(q)' = {}
        BY <1>12 DEF OwnSpansInv, MongoInv
    <2>3. QED
        BY <1>10, <2>1, <2>2 DEF OwnSpansInv
<1>17. MapInv'
    <2>1. ASSUME NEW i \in live
          PROVE  \E e \in syncMap' : e.request = r /\ e.span = i /\ e.map \in ToSet(layers)
        <3>1. PICK j \in DOMAIN layers : ~Mongo!Replaced(layers, j) /\ i = first + j
            BY <1>6 DEF LiveOf
        <3>2. PICK e : e = [map |-> layers[j], request |-> r, span |-> first + j]
            OBVIOUS
        <3>3. e \in syncMap'
            BY <1>9, <3>1, <3>2
        <3>4. e.request = r /\ e.span = i /\ e.map = layers[j]
            BY <3>1, <3>2
        <3>5. layers[j] \in ToSet(layers)
            BY <3>1 DEF ToSet
        <3>6. QED
            BY <3>3, <3>4, <3>5
    <2>2. WaitingOK(r)'
        BY <1>13, <2>1 DEF WaitingOK
    <2>3. ASSUME NEW q \in 1..Len(commands) PROVE WaitingOK(q)'
        <3>1. WaitingOK(q)
            BY DEF MongoInv, MapInv
        <3>2. commands'[q] = commands[q] /\ syncMap \subseteq syncMap'
            BY <1>9, <1>10
        <3>3. LayersOf(q)' = LayersOf(q) /\ Live(q)' = Live(q)
            BY <1>12
        <3>4. QED
            BY <3>1, <3>2, <3>3 DEF WaitingOK
    <2>4. ASSUME NEW e \in syncMap' PROVE EntryOK(e)'
        <3>1. CASE e \in syncMap
            <4>1. e.request \in 1..Len(commands) /\ e.span \in Live(e.request)
                BY <3>1 DEF MongoInv, MapInv, EntryOK
            <4>2. e.request \in 1..Len(commands') /\ Live(e.request)' = Live(e.request)
                BY <1>10, <1>12, <4>1
            <4>3. QED
                BY <4>1, <4>2 DEF EntryOK
        <3>2. CASE e \notin syncMap
            <4>1. PICK j \in DOMAIN layers :
                      /\ ~Mongo!Replaced(layers, j)
                      /\ e = [map |-> layers[j], request |-> r, span |-> first + j]
                BY <1>9, <3>2
            <4>2. e.request = r /\ e.span = first + j
                BY <4>1
            <4>3. first + j \in live
                BY <1>6, <4>1 DEF LiveOf
            <4>4. QED
                BY <1>10, <1>13, <4>2, <4>3 DEF EntryOK
        <3>3. QED
            BY <3>1, <3>2
    <2>5. QED
        BY <1>10, <2>2, <2>3, <2>4 DEF MapInv
<1>18. QED
    BY <1>5, <1>9, <1>11, <1>15, <1>16, <1>17 DEF MongoInv, ClientInv, ClientOK

\* What the layers remove from their maps is what the command has.
LEMMA CompletedKeeps ==
    ASSUME MongoInv, NEW r \in 1..Len(commands), NEW failed \in BOOLEAN,
           Mongo!Completed(r, failed)
    PROVE  MongoInv'
<1>1. /\ swMongo \in MongoTracings /\ Len(swMongo.log) \in Nat /\ commands[r] \in Commands
      /\ swMongo \in Tracings(Goroutines, MongoNames) /\ DOMAIN swMongo.log = 1..Len(swMongo.log)
      /\ swMongo = [log |-> swMongo.log, act |-> swMongo.act]
      /\ commands \in Seq(Commands) /\ Len(commands) \in Nat /\ DOMAIN commands = 1..Len(commands)
    BY MongoTypes, TracingTypes
<1>2. CommandOK(r) /\ WaitingOK(r) /\ commands[r].state = "running"
    BY DEF MongoInv, CommandInv, MapInv, Mongo!Completed
<1>3. PICK live, state, errors, done :
          /\ live = Live(r) /\ state = (IF failed THEN "failed" ELSE "succeeded")
          /\ done = {e \in syncMap : e.request = r /\ e.map \in ToSet(LayersOf(r))}
          /\ errors = (IF failed THEN {e.span : e \in done} ELSE {})
    OBVIOUS
<1>4. {e.span : e \in done} = live
    <2>1. ASSUME NEW e \in done PROVE e.span \in live
        BY <1>3 DEF MongoInv, MapInv, EntryOK
    <2>2. ASSUME NEW i \in live PROVE \E e \in done : e.span = i
        BY <1>2, <1>3 DEF WaitingOK
    <2>3. QED
        BY <2>1, <2>2
<1>5. PICK log : log = [i \in 1..Len(swMongo.log) |->
                           IF i \in live THEN AsyncFinish(swMongo, i).log[i] ELSE swMongo.log[i]]
    OBVIOUS
<1>6. /\ swMongo' = [log |-> log, act |-> swMongo.act] /\ syncMap' = syncMap \ done
      /\ commands' = [commands EXCEPT ![r].state = state, ![r].errors = errors]
      /\ UNCHANGED <<opt, clients>>
    <2>1. \A i : (\E e \in done : e.span = i) <=> i \in live
        BY <1>4
    <2>2. done = {e \in syncMap :
                     e.request = r
                         /\ e.map \in Mongo!Range(clients[commands[r].client].monitor.layers)}
        BY <1>3 DEF LayersOf, ToSet, Mongo!Range
    <2>3. swMongo' = [swMongo EXCEPT !.log = [i \in DOMAIN @ |->
                          IF \E e \in done : e.span = i THEN Mongo!AsyncFinish(swMongo, i).log[i]
                          ELSE @[i]]]
        BY <2>2 DEF Mongo!Completed, Mongo!Finished
    <2>4. swMongo' = [swMongo EXCEPT !.log = log]
        BY <1>1, <1>5, <2>1, <2>3, MongoContext
    <2>5. swMongo' = [log |-> log, act |-> swMongo.act]
        BY <1>1, <2>4
    <2>6. QED
        BY <1>3, <2>2, <2>5 DEF Mongo!Completed, Mongo!Finished
<1>7. ASSUME NEW i \in 1..Len(swMongo.log)
      PROVE  /\ log[i] \in Spans(MongoNames) /\ log[i].kind = swMongo.log[i].kind
             /\ log[i].depth = swMongo.log[i].depth /\ log[i].parent = swMongo.log[i].parent
             /\ log[i].async = (IF i \in live THEN "finished" ELSE swMongo.log[i].async)
    <2>1. PICK u : u = AsyncFinish(swMongo, i)
        OBVIOUS
    <2>2. /\ u \in Tracings(Goroutines, MongoNames) /\ Len(u.log) = Len(swMongo.log)
          /\ u.log[i].kind = swMongo.log[i].kind
          /\ u.log[i].parent = swMongo.log[i].parent /\ u.log[i].depth = swMongo.log[i].depth
          /\ u.log[i].async = "finished"
        BY <1>1, <2>1, SpanFinished
    <2>3. u.log[i] \in Spans(MongoNames) /\ swMongo.log[i] \in Spans(MongoNames)
        BY <1>1, <2>2, TracingTypes
    <2>4. log[i] = IF i \in live THEN u.log[i] ELSE swMongo.log[i]
        BY <1>5, <2>1
    <2>5. QED
        BY <2>2, <2>3, <2>4
<1>8. log \in Seq(Spans(MongoNames)) /\ Len(log) = Len(swMongo.log)
    <2>1. log \in [1..Len(swMongo.log) -> Spans(MongoNames)]
        BY <1>5, <1>7
    <2>2. log \in Seq(Spans(MongoNames))
        BY <1>1, <2>1, SeqDef
    <2>3. QED
        BY <1>1, <2>1, <2>2, LenProperties
<1>9. /\ swMongo' \in MongoTracings /\ swMongo'.log = log /\ swMongo'.act = swMongo.act
    BY <1>1, <1>6, <1>8, TracingTypes DEF MongoTracings, Tracings
<1>10. NoneExits(swMongo')
    BY <1>7, <1>8, <1>9 DEF NoneExits, MongoInv
<1>11. PICK k : k = [commands[r] EXCEPT !.state = state, !.errors = errors]
    OBVIOUS
<1>12. /\ errors = (IF state = "failed" THEN live ELSE {}) /\ errors \subseteq Nat
       /\ state \in CommandStates /\ state # "running" /\ live \subseteq Own(r)
    <2>1. OneEach(commands[r].spans, LayersOf(r))
        BY <1>2 DEF CommandOK
    <2>2. live \subseteq Own(r)
        BY <1>3, <2>1, LiveAreOwn DEF Live, Own
    <2>3. live \subseteq Nat
        BY <1>2, <2>2 DEF CommandOK
    <2>4. QED
        BY <1>3, <1>4, <2>2, <2>3 DEF CommandStates
<1>13. /\ k \in Commands /\ k.client = commands[r].client /\ k.state = state
       /\ k.spans = commands[r].spans
       /\ k.errors = errors /\ k.from = commands[r].from /\ (k.told <=> commands[r].told)
    BY <1>1, <1>3, <1>11, <1>12 DEF Commands
<1>14. commands' = [commands EXCEPT ![r] = k]
    BY <1>1, <1>6, <1>11
<1>15. /\ commands' \in Seq(Commands) /\ Len(commands') = Len(commands) /\ commands'[r] = k
       /\ \A q \in 1..Len(commands) : q # r => commands'[q] = commands[q]
    BY <1>1, <1>13, <1>14, ExceptSeq
<1>16. MongoTypeOK'
    BY <1>6, <1>9, <1>15 DEF MongoInv, MongoTypeOK
<1>17. ASSUME NEW q \in 1..Len(commands)
       PROVE  /\ commands'[q].spans = commands[q].spans /\ Own(q)' = Own(q)
              /\ LayersOf(q)' = LayersOf(q) /\ Live(q)' = Live(q)
    <2>1. commands'[q].spans = commands[q].spans /\ commands'[q].client = commands[q].client
        BY <1>13, <1>15
    <2>2. LayersOf(q)' = LayersOf(q)
        BY <1>6, <2>1 DEF LayersOf
    <2>3. QED
        BY <2>1, <2>2 DEF Own, Live
<1>18. OwnSpansInv'
    BY <1>15, <1>17 DEF OwnSpansInv, MongoInv
<1>19. ASSUME NEW q \in 1..Len(commands) PROVE CommandOK(q)'
    <2>1. CommandOK(q)
        BY DEF MongoInv, CommandInv
    <2>2. OneEach(commands'[q].spans, LayersOf(q)')
        BY <1>17, <2>1 DEF CommandOK
    <2>3. CASE q = r
        <3>1. ASSUME NEW i \in Own(r)
              PROVE  /\ i \in 1..Len(log) /\ log[i].depth = 0
                     /\ log[i].async = IF i \in live THEN "finished" ELSE "prepared"
                     /\ log[i].parent.span = commands[r].from.span
            <4>1. /\ i \in 1..Len(swMongo.log) /\ swMongo.log[i].depth = 0
                  /\ swMongo.log[i].async = "prepared"
                  /\ swMongo.log[i].parent.span = commands[r].from.span
                BY <1>2 DEF CommandOK
            <4>2. QED
                BY <1>7, <1>8, <4>1
        <3>2. /\ commands'[r].client = commands[r].client /\ clients' = clients
              /\ commands'[r].state = state
              /\ commands'[r].errors = errors /\ commands'[r].from = commands[r].from
              /\ (commands'[r].told <=> commands[r].told) /\ swMongo'.log = log
            BY <1>6, <1>9, <1>13, <1>15
        <3>3. commands'[r].client \in 1..Len(clients')
              /\ (commands'[r].told <=> clients'[commands'[r].client].monitor.user)
            BY <1>2, <3>2 DEF CommandOK
        <3>4. Own(r)' = Own(r) /\ Live(r)' = live
            BY <1>3, <1>17
        <3>5. Own(r)' \subseteq 1..Len(swMongo'.log)
            BY <3>1, <3>2, <3>4
        <3>6. ASSUME NEW i \in Own(r)'
              PROVE  /\ swMongo'.log[i].depth = 0
                     /\ swMongo'.log[i].async =
                            (IF commands'[r].state # "running" /\ i \in Live(r)'
                             THEN "finished" ELSE "prepared")
                     /\ swMongo'.log[i].parent.span = commands'[r].from.span
            BY <1>12, <3>1, <3>2, <3>4
        <3>7. commands'[r].errors = IF commands'[r].state = "failed" THEN Live(r)' ELSE {}
            BY <1>12, <3>2, <3>4
        <3>8. CommandOK(r)'
            BY <2>2, <2>3, <3>3, <3>5, <3>6, <3>7 DEF CommandOK
        <3>9. QED
            BY <2>3, <3>8
    <2>4. CASE q # r
        <3>1. ASSUME NEW i \in Own(q)
              PROVE  /\ i \in 1..Len(log) /\ log[i].depth = swMongo.log[i].depth
                     /\ log[i].async = swMongo.log[i].async
                     /\ log[i].parent = swMongo.log[i].parent
            <4>1. i \in 1..Len(swMongo.log) /\ i \notin Own(r)
                BY <2>1, <2>4 DEF CommandOK, MongoInv, OwnSpansInv
            <4>2. i \notin live
                BY <1>12, <4>1
            <4>3. QED
                BY <1>7, <1>8, <4>1, <4>2
        <3>2. commands'[q] = commands[q] /\ Own(q)' = Own(q) /\ Live(q)' = Live(q)
            BY <1>15, <1>17, <2>4
        <3>3. commands'[q].client \in 1..Len(clients')
              /\ (commands'[q].told <=> clients'[commands'[q].client].monitor.user)
            BY <1>6, <2>1, <3>2 DEF CommandOK
        <3>4. Own(q)' \subseteq 1..Len(swMongo'.log)
            BY <1>9, <3>1, <3>2
        <3>5. ASSUME NEW i \in Own(q)'
              PROVE  /\ swMongo'.log[i].depth = 0
                     /\ swMongo'.log[i].async =
                            (IF commands'[q].state # "running" /\ i \in Live(q)'
                             THEN "finished" ELSE "prepared")
                     /\ swMongo'.log[i].parent.span = commands'[q].from.span
            <4>1. i \in Own(q)
                BY <3>2
            <4>2. /\ swMongo.log[i].depth = 0
                  /\ swMongo.log[i].async = (IF commands[q].state # "running" /\ i \in Live(q)
                                             THEN "finished" ELSE "prepared")
                  /\ swMongo.log[i].parent.span = commands[q].from.span
                BY <2>1, <4>1 DEF CommandOK
            <4>3. QED
                BY <1>9, <3>1, <3>2, <4>1, <4>2
        <3>6. commands'[q].errors = IF commands'[q].state = "failed" THEN Live(q)' ELSE {}
            BY <2>1, <3>2 DEF CommandOK
        <3>7. QED
            BY <2>2, <3>3, <3>4, <3>5, <3>6 DEF CommandOK
    <2>5. QED
        BY <2>3, <2>4
<1>20. MapInv'
    <2>1. ASSUME NEW q \in 1..Len(commands) PROVE WaitingOK(q)'
        <3>1. CASE q = r
            BY <1>12, <1>13, <1>15, <3>1 DEF WaitingOK
        <3>2. CASE q # r
            <4>1. /\ commands'[q] = commands[q] /\ LayersOf(q)' = LayersOf(q)
                  /\ Live(q)' = Live(q)
                BY <1>15, <1>17, <3>2
            <4>2. \A e \in syncMap : e.request = q => e \in syncMap'
                BY <1>3, <1>6, <3>2
            <4>3. WaitingOK(q)
                BY DEF MongoInv, MapInv
            <4>4. QED
                BY <4>1, <4>2, <4>3 DEF WaitingOK
        <3>3. QED
            BY <3>1, <3>2
    <2>2. ASSUME NEW e \in syncMap' PROVE EntryOK(e)'
        <3>1. e.request \in 1..Len(commands) /\ e.span \in Live(e.request)
            BY <1>6 DEF MongoInv, MapInv, EntryOK
        <3>2. Live(e.request)' = Live(e.request) /\ Len(commands') = Len(commands)
            BY <1>15, <1>17, <3>1
        <3>3. QED
            BY <3>1, <3>2 DEF EntryOK
    <2>3. QED
        BY <1>15, <2>1, <2>2 DEF MapInv
<1>21. QED
    BY <1>6, <1>10, <1>15, <1>16, <1>18, <1>19, <1>20
       DEF MongoInv, CommandInv, ClientInv, ClientOK

LEMMA MongoNextInv == MongoInv /\ (Mongo!Next \/ UNCHANGED mongoVars) => MongoInv'
<1> SUFFICES ASSUME MongoInv, Mongo!Next \/ UNCHANGED mongoVars PROVE MongoInv'
    OBVIOUS
<1>1. CASE UNCHANGED mongoVars
    <2>1. UNCHANGED <<swMongo, opt, clients, commands, syncMap>>
        BY <1>1 DEF mongoVars
    <2>2. MongoTypeOK' /\ NoneExits(swMongo)' /\ ClientInv' /\ OwnSpansInv'
        BY <2>1 DEF MongoInv, MongoTypeOK, NoneExits, ClientInv, ClientOK, OwnSpansInv, Own
    <2>3. CommandInv'
        BY <2>1 DEF MongoInv, CommandInv, CommandOK, Own, Live, LayersOf
    <2>4. MapInv'
        BY <2>1 DEF MongoInv, MapInv, WaitingOK, EntryOK, Live, LayersOf
    <2>5. QED
        BY <2>2, <2>3, <2>4 DEF MongoInv
<1>2. CASE Mongo!Next
    <2>1. \/ \E g \in Goroutines : Mongo!AppStart(g)
          \/ \E list \in Mongo!Lists : Mongo!NewClient(list)
          \/ \E g \in Goroutines, c \in 1..Len(clients) : Mongo!Started(g, c)
          \/ \E r \in 1..Len(commands), failed \in BOOLEAN : Mongo!Completed(r, failed)
        BY <1>2, MongoTypes DEF Mongo!Next
    <2>2. QED
        BY <2>1, MongoAppStartKeeps, NewClientKeeps, StartedKeeps, CompletedKeeps
<1>3. QED
    BY <1>1, <1>2

LEMMA MongoInvSafe == MongoInv => Mongo!SpansMatchCommands
<1> SUFFICES ASSUME MongoInv PROVE Mongo!SpansMatchCommands
    OBVIOUS
<1>1. ASSUME NEW r \in DOMAIN commands
      PROVE  LET k == commands[r]
                 c == clients[k.client]
                 layers == c.monitor.layers
             IN  /\ \A n \in DOMAIN layers :
                      LET i == k.spans[n]
                      IN  /\ Mongo!Reported(swMongo, i)
                                <=> (k.state # "running" /\ ~Mongo!Replaced(layers, n))
                          /\ i \in k.errors <=> (k.state = "failed" /\ ~Mongo!Replaced(layers, n))
                          /\ swMongo.log[i].parent.span = k.from.span
                 /\ \A q \in DOMAIN commands \ {r} :
                        Mongo!Range(commands[q].spans) \cap Mongo!Range(k.spans) = {}
                 /\ k.told <=> (c.wanted /\ ~c.hidden)
    <2>1. r \in 1..Len(commands) /\ CommandOK(r) /\ DOMAIN commands = 1..Len(commands)
        BY MongoTypes DEF MongoInv, CommandInv
    <2>2. ClientOK(commands[r].client)
        BY <2>1 DEF CommandOK, MongoInv, ClientInv
    <2>3. PICK spans, layers : spans = commands[r].spans /\ layers = LayersOf(r)
        OBVIOUS
    <2>4. ASSUME NEW n \in DOMAIN layers
          PROVE  /\ Mongo!Reported(swMongo, spans[n])
                       <=> (commands[r].state # "running" /\ ~Mongo!Replaced(layers, n))
                 /\ spans[n] \in commands[r].errors
                       <=> (commands[r].state = "failed" /\ ~Mongo!Replaced(layers, n))
                 /\ swMongo.log[spans[n]].parent.span = commands[r].from.span
        <3>1. PICK i : i = spans[n]
            OBVIOUS
        <3>2. i \in Own(r) /\ (i \in Live(r) <=> ~Mongo!Replaced(layers, n))
            BY <2>1, <2>3, <3>1, LiveAreOwn DEF CommandOK, Own, Live
        <3>3. /\ swMongo.log[i].depth = 0
              /\ swMongo.log[i].async = IF commands[r].state # "running" /\ i \in Live(r)
                                        THEN "finished" ELSE "prepared"
              /\ swMongo.log[i].parent.span = commands[r].from.span
              /\ commands[r].errors = IF commands[r].state = "failed" THEN Live(r) ELSE {}
            BY <2>1, <3>2 DEF CommandOK
        <3>4. Mongo!Reported(swMongo, i) <=> commands[r].state # "running" /\ i \in Live(r)
            BY <3>3, MongoContext DEF Reported
        <3>5. QED
            BY <3>1, <3>2, <3>3, <3>4
    <2>5. \A q \in DOMAIN commands \ {r} :
              Mongo!Range(commands[q].spans) \cap Mongo!Range(commands[r].spans) = {}
        <3>1. \A q \in 1..Len(commands) : Own(q) = Mongo!Range(commands[q].spans)
            BY DEF Own, ToSet, Mongo!Range
        <3>2. QED
            BY <2>1, <3>1 DEF MongoInv, OwnSpansInv
    <2>6. commands[r].told
              <=> (clients[commands[r].client].wanted /\ ~clients[commands[r].client].hidden)
        BY <2>1, <2>2 DEF CommandOK, ClientOK
    <2>7. QED
        BY <2>3, <2>4, <2>5, <2>6, Zenon DEF LayersOf
<1>2. QED
    BY <1>1, Zenon DEF Mongo!SpansMatchCommands

\* The monitor of a client, and Accept and Close: with any number of clients that share
\* options, of layers, goroutines and connections, and completions and Closes on any of them
\* in any order, a span that one goroutine makes and another finishes is finished with the
\* command or the connection it is for, once; except the inner layer's span of an option that
\* one NewClient was given twice, which never is.  What a request of a connection does
\* belongs to that connection, unless the socket had accepted another when ServeRequest read.
THEOREM AsyncSpansMatch == SkyWalkingSpec => []AsyncSpansMatchTheirOwners
<1>1. SkyWalkingInit => MongoInv /\ SocketInv
    BY MongoInitInv, SocketInitInv DEF SkyWalkingInit
<1>2. MongoInv /\ SocketInv
      /\ [SkyWalkingNext]_<<hooks, vars, callVars, streamVars, sqlVars, mongoVars, socketVars>>
          => MongoInv' /\ SocketInv'
    <2>1. SkyWalkingNext
              \/ UNCHANGED <<hooks, vars, callVars, streamVars, sqlVars, mongoVars, socketVars>>
          => /\ Mongo!Next \/ UNCHANGED mongoVars
             /\ Socket!Next \/ UNCHANGED socketVars
        BY DEF SkyWalkingNext
    <2>2. QED
        BY <2>1, MongoNextInv, SocketNextInv
<1>3. MongoInv /\ SocketInv => AsyncSpansMatchTheirOwners
    BY MongoInvSafe, SocketInvSafe DEF AsyncSpansMatchTheirOwners
<1>4. QED
    BY <1>1, <1>2, <1>3, PTL DEF SkyWalkingSpec


-----------------------------------------------------------------------------
(* The meters: the slice they wait in, and what the runtime's ones show.     *)

AllMeters == Makers \cup Runtime
Appends == [by : Makers \cup {Main, "collector"}, meter : AllMeters, read : Seq(AllMeters)]

\* Meters that are past their constructor, and whose append met no other access.
Settled == made \ (raced \cup Appending)

QueueTypeOK ==
    /\ pending \in Seq(AllMeters)
    /\ append \in Seq(Appends)
    /\ collector \in [pc : {"off", "idle", "reset", "hooks"}, read : Seq(AllMeters)]

\* Whoever writes the slice next has read every such meter in it, or the collector has it.
ReadersInv ==
    \A m \in Settled, i \in 1..Len(append) :
        m \in collected \cup ToSet(append[i].read) \cup ToSet(collector.read)
ResetInv ==
    /\ collector.pc = "reset" => Settled \subseteq collected \cup ToSet(collector.read)
    /\ collector.pc # "reset" => collector.read = <<>>
    /\ boot = "packages" => collector.pc = "off"

\* An append that is alone is the only one, and not between the collector's two accesses.
AloneInv ==
    \A i \in 1..Len(append) :
        /\ append[i].meter \in made
        /\ append[i].meter \notin raced => Len(append) = 1 /\ collector.pc # "reset"

QueueInv == QueueTypeOK /\ RegisteredIsCollected /\ ReadersInv /\ ResetInv /\ AloneInv

LEMMA QueueTypes ==
    ASSUME QueueTypeOK
    PROVE  /\ pending \in Seq(AllMeters) /\ append \in Seq(Appends) /\ Len(append) \in Nat
           /\ DOMAIN append = 1..Len(append)
           /\ \A i \in 1..Len(append) : /\ append[i] \in Appends
                                        /\ append[i].meter \in AllMeters
                                        /\ append[i].read \in Seq(AllMeters)
           /\ collector.read \in Seq(AllMeters)
           /\ collector = [pc |-> collector.pc, read |-> collector.read]
           /\ Appending = {append[i].meter : i \in 1..Len(append)}
<1>1. /\ append \in Seq(Appends) /\ Len(append) \in Nat /\ DOMAIN append = 1..Len(append)
      /\ \A i \in 1..Len(append) : append[i] \in Appends
    BY LenProperties DEF QueueTypeOK
<1>2. \A i \in 1..Len(append) : /\ append[i].meter \in AllMeters
                                /\ append[i].read \in Seq(AllMeters)
    BY <1>1 DEF Appends
<1>3. Appending = {append[i].meter : i \in 1..Len(append)}
    BY <1>1 DEF Appending
<1>4. QED
    BY <1>1, <1>2, <1>3 DEF QueueTypeOK

LEMMA ToSetAppend ==
    ASSUME NEW S, NEW seq \in Seq(S), NEW e \in S
    PROVE  ToSet(Append(seq, e)) = ToSet(seq) \cup {e}
<1>1. /\ Append(seq, e) \in Seq(S) /\ Len(Append(seq, e)) = Len(seq) + 1
      /\ \A i \in 1..Len(seq) : Append(seq, e)[i] = seq[i]
      /\ Append(seq, e)[Len(seq) + 1] = e
      /\ Len(seq) \in Nat /\ DOMAIN seq = 1..Len(seq)
    BY AppendProperties, LenProperties
<1>2. DOMAIN Append(seq, e) = 1..(Len(seq) + 1)
    BY <1>1, LenProperties
<1>3. \A i \in 1..(Len(seq) + 1) : i = Len(seq) + 1 \/ i \in 1..Len(seq)
    BY <1>1
<1>4. \A i \in 1..Len(seq) : i \in 1..(Len(seq) + 1)
    BY <1>1
<1>5. Len(seq) + 1 \in 1..(Len(seq) + 1)
    BY <1>1
<1>6. QED
    BY <1>1, <1>2, <1>3, <1>4, <1>5 DEF ToSet

LEMMA ToSetEmpty == ToSet(<<>>) = {}
BY DEF ToSet

LEMMA QueueInitInv == Init => QueueInv
<1> SUFFICES ASSUME Init PROVE QueueInv
    OBVIOUS
<1>1. /\ pending = <<>> /\ append = <<>> /\ made = {} /\ Len(append) = 0
      /\ collector = [pc |-> "off", read |-> <<>>]
    BY DEF Init
<1>2. <<>> \in Seq(AllMeters) /\ <<>> \in Seq(Appends)
    BY EmptySeq
<1>3. QueueTypeOK
    BY <1>1, <1>2 DEF QueueTypeOK
<1>4. Settled = {} /\ collector.pc = "off" /\ collector.read = <<>>
    BY <1>1 DEF Settled
<1>5. QED
    BY <1>1, <1>3, <1>4 DEF QueueInv, RegisteredIsCollected, Settled, ReadersInv, ResetInv, AloneInv

\* An append begins, with the collector where it was or done with its hooks.
LEMMA AppendReadKeeps ==
    ASSUME QueueInv, NEW g \in Makers \cup {Main, "collector"}, NEW m \in AllMeters \ made,
           AppendRead(g, m), UNCHANGED <<pending, collected>>, boot' = "packages" => boot = "packages",
           \/ collector' = collector
           \/ collector.pc = "hooks" /\ collector' = [collector EXCEPT !.pc = "idle"]
    PROVE  QueueInv'
<1>1. PICK e : e = [by |-> g, meter |-> m, read |-> pending]
    OBVIOUS
<1>2. e \in Appends /\ e.meter = m /\ e.read = pending
    BY <1>1 DEF Appends, QueueInv, QueueTypeOK
<1>3. /\ append' = Append(append, e) /\ made' = made \cup {m}
      /\ raced' = raced \cup (IF append = <<>> /\ collector.pc # "reset" THEN {}
                              ELSE Appending \cup {m})
    BY <1>1 DEF AppendRead
<1>4. PICK n : n = Len(append)
    OBVIOUS
<1>5. /\ n \in Nat /\ append' \in Seq(Appends) /\ Len(append') = n + 1 /\ append'[n + 1] = e
      /\ \A i \in 1..n : append'[i] = append[i]
      /\ \A i \in 1..n : append[i] \in Appends
    BY <1>2, <1>3, <1>4, QueueTypes, AppendProperties DEF QueueInv
<1>6. /\ \A i \in 1..(n + 1) : i = n + 1 \/ i \in 1..n
      /\ \A i \in 1..n : i \in 1..(n + 1)
      /\ n + 1 \in 1..(n + 1)
    BY <1>5
<1>7. /\ collector' \in [pc : {"off", "idle", "reset", "hooks"}, read : Seq(AllMeters)]
      /\ collector'.read = collector.read
      /\ collector'.pc = "reset" <=> collector.pc = "reset"
      /\ collector'.pc = "off" <=> collector.pc = "off"
    <2>1. collector \in [pc : {"off", "idle", "reset", "hooks"}, read : Seq(AllMeters)]
        BY DEF QueueInv, QueueTypeOK
    <2>2. CASE collector' = collector
        BY <2>1, <2>2
    <2>3. CASE collector.pc = "hooks" /\ collector' = [collector EXCEPT !.pc = "idle"]
        BY <2>1, <2>3
    <2>4. QED
        BY <2>2, <2>3
<1>8. QueueTypeOK'
    BY <1>5, <1>7 DEF QueueInv, QueueTypeOK
<1>9. Appending' = Appending \cup {m} /\ Appending = {append[i].meter : i \in 1..n}
    <2>1. Appending' = {append'[i].meter : i \in 1..(n + 1)}
        BY <1>5, LenProperties DEF Appending
    <2>2. Appending = {append[i].meter : i \in 1..n}
        BY <1>4, QueueTypes DEF QueueInv
    <2>3. QED
        BY <1>2, <1>5, <1>6, <2>1, <2>2
<1>10. Settled' \subseteq Settled
    BY <1>3, <1>9 DEF Settled
<1>11. RegisteredIsCollected'
    BY <1>7, <1>10 DEF QueueInv, RegisteredIsCollected, Settled
<1>12. ReadersInv'
    <2>1. ASSUME NEW k \in Settled', NEW i \in 1..(n + 1)
          PROVE  k \in collected' \cup ToSet(append'[i].read) \cup ToSet(collector'.read)
        <3>1. k \in Settled
            BY <1>10
        <3>2. CASE i = n + 1
            BY <1>2, <1>5, <1>7, <3>1, <3>2 DEF QueueInv, RegisteredIsCollected, Settled
        <3>3. CASE i \in 1..n
            BY <1>4, <1>5, <1>7, <3>1, <3>3 DEF QueueInv, ReadersInv
        <3>4. QED
            BY <1>6, <3>2, <3>3
    <2>2. QED
        BY <1>5, <2>1 DEF ReadersInv
<1>13. ResetInv'
    BY <1>7, <1>10 DEF QueueInv, ResetInv
<1>14. AloneInv'
    <2>1. ASSUME NEW i \in 1..(n + 1)
          PROVE  /\ append'[i].meter \in made'
                 /\ append'[i].meter \notin raced' => n + 1 = 1 /\ collector'.pc # "reset"
        <3>1. append'[i].meter \in Appending' /\ append'[i].meter \in made'
            <4>1. CASE i = n + 1
                BY <1>2, <1>3, <1>5, <1>9, <4>1
            <4>2. CASE i \in 1..n
                BY <1>3, <1>4, <1>5, <1>9, <4>2 DEF QueueInv, AloneInv
            <4>3. QED
                BY <1>6, <4>1, <4>2
        <3>2. CASE append = <<>> /\ collector.pc # "reset"
            BY <1>4, <1>7, <3>1, <3>2
        <3>3. CASE ~(append = <<>> /\ collector.pc # "reset")
            BY <1>3, <1>9, <3>1, <3>3
        <3>4. QED
            BY <3>2, <3>3
    <2>2. QED
        BY <1>5, <2>1 DEF AloneInv
<1>15. QED
    BY <1>8, <1>11, <1>12, <1>13, <1>14 DEF QueueInv

LEMMA AppendWriteKeeps == QueueInv /\ AppendWrite => QueueInv'
<1> SUFFICES ASSUME QueueInv, AppendWrite PROVE QueueInv'
    OBVIOUS
<1>1. PICK n : n = Len(append)
    OBVIOUS
<1>2. /\ append \in Seq(Appends) /\ n \in Nat /\ DOMAIN append = 1..n
      /\ \A i \in 1..n : append[i].meter \in AllMeters /\ append[i].read \in Seq(AllMeters)
      /\ Appending = {append[i].meter : i \in 1..n}
    BY <1>1, QueueTypes DEF QueueInv
<1>3. PICK i \in 1..n : /\ pending' = Append(append[i].read, append[i].meter)
                        /\ append' = RemoveAt(append, i)
                        /\ UNCHANGED <<boot, made, collector, collected, raced>>
    BY <1>2 DEF AppendWrite
<1>4. /\ append' \in Seq(Appends) /\ Len(append') = n - 1
      /\ \A j \in 1..(n - 1) : append'[j] = IF j < i THEN append[j] ELSE append[j + 1]
    BY <1>1, <1>2, <1>3, RemoveAtProperties
<1>5. /\ pending' \in Seq(AllMeters)
      /\ ToSet(pending') = ToSet(append[i].read) \cup {append[i].meter}
    BY <1>2, <1>3, ToSetAppend, AppendProperties
<1>6. QueueTypeOK'
    BY <1>3, <1>4, <1>5 DEF QueueInv, QueueTypeOK
<1>7. ASSUME NEW j \in 1..(n - 1) PROVE \E k \in 1..n : append'[j] = append[k]
    <2>1. j \in 1..n /\ j + 1 \in 1..n
        BY <1>2
    <2>2. QED
        BY <1>4, <2>1
<1>8. ASSUME NEW k \in 1..n, k # i PROVE \E j \in 1..(n - 1) : append'[j] = append[k]
    <2>1. CASE k < i
        <3>1. k \in 1..(n - 1)
            BY <1>2, <2>1
        <3>2. QED
            BY <1>4, <2>1, <3>1
    <2>2. CASE k > i
        <3>1. PICK j : j = k - 1
            OBVIOUS
        <3>2. j \in 1..(n - 1) /\ ~(j < i) /\ j + 1 = k
            BY <1>2, <2>2, <3>1
        <3>3. QED
            BY <1>4, <3>2
    <2>3. QED
        BY <1>2, <1>8, <2>1, <2>2
<1>9. Appending' = {append'[j].meter : j \in 1..(n - 1)}
    BY <1>4, LenProperties DEF Appending
<1>10. \A m \in Appending : m = append[i].meter \/ m \in Appending'
    BY <1>2, <1>8, <1>9
<1>11. Appending' \subseteq Appending
    BY <1>2, <1>7, <1>9
<1>12. \A m \in Settled' : m \in Settled \/ (m = append[i].meter /\ m \notin raced)
    BY <1>3, <1>10 DEF Settled
<1>13. append[i].meter \notin raced => n = 1 /\ collector.pc # "reset"
    BY <1>1 DEF QueueInv, AloneInv
<1>14. ASSUME NEW m \in Settled'
       PROVE  /\ m \in collected \cup ToSet(pending') \cup ToSet(collector.read)
              /\ \A j \in 1..(n - 1) :
                    m \in collected \cup ToSet(append'[j].read) \cup ToSet(collector.read)
              /\ collector.pc = "reset" => m \in collected \cup ToSet(collector.read)
    <2>1. CASE m \in Settled
        <3>1. m \in collected \cup ToSet(append[i].read) \cup ToSet(collector.read)
            BY <1>1, <2>1 DEF QueueInv, ReadersInv
        <3>2. \A j \in 1..(n - 1) :
                 m \in collected \cup ToSet(append'[j].read) \cup ToSet(collector.read)
            BY <1>1, <1>7, <2>1 DEF QueueInv, ReadersInv
        <3>3. QED
            BY <1>5, <2>1, <3>1, <3>2 DEF QueueInv, ResetInv
    <2>2. CASE m = append[i].meter /\ m \notin raced
        <3>1. n = 1 /\ collector.pc # "reset"
            BY <1>13, <2>2
        <3>2. 1..(n - 1) = {}
            BY <3>1
        <3>3. QED
            BY <1>5, <2>2, <3>1, <3>2
    <2>3. QED
        BY <1>12, <2>1, <2>2
<1>15. RegisteredIsCollected'
    BY <1>3, <1>14 DEF RegisteredIsCollected, Settled
<1>16. ReadersInv'
    BY <1>3, <1>4, <1>14 DEF ReadersInv
<1>17. ResetInv'
    BY <1>3, <1>14 DEF QueueInv, ResetInv
<1>18. AloneInv'
    <2>1. ASSUME NEW j \in 1..(n - 1)
          PROVE  append'[j].meter \in made' /\ append'[j].meter \in raced'
        <3>1. PICK k \in 1..n : append'[j] = append[k]
            BY <1>7
        <3>2. n # 1
            BY <1>2
        <3>3. QED
            BY <1>1, <1>3, <3>1, <3>2 DEF QueueInv, AloneInv
    <2>2. QED
        BY <1>4, <2>1 DEF AloneInv
<1>19. QED
    BY <1>6, <1>15, <1>16, <1>17, <1>18 DEF QueueInv

\* MetricsObtain: the slice that is read while no other access is under way is what is in
\* it when it is set to nil.
LEMMA ObtainReadKeeps == QueueInv /\ ObtainRead => QueueInv'
<1> SUFFICES ASSUME QueueInv, ObtainRead PROVE QueueInv'
    OBVIOUS
<1>1. /\ collector.pc = "idle" /\ collector' = [pc |-> "reset", read |-> pending]
      /\ raced' = raced \cup Appending
      /\ UNCHANGED <<boot, pending, append, made, collected>>
    BY DEF ObtainRead
<1>2. /\ collector.read = <<>> /\ collector'.pc = "reset" /\ collector'.read = pending
      /\ ToSet(collector.read) = {} /\ boot # "packages"
    BY <1>1, ToSetEmpty DEF QueueInv, ResetInv
<1>3. QueueTypeOK'
    BY <1>1 DEF QueueInv, QueueTypeOK
<1>4. Settled' = Settled /\ Appending' = Appending
    BY <1>1 DEF Settled, Appending
<1>5. Settled \subseteq collected \cup ToSet(pending)
    BY <1>2 DEF QueueInv, RegisteredIsCollected, Settled
<1>6. RegisteredIsCollected'
    BY <1>1, <1>2, <1>4, <1>5 DEF RegisteredIsCollected, Settled
<1>7. ReadersInv'
    BY <1>1, <1>2, <1>4, <1>5 DEF ReadersInv
<1>8. ResetInv'
    BY <1>1, <1>2, <1>4, <1>5 DEF ResetInv
<1>9. AloneInv'
    <2>1. \A i \in 1..Len(append) : append[i].meter \in raced'
        BY <1>1, QueueTypes DEF QueueInv
    <2>2. QED
        BY <1>1, <2>1 DEF QueueInv, AloneInv
<1>10. QED
    BY <1>3, <1>6, <1>7, <1>8, <1>9 DEF QueueInv

LEMMA ObtainResetKeeps == QueueInv /\ ObtainReset => QueueInv'
<1> SUFFICES ASSUME QueueInv, ObtainReset PROVE QueueInv'
    OBVIOUS
<1>1. /\ collector.pc = "reset" /\ collector' = [pc |-> "hooks", read |-> <<>>]
      /\ collected' = collected \cup ToSet(collector.read) /\ pending' = <<>>
      /\ UNCHANGED <<boot, append, made, raced>>
    BY DEF ObtainReset
<1>2. /\ collector'.pc = "hooks" /\ collector'.read = <<>> /\ boot # "packages"
    BY <1>1 DEF QueueInv, ResetInv
<1>3. QueueTypeOK'
    BY <1>1, EmptySeq DEF QueueInv, QueueTypeOK
<1>4. Settled' = Settled
    BY <1>1 DEF Settled, Appending
<1>5. Settled \subseteq collected'
    BY <1>1 DEF QueueInv, ResetInv
<1>6. RegisteredIsCollected'
    BY <1>4, <1>5 DEF RegisteredIsCollected, Settled
<1>7. ReadersInv'
    BY <1>4, <1>5 DEF ReadersInv
<1>8. ResetInv'
    BY <1>1, <1>2 DEF ResetInv
<1>9. AloneInv'
    BY <1>1 DEF QueueInv, AloneInv
<1>10. QED
    BY <1>3, <1>6, <1>7, <1>8, <1>9 DEF QueueInv

\* What is left: the collector goes on or is started, and the slices stay.
LEMMA CollectorMoves ==
    ASSUME QueueInv, NEW p \in {"idle"}, collector' = [collector EXCEPT !.pc = p],
           collector.pc # "reset", boot' # "packages",
           UNCHANGED <<pending, append, made, collected, raced>>
    PROVE  QueueInv'
<1>1. collector \in [pc : {"off", "idle", "reset", "hooks"}, read : Seq(AllMeters)]
    BY DEF QueueInv, QueueTypeOK
<1>2. /\ collector' \in [pc : {"off", "idle", "reset", "hooks"}, read : Seq(AllMeters)]
      /\ collector'.pc = "idle" /\ collector'.read = collector.read
    BY <1>1
<1>3. Settled' = Settled
    BY DEF Settled, Appending
<1>4. QueueTypeOK'
    BY <1>2 DEF QueueInv, QueueTypeOK
<1>5. RegisteredIsCollected' /\ ReadersInv'
    BY <1>2, <1>3 DEF QueueInv, RegisteredIsCollected, ReadersInv, Settled
<1>6. ResetInv'
    BY <1>2 DEF QueueInv, ResetInv
<1>7. AloneInv'
    BY <1>2 DEF QueueInv, AloneInv
<1>8. QED
    BY <1>4, <1>5, <1>6, <1>7 DEF QueueInv

LEMMA QueueStays ==
    ASSUME QueueInv, UNCHANGED <<pending, append, made, collector, collected, raced>>,
           boot' = "packages" => boot = "packages"
    PROVE  QueueInv'
BY DEF QueueInv, QueueTypeOK, RegisteredIsCollected, Settled, Appending, ReadersInv, ResetInv,
   AloneInv

LEMMA QueueNextInv == QueueInv /\ (Next \/ UNCHANGED vars) => QueueInv'
<1> SUFFICES ASSUME QueueInv, Next \/ UNCHANGED vars PROVE QueueInv'
    OBVIOUS
<1>1. CASE UNCHANGED vars
    BY <1>1, QueueStays DEF vars
<1>2. CASE AppendWrite
    BY <1>2, AppendWriteKeeps
<1>3. ASSUME NEW failed \in BOOLEAN, InitTracer(failed) PROVE QueueInv'
    <2>1. /\ boot = "packages" /\ boot' # "packages"
          /\ UNCHANGED <<pending, append, made, collected, raced>>
        BY <1>3 DEF InitTracer
    <2>2. CASE failed
        BY <1>3, <2>1, <2>2, QueueStays DEF InitTracer
    <2>3. CASE ~failed
        <3>1. collector' = [collector EXCEPT !.pc = "idle"]
            BY <1>3, <2>3 DEF InitTracer
        <3>2. collector.pc # "reset"
            BY <2>1 DEF QueueInv, ResetInv
        <3>3. QED
            BY <2>1, <3>1, <3>2, CollectorMoves
    <2>4. QED
        BY <2>2, <2>3
<1>4. ASSUME NEW m \in Parts \cup {"total"}, RegisterGauge(m) PROVE QueueInv'
    <2>1. /\ AppendRead(Main, m) /\ UNCHANGED <<pending, collected, boot, collector>>
          /\ m \notin made
        BY <1>4 DEF RegisterGauge
    <2>2. m \in AllMeters \ made
        BY <2>1 DEF AllMeters, Runtime
    <2>3. QED
        BY <2>1, <2>2, AppendReadKeeps
<1>5. CASE RegisterHook
    BY <1>5, QueueStays DEF RegisterHook
<1>6. ASSUME NEW g \in Makers, NewCounter(g) PROVE QueueInv'
    <2>1. /\ AppendRead(g, g) /\ UNCHANGED <<pending, collected, boot, collector>>
          /\ g \notin made
        BY <1>6 DEF NewCounter
    <2>2. g \in AllMeters \ made
        BY <2>1 DEF AllMeters
    <2>3. QED
        BY <2>1, <2>2, AppendReadKeeps
<1>7. CASE ObtainRead
    BY <1>7, ObtainReadKeeps
<1>8. CASE ObtainReset
    BY <1>8, ObtainResetKeeps
<1>9. CASE RunHooks
    <2>1. /\ collector.pc = "hooks" /\ collector' = [collector EXCEPT !.pc = "idle"]
          /\ UNCHANGED <<boot, pending, collected>>
          /\ \/ UNCHANGED <<append, made, raced>>
             \/ "histogram" \notin made /\ AppendRead("collector", "histogram")
        BY <1>9 DEF RunHooks
    <2>2. CASE UNCHANGED <<append, made, raced>>
        <3>1. boot # "packages"
            BY <2>1 DEF QueueInv, ResetInv
        <3>2. QED
            BY <2>1, <2>2, <3>1, CollectorMoves
    <2>3. CASE "histogram" \notin made /\ AppendRead("collector", "histogram")
        <3>1. "histogram" \in AllMeters \ made
            BY <2>3 DEF AllMeters, Runtime
        <3>2. QED
            BY <2>1, <2>3, <3>1, AppendReadKeeps
    <2>4. QED
        BY <2>1, <2>2, <2>3
<1>10. QED
    BY <1>1, <1>2, <1>3, <1>4, <1>5, <1>6, <1>7, <1>8, <1>9 DEF Next

\* MetricsObtain and the registration of meters: whichever goroutines make meters, however
\* many, and whenever the collector takes the slice, a meter is in it or with the tracer.
THEOREM MetersAreCollected == SkyWalkingSpec => []RegisteredIsCollected
<1>1. SkyWalkingInit => QueueInv
    BY QueueInitInv DEF SkyWalkingInit
<1>2. QueueInv
      /\ [SkyWalkingNext]_<<hooks, vars, callVars, streamVars, sqlVars, mongoVars, socketVars>>
          => QueueInv'
    <2>1. SkyWalkingNext
              \/ UNCHANGED <<hooks, vars, callVars, streamVars, sqlVars, mongoVars, socketVars>>
          => Next \/ UNCHANGED vars
        BY DEF SkyWalkingNext
    <2>2. QED
        BY <2>1, QueueNextInv
<1>3. QueueInv => RegisteredIsCollected
    BY DEF QueueInv
<1>4. QED
    BY <1>1, <1>2, <1>3, PTL DEF SkyWalkingSpec

\* The sum of the two gauges of a read.
Total(parts) == MapThenSumSet(LAMBDA p : parts[p], Parts)

LEMMA TotalOfNothing == Total([p \in Parts |-> 0]) = 0
<1>1. PICK G : G = [p \in Parts |-> 0]
    OBVIOUS
<1> DEFINE Some(s) == CHOOSE x \in s : TRUE
           Unfolded(e) == e = [s \in SUBSET Parts |->
                                  IF s = {} THEN 0 ELSE G[Some(s)] + e[s \ {Some(s)}]]
<1>2. PICK e : e = [s \in SUBSET Parts |-> 0]
    OBVIOUS
<1>3. ASSUME NEW s \in SUBSET Parts, s # {} PROVE G[Some(s)] = 0 /\ s \ {Some(s)} \in SUBSET Parts
    <2>1. Some(s) \in s
        BY <1>3
    <2>2. QED
        BY <1>1, <2>1
<1>4. Unfolded(e)
    <2>1. \A s \in SUBSET Parts :
             0 = IF s = {} THEN 0 ELSE G[Some(s)] + e[s \ {Some(s)}]
        <3> HIDE DEF Some
        <3> QED
            BY <1>2, <1>3
    <2>2. QED
        BY <1>2, <2>1
<1>5. PICK h : h = CHOOSE f : Unfolded(f)
    OBVIOUS
<1>6. Unfolded(h)
    <2> HIDE DEF Unfolded
    <2> QED
        BY <1>4, <1>5
<1>7. \A s \in SUBSET Parts : h[s] = IF s = {} THEN 0 ELSE G[Some(s)] + h[s \ {Some(s)}]
    BY <1>6
<1>8. h[{}] = 0
    BY <1>7
<1>9. \A a \in Parts : h[{a}] = 0
    <2>1. ASSUME NEW a \in Parts PROVE h[{a}] = 0
        <3>1. Some({a}) = a /\ {a} \ {a} = {}
            OBVIOUS
        <3>2. {a} \in SUBSET Parts /\ {a} # {}
            OBVIOUS
        <3>3. h[{a}] = G[a] + h[{}]
            <4>1. h[{a}] = G[Some({a})] + h[{a} \ {Some({a})}]
                <5> HIDE DEF Some
                <5> QED
                    BY <1>7, <3>2
            <4>2. QED
                BY <3>1, <4>1
        <3>4. QED
            BY <1>1, <1>8, <3>3
    <2>2. QED
        BY <2>1
<1>10. h[Parts] = 0
    <2>1. PICK a : a = Some(Parts)
        OBVIOUS
    <2>2. Parts # {}
        BY DEF Parts
    <2>3. a \in Parts
        BY <2>1, <2>2
    <2>4. h[Parts] = G[a] + h[Parts \ {a}]
        <3> HIDE DEF Some
        <3> QED
            BY <1>7, <2>1, <2>2
    <2>5. Parts \ {a} = {"free"} \/ Parts \ {a} = {"objects"}
        BY <2>3 DEF Parts
    <2>6. h[Parts \ {a}] = 0
        BY <1>9, <2>5 DEF Parts
    <2>7. QED
        BY <1>1, <2>3, <2>4, <2>6
<1>11. Total(G) = h[Parts]
    BY <1>5 DEF Total, MapThenSumSet, MapThenFoldSet
<1>12. QED
    BY <1>1, <1>10, <1>11

\* The boundary the histogram's own buckets end at.
LastOwn == NBuckets - StartInx
Latests == [1..LastOwn -> Int]
Totals == {Total(parts) : parts \in [Parts -> 0..1]}
Meters == [latest : {<<>>} \cup Latests, reported : [Buckets -> Int], shown : [Buckets -> Nat],
           gauge : [Parts -> 0..1], combined : Totals]

\* Of a bucket of its own the meter remembers what it has reported, which is what the
\* runtime showed last; of the others it never reports anything.
BucketOK(m, b) ==
    IF b \in (StartInx + 1)..LastOwn
    THEN /\ m.reported[b] = m.shown[b]
         /\ m.latest # <<>> => m.latest[b] = m.shown[b]
         /\ m.latest = <<>> => m.shown[b] = 0
    ELSE m.reported[b] = 0

MeterOK(m) ==
    /\ m \in Meters
    /\ m.latest = <<>> \/ m.latest \in Latests
    /\ \A b \in Buckets : BucketOK(m, b)
    /\ m.combined = Total(m.gauge)

MeterInv == layout \in {"fromMinusInf", "fromZero"} /\ MeterOK(meter)

LEMMA LayoutTypes ==
    ASSUME layout \in {"fromMinusInf", "fromZero"}
    PROVE  /\ StartInx \in {0, 1} /\ LastOwn \in Nat /\ NBuckets \in Nat
           /\ Buckets = 1..NBuckets /\ LastOwn = NBuckets - StartInx
           /\ \A f \in Latests : Len(f) = LastOwn /\ DOMAIN f = 1..LastOwn
           /\ InitialLatest \in Latests /\ \A b \in 1..LastOwn : InitialLatest[b] = 0
<1>1. /\ StartInx \in {0, 1} /\ LastOwn \in Nat /\ NBuckets \in Nat
      /\ LastOwn = NBuckets - StartInx
    BY MetricsAssumption DEF StartInx, LastOwn
<1>2. ASSUME NEW f \in Latests PROVE Len(f) = LastOwn /\ DOMAIN f = 1..LastOwn
    <2>1. f \in Seq(Int)
        BY <1>1, SeqDef DEF Latests
    <2>2. Len(f) \in Nat /\ DOMAIN f = 1..Len(f)
        BY <2>1, LenProperties
    <2>3. DOMAIN f = 1..LastOwn
        BY DEF Latests
    <2>4. QED
        BY <1>1, <2>2, <2>3
<1>3. InitialLatest \in Latests /\ \A b \in 1..LastOwn : InitialLatest[b] = 0
    BY <1>1 DEF InitialLatest, Latests, LastOwn
<1>4. QED
    BY <1>1, <1>2, <1>3 DEF Buckets

\* updateMetricValue once the last counts are known: the differences, and their sums.
Differences(counts, latest) ==
    [b \in Buckets |-> IF b <= StartInx \/ b > Len(latest) THEN 0 ELSE counts[b] - latest[b]]
Added(m, latest, adds) ==
    [m EXCEPT !.latest = [b \in DOMAIN latest |-> latest[b] + adds[b]],
              !.reported = [b \in Buckets |-> @[b] + adds[b]]]

LEMMA UpdatedAdds ==
    ASSUME NEW m, NEW counts, NEW latest,
           latest = IF m.latest = <<>> THEN InitialLatest ELSE m.latest
    PROVE  Updated(m, counts) = Added(m, latest, Differences(counts, latest))
<1>1. Updated(m, counts) =
          Added(m, IF m.latest = <<>> THEN InitialLatest ELSE m.latest,
                Differences(counts, IF m.latest = <<>> THEN InitialLatest ELSE m.latest))
    BY DEF Updated, Added, Differences
<1>2. QED
    BY <1>1

LEMMA MeterInitInv == Init => MeterInv
<1> SUFFICES ASSUME Init PROVE MeterInv
    OBVIOUS
<1>1. layout \in {"fromMinusInf", "fromZero"} /\ meter = NoMeter
    BY DEF Init
<1>2. PICK z, o : z = [p \in Parts |-> 0] /\ o = [b \in Buckets |-> 0]
    OBVIOUS
<1>3. meter = [latest |-> <<>>, reported |-> o, shown |-> o, gauge |-> z, combined |-> 0]
    BY <1>1, <1>2 DEF NoMeter
<1>4. Total(z) = 0 /\ z \in [Parts -> 0..1] /\ o \in [Buckets -> Int] /\ o \in [Buckets -> Nat]
    BY <1>2, TotalOfNothing
<1>5. 0 \in Totals
    BY <1>4 DEF Totals
<1>6. meter \in Meters
    BY <1>3, <1>4, <1>5 DEF Meters
<1>7. \A b \in Buckets : BucketOK(meter, b)
    BY <1>2, <1>3 DEF BucketOK
<1>8. QED
    BY <1>1, <1>3, <1>4, <1>6, <1>7 DEF MeterInv, MeterOK

\* One read: what the histogram adds to a bucket of its own is what the count has grown.
LEMMA MeterReads ==
    ASSUME layout \in {"fromMinusInf", "fromZero"}, NEW m, MeterOK(m),
           NEW counts \in [Buckets -> Nat], NEW parts \in [Parts -> 0..1],
           NEW u, u = [Combined(Updated(m, counts), parts) EXCEPT !.shown = counts]
    PROVE  MeterOK(u)
<1>1. PICK start, own : start = StartInx /\ own = LastOwn
    OBVIOUS
<1>2. /\ start \in {0, 1} /\ own \in Nat /\ NBuckets \in Nat /\ Buckets = 1..NBuckets
      /\ own = NBuckets - start
    BY <1>1, LayoutTypes
<1>3. /\ m \in Meters /\ \A b \in Buckets : BucketOK(m, b)
      /\ m.latest = <<>> \/ m.latest \in Latests
      /\ m.reported \in [Buckets -> Int] /\ m.shown \in [Buckets -> Nat]
    BY DEF MeterOK, Meters
<1>4. PICK latest : latest = IF m.latest = <<>> THEN InitialLatest ELSE m.latest
    OBVIOUS
<1>5. /\ latest \in Latests /\ Len(latest) = own /\ DOMAIN latest = 1..own
    BY <1>1, <1>3, <1>4, LayoutTypes
<1>6. PICK adds : adds = [b \in Buckets |-> IF b <= start \/ b > own THEN 0
                                            ELSE counts[b] - latest[b]]
    OBVIOUS
<1>7. PICK after, reported, total :
          /\ after = [b \in 1..own |-> latest[b] + adds[b]]
          /\ reported = [b \in Buckets |-> m.reported[b] + adds[b]]
          /\ total = Total(parts)
    OBVIOUS
<1>8. m = [latest |-> m.latest, reported |-> m.reported, shown |-> m.shown, gauge |-> m.gauge,
           combined |-> m.combined]
    BY <1>3 DEF Meters
<1>9. u = [latest |-> after, reported |-> reported, shown |-> counts, gauge |-> parts,
           combined |-> total]
    <2>1. adds = Differences(counts, latest)
        BY <1>1, <1>5, <1>6 DEF Differences
    <2>2. Updated(m, counts) = [m EXCEPT !.latest = after, !.reported = reported]
        <3>1. Updated(m, counts) = Added(m, latest, adds)
            BY <1>4, <2>1, UpdatedAdds
        <3>2. QED
            BY <1>5, <1>7, <1>8, <3>1 DEF Added
    <2>3. PICK v : v = Updated(m, counts)
        OBVIOUS
    <2>4. v = [latest |-> after, reported |-> reported, shown |-> m.shown, gauge |-> m.gauge,
               combined |-> m.combined]
        BY <1>8, <2>2, <2>3
    <2>5. PICK w : w = Combined(v, parts)
        OBVIOUS
    <2>6. w = [v EXCEPT !.gauge = parts, !.combined = total]
        BY <1>7, <2>5 DEF Combined, Total
    <2>7. w = [latest |-> after, reported |-> reported, shown |-> m.shown, gauge |-> parts,
               combined |-> total]
        BY <2>4, <2>6
    <2>8. u = [w EXCEPT !.shown = counts]
        BY <2>3, <2>5
    <2>9. QED
        BY <2>7, <2>8
<1>10. \A b \in 1..own : b \in Buckets /\ latest[b] \in Int
    BY <1>1, <1>2, <1>5 DEF Latests
<1>11. \A b \in Buckets : counts[b] \in Nat /\ adds[b] \in Int
    <2>1. ASSUME NEW b \in Buckets PROVE counts[b] \in Nat /\ adds[b] \in Int
        <3>1. CASE b <= start \/ b > own
            BY <1>6, <3>1
        <3>2. CASE ~(b <= start \/ b > own)
            <4>1. b \in 1..own
                BY <1>2, <3>2
            <4>2. adds[b] = counts[b] - latest[b]
                BY <1>6, <3>2
            <4>3. QED
                BY <1>10, <4>1, <4>2
        <3>3. QED
            BY <3>1, <3>2
    <2>2. QED
        BY <2>1
<1>12. after \in Latests
    BY <1>1, <1>7, <1>10, <1>11 DEF Latests
<1>13. reported \in [Buckets -> Int]
    BY <1>3, <1>7, <1>11
<1>14. u \in Meters
    <2>1. total \in Totals
        BY <1>7 DEF Totals
    <2>2. after \in {<<>>} \cup Latests
        BY <1>12
    <2>3. ASSUME NEW L, NEW R, NEW S, NEW T, NEW V, NEW l \in L, NEW r \in R, NEW s \in S,
                 NEW t \in T, NEW v \in V
          PROVE  [latest |-> l, reported |-> r, shown |-> s, gauge |-> t, combined |-> v]
                     \in [latest : L, reported : R, shown : S, gauge : T, combined : V]
        OBVIOUS
    <2>4. [latest |-> after, reported |-> reported, shown |-> counts, gauge |-> parts,
           combined |-> total] \in Meters
        BY <1>13, <2>1, <2>2, <2>3, Zenon DEF Meters
    <2>5. QED
        BY <1>9, <2>4
<1>15. ASSUME NEW b \in Buckets PROVE BucketOK(u, b)
    <2>1. CASE b \in (start + 1)..own
        <3>1. b \in 1..own /\ ~(b <= start \/ b > own)
            BY <1>2, <2>1
        <3>2. adds[b] = counts[b] - latest[b]
            BY <1>6, <3>1
        <3>3. m.reported[b] = m.shown[b] /\ latest[b] = m.shown[b]
            <4>1. CASE m.latest = <<>>
                <5>1. m.shown[b] = 0 /\ m.reported[b] = m.shown[b]
                    BY <1>1, <1>3, <2>1, <4>1 DEF BucketOK
                <5>2. latest[b] = 0
                    BY <1>1, <1>4, <3>1, <4>1, LayoutTypes
                <5>3. QED
                    BY <5>1, <5>2
            <4>2. CASE m.latest # <<>>
                BY <1>1, <1>3, <1>4, <2>1, <4>2 DEF BucketOK
            <4>3. QED
                BY <4>1, <4>2
        <3>4. after[b] = counts[b] /\ reported[b] = counts[b]
            BY <1>3, <1>7, <1>11, <3>1, <3>2, <3>3
        <3>5. 1..own # {}
            BY <3>1
        <3>6. after # <<>>
            <4>1. DOMAIN after # {}
                BY <1>7, <3>5
            <4>2. QED
                BY <4>1
        <3>7. QED
            BY <1>1, <1>9, <2>1, <3>4, <3>6 DEF BucketOK
    <2>2. CASE b \notin (start + 1)..own
        <3>1. b <= start \/ b > own
            BY <1>2, <2>2
        <3>2. adds[b] = 0 /\ m.reported[b] = 0
            BY <1>1, <1>3, <1>6, <2>2, <3>1 DEF BucketOK
        <3>3. reported[b] = 0
            BY <1>7, <3>2
        <3>4. QED
            BY <1>1, <1>9, <2>2, <3>3 DEF BucketOK
    <2>3. QED
        BY <2>1, <2>2
<1>16. QED
    <2>1. u.latest \in Latests /\ u.combined = total /\ u.gauge = parts
        BY <1>9, <1>12
    <2>2. u.combined = Total(u.gauge)
        BY <1>7, <2>1
    <2>3. QED
        BY <1>14, <1>15, <2>1, <2>2 DEF MeterOK

LEMMA MeterNextInv == MeterInv /\ (Next \/ UNCHANGED vars) => MeterInv'
<1> SUFFICES ASSUME MeterInv, Next \/ UNCHANGED vars PROVE MeterInv'
    OBVIOUS
<1>1. ASSUME UNCHANGED <<layout, meter>> PROVE MeterInv'
    BY <1>1 DEF MeterInv, MeterOK, Meters, Totals, Latests, LastOwn, StartInx, BucketOK
<1>2. CASE RunHooks
    <2>1. layout' = layout
        BY <1>2 DEF RunHooks
    <2>2. CASE hooked # "taken"
        BY <1>1, <1>2, <2>1, <2>2 DEF RunHooks
    <2>3. CASE hooked = "taken"
        <3>1. PICK counts \in [Buckets -> 0..MaxCount], parts \in [Parts -> 0..1] :
                  meter' = [Combined(Updated(meter, counts), parts) EXCEPT !.shown = counts]
            BY <1>2, <2>3 DEF RunHooks
        <3>2. counts \in [Buckets -> Nat]
            BY MetricsAssumption
        <3>3. PICK u : u = meter'
            OBVIOUS
        <3>4. MeterOK(u)
            BY <3>1, <3>2, <3>3, MeterReads DEF MeterInv
        <3>5. QED
            BY <2>1, <3>3, <3>4
               DEF MeterInv, MeterOK, Meters, Totals, Latests, LastOwn, StartInx, BucketOK
    <2>4. QED
        BY <2>2, <2>3
<1>3. CASE UNCHANGED vars
    BY <1>1, <1>3 DEF vars
<1>4. CASE Next /\ ~RunHooks
    BY <1>1, <1>4 DEF Next, AppendWrite, InitTracer, RegisterGauge, RegisterHook, NewCounter,
       ObtainRead, ObtainReset
<1>5. QED
    BY <1>2, <1>3, <1>4

LEMMA MeterInvSafe == MeterInv => MetersShowTheRuntime
<1> SUFFICES ASSUME MeterInv PROVE MetersShowTheRuntime
    OBVIOUS
<1>1. /\ StartInx \in {0, 1} /\ NBuckets \in Nat /\ Buckets = 1..NBuckets
      /\ LastOwn = NBuckets - StartInx
    BY LayoutTypes DEF MeterInv
<1>2. ASSUME NEW b \in Buckets
      PROVE  b \in (StartInx + 1)..LastOwn
                 <=> ~(b <= StartInx \/ (StartInx = 1 /\ b = NBuckets))
    BY <1>1
<1>3. ASSUME NEW b \in Buckets
      PROVE  meter.reported[b] = IF b <= StartInx \/ (StartInx = 1 /\ b = NBuckets) THEN 0
                                 ELSE meter.shown[b]
    <2>1. BucketOK(meter, b)
        BY DEF MeterInv, MeterOK
    <2>2. QED
        BY <1>2, <2>1 DEF BucketOK
<1>4. meter.combined = MapThenSumSet(LAMBDA p : meter.gauge[p], Parts)
    BY DEF MeterInv, MeterOK, Total
<1>5. QED
    BY <1>3, <1>4 DEF MetersShowTheRuntime

\* updateMetricValue and the histogram's boundaries, updateCombinedMetricValue: over any
\* number of reads, buckets and counts, the differences the meter adds are what the runtime
\* counted, in each bucket but those that it leaves out.
THEOREM MetersShow == SkyWalkingSpec => []MetersShowTheRuntime
<1>1. SkyWalkingInit => MeterInv
    BY MeterInitInv DEF SkyWalkingInit
<1>2. MeterInv
      /\ [SkyWalkingNext]_<<hooks, vars, callVars, streamVars, sqlVars, mongoVars, socketVars>>
          => MeterInv'
    <2>1. SkyWalkingNext
              \/ UNCHANGED <<hooks, vars, callVars, streamVars, sqlVars, mongoVars, socketVars>>
          => Next \/ UNCHANGED vars
        BY DEF SkyWalkingNext
    <2>2. QED
        BY <2>1, MeterNextInv
<1>3. QED
    BY <1>1, <1>2, MeterInvSafe, PTL DEF SkyWalkingSpec

-----------------------------------------------------------------------------
(* Synchronous calls: the spans of nested hooks.                            *)

\* Span s was made while span q was the context, or one under q; or it is q.
ClosedUnder(t, X) == \A i \in 1..Len(t.log) : t.log[i].parent.span \in X => i \in X
Under(t, q, s) == \A X \in SUBSET (1..Len(t.log)) : (q \in X /\ ClosedUnder(t, X)) => s \in X

\* A span's parent is older.
ParentsAreOlder(t) == \A i \in 1..Len(t.log) : t.log[i].parent.span \in Nat /\ t.log[i].parent.span < i

LEMMA UnderItself == \A t, q : Under(t, q, q)
BY DEF Under

LEMMA UnderParent ==
    ASSUME NEW t, NEW q, NEW s, Under(t, q, s), s # q, s \in 1..Len(t.log)
    PROVE  Under(t, q, t.log[s].parent.span)
<1>1. SUFFICES ASSUME NEW X \in SUBSET (1..Len(t.log)), q \in X, ClosedUnder(t, X),
                      t.log[s].parent.span \notin X
               PROVE  FALSE
    BY DEF Under
<1>2. PICK Y \in SUBSET (1..Len(t.log)) : Y = X \ {s}
    OBVIOUS
<1>3. q \in Y /\ ClosedUnder(t, Y)
    BY <1>1, <1>2 DEF ClosedUnder
<1>4. s \in Y
    BY <1>3 DEF Under
<1>5. QED
    BY <1>2, <1>4

LEMMA UnderChild ==
    ASSUME NEW t, NEW q, NEW i \in 1..Len(t.log), Under(t, q, t.log[i].parent.span)
    PROVE  Under(t, q, i)
BY DEF Under, ClosedUnder

\* What is under a span is a span, and not an older one.
LEMMA UnderIsSpan ==
    ASSUME NEW t, ParentsAreOlder(t), Len(t.log) \in Nat,
           NEW q \in 1..Len(t.log), NEW s, Under(t, q, s)
    PROVE  s \in 1..Len(t.log) /\ q <= s
<1>1. PICK X \in SUBSET (1..Len(t.log)) : X = {i \in 1..Len(t.log) : q <= i}
    OBVIOUS
<1>2. ClosedUnder(t, X)
  <2>1. ASSUME NEW i \in 1..Len(t.log), t.log[i].parent.span \in X PROVE q <= i
    <3>1. PICK p : p = t.log[i].parent.span
      OBVIOUS
    <3>2. p \in Nat /\ p < i /\ q <= p
      BY <1>1, <2>1, <3>1 DEF ParentsAreOlder
    <3>3. QED
      BY <3>2
  <2>2. QED
    BY <1>1, <2>1 DEF ClosedUnder
<1>3. q \in X
    BY <1>1
<1>4. s \in X
    BY <1>2, <1>3 DEF Under
<1>5. QED
    BY <1>1, <1>4

\* Depths do not matter.
LEMMA UnderSame ==
    ASSUME NEW t, NEW u, Len(u.log) = Len(t.log),
           \A i \in 1..Len(t.log) : u.log[i].parent = t.log[i].parent
    PROVE  \A q, s : Under(u, q, s) <=> Under(t, q, s)
<1>1. \A X : ClosedUnder(u, X) <=> ClosedUnder(t, X)
    BY DEF ClosedUnder
<1>2. QED
    BY <1>1 DEF Under

\* A new span is under its parent and what that is under; else nothing changes.
LEMMA UnderGrown ==
    ASSUME NEW t, NEW u, Len(t.log) \in Nat, Len(u.log) = Len(t.log) + 1,
           \A i \in 1..Len(t.log) : u.log[i].parent = t.log[i].parent,
           ParentsAreOlder(t), NEW p \in 0..Len(t.log), u.log[Len(u.log)].parent.span = p,
           NEW q \in 1..Len(t.log)
    PROVE  /\ \A s \in 1..Len(t.log) : Under(u, q, s) <=> Under(t, q, s)
           /\ Under(u, q, Len(u.log)) <=> Under(t, q, p)
<1>1. PICK m \in Nat : m = Len(t.log) /\ Len(u.log) = m + 1
    OBVIOUS
<1>2. \A i \in 1..(m + 1) : i \in 1..m \/ i = m + 1
    BY <1>1
<1>3. 1..m \subseteq 1..(m + 1) /\ m + 1 \notin 1..m /\ m + 1 \in 1..(m + 1)
    BY <1>1
<1>4. ASSUME NEW s \in 1..m, Under(t, q, s) PROVE Under(u, q, s)
  <2>1. SUFFICES ASSUME NEW X \in SUBSET (1..(m + 1)), q \in X, ClosedUnder(u, X) PROVE s \in X
    BY <1>1 DEF Under
  <2>2. PICK Y \in SUBSET (1..m) : Y = X \cap (1..m)
    OBVIOUS
  <2>3. ClosedUnder(t, Y)
    BY <1>1, <1>3, <2>1, <2>2 DEF ClosedUnder
  <2>4. q \in Y
    BY <1>1, <2>1, <2>2
  <2>5. QED
    BY <1>1, <1>4, <2>2, <2>3, <2>4 DEF Under
<1>5. ASSUME NEW X \in SUBSET (1..m), ClosedUnder(t, X), NEW Y, Y = IF p \in X THEN X \cup {m + 1} ELSE X
      PROVE  Y \in SUBSET (1..(m + 1)) /\ ClosedUnder(u, Y)
  <2>1. Y \in SUBSET (1..(m + 1))
    BY <1>3, <1>5
  <2>2. ASSUME NEW i \in 1..(m + 1), u.log[i].parent.span \in Y PROVE i \in Y
    <3>1. CASE i = m + 1
      BY <1>1, <1>3, <1>5, <2>2, <3>1
    <3>2. CASE i \in 1..m
      <4>1. u.log[i].parent.span \in X \/ u.log[i].parent.span = m + 1
        BY <1>5, <2>2
      <4>2. u.log[i].parent = t.log[i].parent
        BY <1>1, <3>2
      <4>3. CASE t.log[i].parent.span \in X
        BY <1>1, <1>5, <3>2, <4>3 DEF ClosedUnder
      <4>4. CASE t.log[i].parent.span = m + 1
        <5>1. m + 1 < i
          BY <1>1, <3>2, <4>4 DEF ParentsAreOlder
        <5>2. QED
          BY <3>2, <5>1
      <4>5. QED
        BY <4>1, <4>2, <4>3, <4>4
    <3>3. QED
      BY <1>2, <3>1, <3>2
  <2>3. QED
    BY <1>1, <2>1, <2>2 DEF ClosedUnder
<1>6. ASSUME NEW X \in SUBSET (1..m), q \in X, ClosedUnder(t, X), NEW s \in 1..(m + 1),
             Under(u, q, s)
      PROVE  IF s = m + 1 THEN p \in X ELSE s \in X
  <2>1. PICK Y : Y = IF p \in X THEN X \cup {m + 1} ELSE X
    OBVIOUS
  <2>2. Y \in SUBSET (1..(m + 1)) /\ ClosedUnder(u, Y) /\ q \in Y
    BY <1>5, <1>6, <2>1
  <2>3. s \in Y
    BY <1>1, <1>6, <2>2 DEF Under
  <2>4. QED
    BY <1>3, <1>6, <2>1, <2>3
<1>7. ASSUME NEW s \in 1..m, Under(u, q, s) PROVE Under(t, q, s)
  <2>1. s \in 1..(m + 1) /\ s # m + 1
    BY <1>3, <1>7
  <2>2. QED
    BY <1>1, <1>6, <1>7, <2>1 DEF Under
<1>8. ASSUME Under(u, q, m + 1) PROVE Under(t, q, p)
    BY <1>1, <1>3, <1>6, <1>8 DEF Under
<1>9. ASSUME Under(t, q, p) PROVE Under(u, q, m + 1)
  <2>1. p \in 1..m
    BY <1>1, <1>9, UnderIsSpan
  <2>2. Under(u, q, p)
    BY <1>4, <1>9, <2>1
  <2>3. QED
    BY <1>1, <1>3, <2>2, UnderChild
<1>10. QED
    BY <1>1, <1>4, <1>7, <1>8, <1>9

CallsContext == {"g"}
CallNames == {"call", "read"}
CallTracings == Tracings(CallsContext, CallNames)
Hooks == Calls!Servers \cup Calls!Clients \cup Calls!Locals \cup {Calls!Recovering}
Frames == [hook : Hooks, span : Nat, recorded : Calls!Codes]

\* The frames of fs that will end span i.
Sharing(fs, i) == {k \in 1..Len(fs) : fs[k].span = i}

\* Contexts and parents are spans of the log, no snapshots; a parent is older.
LinksOK(t) ==
    /\ t.act["g"].span <= Len(t.log) /\ (t.act["g"].span # 0 => ~t.act["g"].snap)
    /\ \A i \in 1..Len(t.log) :
          /\ t.log[i].parent.span < i
          /\ t.log[i].parent.span # 0 => ~t.log[i].parent.snap
          /\ t.log[i].async = "no"

\* The context is under every frame's span, and so are the frames further in.
NestOK(t, fs) ==
    \A k \in 1..Len(fs) : fs[k].span # 0 =>
        /\ fs[k].span \in 1..Len(t.log)
        /\ Under(t, fs[k].span, t.act["g"].span)
        /\ \A j \in 1..Len(fs) : k < j /\ fs[j].span # 0 => Under(t, fs[k].span, fs[j].span)

\* A span that the context is under is open.
OpenOK(t) == \A i \in 1..Len(t.log) : Under(t, i, t.act["g"].span) => t.log[i].depth >= 1

\* A span is open for every frame that will end it, and for a skipped End still.
DepthOK(t, fs) == \A i \in 1..Len(t.log) : t.log[i].depth >= Cardinality(Sharing(fs, i))
Exact(t, fs) == \A i \in 1..Len(t.log) : t.log[i].depth = Cardinality(Sharing(fs, i))

Stacked(t, fs) == LinksOK(t) /\ NestOK(t, fs) /\ OpenOK(t) /\ DepthOK(t, fs)

LEMMA SharingCounted ==
    ASSUME NEW fs \in Seq(Frames), NEW i
    PROVE  IsFiniteSet(Sharing(fs, i)) /\ Cardinality(Sharing(fs, i)) \in Nat
<1>1. IsFiniteSet(1..Len(fs))
    BY LenProperties, FS_Interval
<1>2. Sharing(fs, i) \subseteq 1..Len(fs)
    BY DEF Sharing
<1>3. QED
    BY <1>1, <1>2, FS_Subset, FS_CardinalityType

LEMMA SharingAppended ==
    ASSUME NEW fs \in Seq(Frames), NEW f \in Frames, NEW i
    PROVE  Cardinality(Sharing(Append(fs, f), i)) =
              IF f.span = i THEN Cardinality(Sharing(fs, i)) + 1 ELSE Cardinality(Sharing(fs, i))
<1>1. PICK a : a = Append(fs, f)
    OBVIOUS
<1>2. PICK m \in Nat : m = Len(fs)
    BY LenProperties
<1>3. Len(a) = m + 1 /\ a[m + 1] = f /\ \A k \in 1..m : a[k] = fs[k]
    BY <1>1, <1>2, AppendProperties
<1>4. 1..(m + 1) = (1..m) \cup {m + 1} /\ m + 1 \notin 1..m
    OBVIOUS
<1>5. Sharing(a, i) = IF f.span = i THEN Sharing(fs, i) \cup {m + 1} ELSE Sharing(fs, i)
    BY <1>2, <1>3, <1>4 DEF Sharing
<1>6. m + 1 \notin Sharing(fs, i)
    BY <1>2, <1>4 DEF Sharing
<1>7. QED
    BY <1>1, <1>5, <1>6, SharingCounted, FS_AddElement

LEMMA SharingPopped ==
    ASSUME NEW fs \in Seq(Frames), fs # <<>>, NEW i
    PROVE  Cardinality(Sharing(Front(fs), i)) =
              IF Last(fs).span = i THEN Cardinality(Sharing(fs, i)) - 1 ELSE Cardinality(Sharing(fs, i))
<1>1. PICK a : a = Front(fs)
    OBVIOUS
<1>2. PICK m \in Nat : m + 1 = Len(fs)
  <2>1. Len(fs) \in Nat /\ Len(fs) # 0
    BY LenProperties
  <2>2. Len(fs) - 1 \in Nat /\ (Len(fs) - 1) + 1 = Len(fs)
    BY <2>1
  <2>3. QED
    BY <2>2
<1>3. Len(a) = m /\ Last(fs) = fs[m + 1] /\ \A k \in 1..m : a[k] = fs[k]
  <2>1. Len(fs) - 1 = m
    BY <1>2
  <2>2. Len(a) = Len(fs) - 1 /\ \A k \in 1..(Len(fs) - 1) : a[k] = fs[k]
    BY <1>1, FrontProperties
  <2>3. QED
    BY <1>2, <2>1, <2>2 DEF Last
<1>4. 1..(m + 1) = (1..m) \cup {m + 1} /\ m + 1 \notin 1..m
    OBVIOUS
<1>5. Sharing(a, i) = Sharing(fs, i) \ {m + 1}
    BY <1>2, <1>3, <1>4 DEF Sharing
<1>6. m + 1 \in Sharing(fs, i) <=> Last(fs).span = i
    BY <1>2, <1>3, <1>4 DEF Sharing
<1>7. CASE Last(fs).span = i
  <2>1. m + 1 \in Sharing(fs, i)
    BY <1>6, <1>7
  <2>2. IsFiniteSet(Sharing(fs, i))
    BY SharingCounted
  <2>3. Cardinality(Sharing(fs, i) \ {m + 1}) = Cardinality(Sharing(fs, i)) - 1
    BY <2>1, <2>2, FS_RemoveElement
  <2>4. QED
    BY <1>1, <1>5, <1>7, <2>3
<1>8. CASE Last(fs).span # i
  <2>1. Sharing(a, i) = Sharing(fs, i)
    BY <1>5, <1>6, <1>8
  <2>2. QED
    BY <1>1, <1>8, <2>1
<1>9. QED
    BY <1>7, <1>8

\* What the other lemmas need of the log and of the context.
LEMMA CallLog ==
    ASSUME NEW t \in CallTracings, NEW fs, Stacked(t, fs)
    PROVE  /\ Len(t.log) \in Nat /\ ParentsAreOlder(t)
           /\ t.act["g"] \in Contexts /\ t.act["g"].span \in 0..Len(t.log)
           /\ \A i \in 1..Len(t.log) : t.log[i].depth \in Nat /\ t.log[i].parent \in Contexts
<1>1. /\ Len(t.log) \in Nat /\ t.act["g"] \in Contexts
      /\ \A i \in 1..Len(t.log) : t.log[i].depth \in Nat /\ t.log[i].parent \in Contexts
    BY TracingTypes DEF CallTracings, CallsContext, Spans
<1>2. ParentsAreOlder(t)
    BY <1>1 DEF Stacked, LinksOK, ParentsAreOlder, Contexts
<1>3. t.act["g"].span \in 0..Len(t.log)
    BY <1>1 DEF Stacked, LinksOK, Contexts
<1>4. QED
    BY <1>1, <1>2, <1>3

\* A hook of a call makes or shares its span (named, so that proofs unfold it only at need).
Makes(t, kind, name, u) == u = Create(t, "g", kind, name)

\* A span of the calls is shared: it is deeper by one, and nothing else changes.
LEMMA CallShares ==
    ASSUME NEW t \in CallTracings, NEW kind \in SpanKinds, NEW name \in CallNames,
           Reuses(t, "g", kind), t.act["g"].span \in 1..Len(t.log),
           NEW u, Makes(t, kind, name, u)
    PROVE  /\ u \in CallTracings /\ Len(u.log) = Len(t.log) /\ u.act = t.act
           /\ \A j \in 1..Len(t.log) : j # t.act["g"].span => u.log[j] = t.log[j]
           /\ SameSpan(u.log[t.act["g"].span], t.log[t.act["g"].span])
           /\ u.log[t.act["g"].span].depth = t.log[t.act["g"].span].depth + 1
<1>1. "g" \in CallsContext /\ t \in Tracings(CallsContext, CallNames)
    BY DEF CallsContext, CallTracings
<1>2. PICK s \in 1..Len(t.log) : s = t.act["g"].span
    OBVIOUS
<1>3. /\ u \in Tracings(CallsContext, CallNames) /\ Len(u.log) = Len(t.log) /\ u.act = t.act
      /\ \A j \in 1..Len(t.log) : j # s => u.log[j] = t.log[j]
      /\ SameSpan(u.log[s], t.log[s]) /\ u.log[s].depth = t.log[s].depth + 1
    BY <1>1, <1>2, CreateShares DEF Makes
<1>4. QED
    BY <1>2, <1>3 DEF CallTracings

\* A hook's prologue: the span is shared or made, and the frame will end it.
LEMMA FramePushed ==
    ASSUME NEW t \in CallTracings, NEW fs \in Seq(Frames), Stacked(t, fs),
           NEW kind \in SpanKinds, NEW name \in CallNames, NEW u, Makes(t, kind, name, u),
           NEW f \in Frames, f.span = u.act["g"].span
    PROVE  /\ u \in CallTracings /\ Stacked(u, Append(fs, f))
           /\ Exact(t, fs) => Exact(u, Append(fs, f))
           /\ \A i \in 1..Len(t.log) : u.log[i].parent = t.log[i].parent
           /\ \/ Len(u.log) = Len(t.log) /\ u.act = t.act /\ f.span = t.act["g"].span
              \/ /\ Len(u.log) = Len(t.log) + 1 /\ f.span = Len(u.log)
                 /\ u.log[f.span].parent = IF t.act["g"] = NoContext THEN NoSpan ELSE t.act["g"]
           /\ f.span \in 1..Len(u.log)
<1>1. PICK m \in Nat : m = Len(t.log)
    BY CallLog
<1>2. PICK c : c = t.act["g"]
    OBVIOUS
<1>3. /\ c \in Contexts /\ c.span \in 0..m /\ (c.span # 0 => ~c.snap)
      /\ \A i \in 1..m : t.log[i].depth \in Nat /\ t.log[i].parent \in Contexts
      /\ ParentsAreOlder(t)
    BY <1>1, <1>2, CallLog DEF Stacked, LinksOK
<1>4. PICK a : a = Append(fs, f)
    OBVIOUS
<1>5. PICK n \in Nat : n = Len(fs)
    BY LenProperties
<1>6. /\ a \in Seq(Frames) /\ Len(a) = n + 1 /\ a[n + 1] = f /\ \A k \in 1..n : a[k] = fs[k]
      /\ \A k \in 1..(n + 1) : k \in 1..n \/ k = n + 1
      /\ \A k, j \in 1..(n + 1) : k < j => k \in 1..n
    BY <1>4, <1>5, AppendProperties
<1>7. \A i : Cardinality(Sharing(a, i)) =
                IF f.span = i THEN Cardinality(Sharing(fs, i)) + 1 ELSE Cardinality(Sharing(fs, i))
    BY <1>4, SharingAppended
<1>8. \A i : Cardinality(Sharing(fs, i)) \in Nat
    BY SharingCounted
<1>9. "g" \in CallsContext /\ t \in Tracings(CallsContext, CallNames)
    BY DEF CallsContext, CallTracings
<1>10. CASE Reuses(t, "g", kind)
  <2>1. PICK s : s = c.span
    OBVIOUS
  <2>2. s \in 1..Len(t.log) /\ s = t.act["g"].span
    BY <1>1, <1>2, <1>3, <1>10, <2>1 DEF Reuses
  <2>3. /\ u \in CallTracings /\ Len(u.log) = m /\ u.act = t.act
        /\ \A j \in 1..m : j # s => u.log[j] = t.log[j]
        /\ SameSpan(u.log[s], t.log[s]) /\ u.log[s].depth = t.log[s].depth + 1
    <3>1. t.act["g"].span \in 1..Len(t.log)
      BY <2>2
    <3>2. /\ u \in CallTracings /\ Len(u.log) = Len(t.log) /\ u.act = t.act
          /\ \A j \in 1..Len(t.log) : j # t.act["g"].span => u.log[j] = t.log[j]
          /\ SameSpan(u.log[t.act["g"].span], t.log[t.act["g"].span])
          /\ u.log[t.act["g"].span].depth = t.log[t.act["g"].span].depth + 1
      BY <1>10, <3>1, CallShares
    <3>3. QED
      BY <1>1, <2>2, <3>2
  <2>4. f.span = s
    BY <2>2, <2>3
  <2>5. \A i \in 1..m : u.log[i].parent = t.log[i].parent /\ u.log[i].async = t.log[i].async
    BY <2>3 DEF SameSpan
  <2>6. \A i, j : Under(u, i, j) <=> Under(t, i, j)
    BY <1>1, <2>3, <2>5, UnderSame
  <2>7. LinksOK(u)
    BY <1>1, <2>3, <2>5 DEF Stacked, LinksOK
  <2>8. NestOK(u, a)
    <3>1. SUFFICES ASSUME NEW k \in 1..(n + 1), a[k].span # 0
                   PROVE  /\ a[k].span \in 1..m /\ Under(t, a[k].span, s)
                          /\ \A j \in 1..(n + 1) : k < j /\ a[j].span # 0 => Under(t, a[k].span, a[j].span)
      BY <1>6, <2>2, <2>3, <2>6 DEF NestOK
    <3>2. CASE k = n + 1
      <4>1. a[k].span = s
        BY <1>6, <2>4, <3>2
      <4>2. \A j \in 1..(n + 1) : ~(k < j)
        BY <3>2
      <4>3. QED
        BY <1>1, <2>2, <4>1, <4>2, UnderItself
    <3>3. CASE k \in 1..n
      <4>1. a[k] = fs[k] /\ fs[k].span \in 1..m /\ Under(t, fs[k].span, s)
        BY <1>1, <1>5, <1>6, <2>2, <3>1, <3>3 DEF Stacked, NestOK
      <4>2. ASSUME NEW j \in 1..(n + 1), k < j, a[j].span # 0 PROVE Under(t, a[k].span, a[j].span)
        <5>1. CASE j = n + 1
          BY <1>6, <2>4, <4>1, <5>1
        <5>2. CASE j \in 1..n
          BY <1>5, <1>6, <3>1, <3>3, <4>1, <4>2, <5>2 DEF Stacked, NestOK
        <5>3. QED
          BY <1>6, <5>1, <5>2
      <4>3. QED
        BY <4>1, <4>2
    <3>4. QED
      BY <1>6, <3>2, <3>3
  <2>9. OpenOK(u)
    <3>1. SUFFICES ASSUME NEW i \in 1..m, Under(t, i, s) PROVE u.log[i].depth >= 1
      BY <2>2, <2>3, <2>6 DEF OpenOK
    <3>2. t.log[i].depth >= 1
      BY <1>1, <2>2, <3>1 DEF Stacked, OpenOK
    <3>3. t.log[i].depth \in Nat
      BY <1>3
    <3>4. u.log[i].depth = t.log[i].depth \/ u.log[i].depth = t.log[i].depth + 1
      BY <2>3
    <3>5. QED
      BY <3>2, <3>3, <3>4
  <2>10. ASSUME NEW i \in 1..m
         PROVE  /\ u.log[i].depth >= Cardinality(Sharing(a, i))
                /\ t.log[i].depth = Cardinality(Sharing(fs, i)) =>
                      u.log[i].depth = Cardinality(Sharing(a, i))
    <3>1. t.log[i].depth \in Nat /\ t.log[i].depth >= Cardinality(Sharing(fs, i))
      BY <1>1, <1>3 DEF Stacked, DepthOK
    <3>2. u.log[i].depth = IF s = i THEN t.log[i].depth + 1 ELSE t.log[i].depth
      BY <2>3
    <3>3. PICK x : x = Cardinality(Sharing(fs, i))
      OBVIOUS
    <3>4. x \in Nat /\ Cardinality(Sharing(a, i)) = IF s = i THEN x + 1 ELSE x
      BY <1>7, <1>8, <2>4, <3>3
    <3>5. QED
      BY <3>1, <3>2, <3>3, <3>4
  <2>11. DepthOK(u, a) /\ (Exact(t, fs) => Exact(u, a))
    BY <1>1, <2>3, <2>10 DEF DepthOK, Exact
  <2>12. QED
    BY <1>1, <1>4, <2>2, <2>3, <2>4, <2>5, <2>7, <2>8, <2>9, <2>11 DEF Stacked
<1>11. CASE ~Reuses(t, "g", kind)
  <2>1. PICK p : p = IF c = NoContext THEN NoSpan ELSE c
    OBVIOUS
  <2>2. p.span = c.span /\ p \in Contexts
    BY <1>3, <2>1 DEF NoContext, NoSpan, Contexts
  <2>3. /\ u \in CallTracings /\ Len(u.log) = m + 1
        /\ \A i \in 1..m : u.log[i] = t.log[i]
        /\ u.log[m + 1] = [kind |-> kind, name |-> name, parent |-> p, depth |-> 1, async |-> "no"]
        /\ u.act["g"] = [span |-> m + 1, snap |-> FALSE]
    <3>1. /\ u \in Tracings(CallsContext, CallNames) /\ Len(u.log) = Len(t.log) + 1
          /\ \A i \in 1..Len(t.log) : u.log[i] = t.log[i]
          /\ u.log[Len(u.log)] = [kind |-> kind, name |-> name,
                                  parent |-> IF t.act["g"] = NoContext THEN NoSpan ELSE t.act["g"],
                                  depth |-> 1, async |-> "no"]
          /\ u.act["g"] = [span |-> Len(u.log), snap |-> FALSE]
      BY <1>9, <1>11, CreateMakes DEF Makes
    <3>2. QED
      BY <1>1, <1>2, <2>1, <3>1 DEF CallTracings
  <2>4. /\ f.span = m + 1 /\ u.log[m + 1].parent = p /\ u.log[m + 1].depth = 1
        /\ u.log[m + 1].async = "no" /\ u.act["g"].span = m + 1 /\ ~u.act["g"].snap
    BY <2>3
  <2>5. /\ m + 1 \in 1..(m + 1) /\ m + 1 \notin 1..m /\ m + 1 # 0
        /\ \A i \in 1..(m + 1) : i \in 1..m \/ i = m + 1
        /\ 1..m \subseteq 1..(m + 1)
    OBVIOUS
  <2>6. \A i \in 1..m : u.log[i].parent = t.log[i].parent
    BY <2>3
  <2>7. \A i \in 1..m : /\ \A j \in 1..m : Under(u, i, j) <=> Under(t, i, j)
                        /\ Under(u, i, m + 1) <=> Under(t, i, c.span)
    <3>1. c.span \in 0..Len(t.log) /\ u.log[Len(u.log)].parent.span = c.span
      BY <1>1, <1>3, <2>2, <2>3, <2>4
    <3>2. QED
      <4>1. /\ Len(t.log) \in Nat /\ Len(u.log) = Len(t.log) + 1
            /\ \A i \in 1..Len(t.log) : u.log[i].parent = t.log[i].parent
        BY <1>1, <2>3, <2>6
      <4>2. ASSUME NEW i \in 1..Len(t.log)
            PROVE  /\ \A j \in 1..Len(t.log) : Under(u, i, j) <=> Under(t, i, j)
                   /\ Under(u, i, Len(u.log)) <=> Under(t, i, c.span)
        BY <1>3, <3>1, <4>1, UnderGrown
      <4>3. Len(u.log) = m + 1 /\ Len(t.log) = m
        BY <1>1, <2>3
      <4>4. QED
        BY <4>2, <4>3
  <2>8. LinksOK(u)
    <3>1. ASSUME NEW i \in 1..(m + 1)
          PROVE  /\ u.log[i].parent.span < i
                 /\ u.log[i].parent.span # 0 => ~u.log[i].parent.snap
                 /\ u.log[i].async = "no"
      <4>1. CASE i = m + 1
        <5>1. p.span < m + 1
          BY <1>3, <2>2
        <5>2. p.span # 0 => ~p.snap
          BY <1>3, <2>1 DEF NoSpan
        <5>3. QED
          BY <2>4, <4>1, <5>1, <5>2
      <4>2. CASE i \in 1..m
        BY <1>1, <2>3, <4>2 DEF Stacked, LinksOK
      <4>3. QED
        BY <2>5, <4>1, <4>2
    <3>2. QED
      BY <2>3, <2>4, <2>5, <3>1 DEF LinksOK
  <2>9. NestOK(u, a)
    <3>1. SUFFICES ASSUME NEW k \in 1..(n + 1), a[k].span # 0
                   PROVE  /\ a[k].span \in 1..(m + 1) /\ Under(u, a[k].span, m + 1)
                          /\ \A j \in 1..(n + 1) : k < j /\ a[j].span # 0 => Under(u, a[k].span, a[j].span)
      BY <1>6, <2>3, <2>4 DEF NestOK
    <3>2. CASE k = n + 1
      <4>1. a[k].span = m + 1
        BY <1>6, <2>4, <3>2
      <4>2. \A j \in 1..(n + 1) : ~(k < j)
        BY <3>2
      <4>3. QED
        BY <2>5, <4>1, <4>2, UnderItself
    <3>3. CASE k \in 1..n
      <4>1. a[k] = fs[k] /\ fs[k].span \in 1..m /\ Under(t, fs[k].span, c.span)
        BY <1>1, <1>2, <1>5, <1>6, <3>1, <3>3 DEF Stacked, NestOK
      <4>2. Under(u, a[k].span, m + 1)
        BY <2>7, <4>1
      <4>3. ASSUME NEW j \in 1..(n + 1), k < j, a[j].span # 0 PROVE Under(u, a[k].span, a[j].span)
        <5>1. CASE j = n + 1
          BY <1>6, <2>4, <4>2, <5>1
        <5>2. CASE j \in 1..n
          <6>1. a[j] = fs[j] /\ fs[j].span \in 1..m /\ Under(t, fs[k].span, fs[j].span)
            BY <1>1, <1>5, <1>6, <3>1, <3>3, <4>1, <4>3, <5>2 DEF Stacked, NestOK
          <6>2. QED
            BY <2>7, <4>1, <6>1
        <5>3. QED
          BY <1>6, <5>1, <5>2
      <4>4. QED
        BY <2>5, <4>1, <4>2, <4>3
    <3>4. QED
      BY <1>6, <3>2, <3>3
  <2>10. OpenOK(u)
    <3>1. SUFFICES ASSUME NEW i \in 1..(m + 1), Under(u, i, m + 1) PROVE u.log[i].depth >= 1
      BY <2>3, <2>4 DEF OpenOK
    <3>2. CASE i = m + 1
      BY <2>4, <3>2
    <3>3. CASE i \in 1..m
      BY <1>1, <1>2, <2>3, <2>7, <3>1, <3>3 DEF Stacked, OpenOK
    <3>4. QED
      BY <2>5, <3>2, <3>3
  <2>11. ASSUME NEW i \in 1..(m + 1)
         PROVE  /\ u.log[i].depth >= Cardinality(Sharing(a, i))
                /\ Exact(t, fs) => u.log[i].depth = Cardinality(Sharing(a, i))
    <3>1. CASE i \in 1..m
      <4>1. f.span # i
        BY <2>4, <2>5, <3>1
      <4>2. Cardinality(Sharing(a, i)) = Cardinality(Sharing(fs, i)) /\ u.log[i] = t.log[i]
        BY <1>7, <2>3, <3>1, <4>1
      <4>3. QED
        BY <1>1, <3>1, <4>2 DEF Stacked, DepthOK, Exact
    <3>2. CASE i = m + 1
      <4>1. Sharing(fs, i) = {}
        <5>1. \A k \in 1..Len(fs) : fs[k].span # m + 1
          BY <1>1, <2>5 DEF Stacked, NestOK
        <5>2. QED
          BY <3>2, <5>1 DEF Sharing
      <4>2. Cardinality(Sharing(a, i)) = 1
        <5>1. Cardinality(Sharing(fs, i)) = 0
          BY <4>1, FS_EmptySet
        <5>2. QED
          BY <1>7, <2>4, <3>2, <5>1
      <4>3. QED
        BY <2>4, <3>2, <4>2
    <3>3. QED
      BY <2>5, <3>1, <3>2
  <2>12. DepthOK(u, a) /\ (Exact(t, fs) => Exact(u, a))
    BY <2>3, <2>11 DEF DepthOK, Exact
  <2>13. QED
    BY <1>1, <1>2, <1>4, <2>1, <2>3, <2>4, <2>5, <2>6, <2>8, <2>9, <2>10, <2>12 DEF Stacked
<1>12. QED
    BY <1>10, <1>11

\* A stack is popped: what is below stays.
LEMMA FramesPopped ==
    ASSUME NEW fs \in Seq(Frames), fs # <<>>, NEW n \in Nat, n = Len(Front(fs))
    PROVE  /\ Front(fs) \in Seq(Frames) /\ Len(fs) = n + 1 /\ Last(fs) = fs[n + 1]
           /\ Last(fs) \in Frames
           /\ \A k \in 1..n : Front(fs)[k] = fs[k] /\ k \in 1..Len(fs) /\ k < n + 1
           /\ n + 1 \in 1..Len(fs)
<1>1. /\ Front(fs) \in Seq(Frames) /\ Len(Front(fs)) = Len(fs) - 1 /\ Len(fs) \in 1..Len(fs)
      /\ \A k \in 1..(Len(fs) - 1) : Front(fs)[k] = fs[k]
      /\ Last(fs) = fs[Len(fs)] /\ Last(fs) \in Frames /\ Len(fs) \in Nat
    BY FrontProperties, LenProperties DEF Last
<1>2. Len(fs) = n + 1
    BY <1>1
<1>3. \A k \in 1..n : k \in 1..(n + 1) /\ k < n + 1
    OBVIOUS
<1>4. QED
    BY <1>1, <1>2, <1>3

\* A frame goes without ending a span: it has none, or its End is skipped.
LEMMA FrameDropped ==
    ASSUME NEW t \in CallTracings, NEW fs \in Seq(Frames), Stacked(t, fs), fs # <<>>
    PROVE  /\ Stacked(t, Front(fs))
           /\ Exact(t, fs) /\ Last(fs).span = 0 => Exact(t, Front(fs))
<1>1. PICK a, n : a = Front(fs) /\ n = Len(a)
    OBVIOUS
<1>2. /\ a \in Seq(Frames) /\ n \in Nat /\ Len(fs) = n + 1
      /\ \A k \in 1..n : a[k] = fs[k] /\ k \in 1..Len(fs)
  <2>1. n \in Nat
    BY <1>1, FrontProperties, LenProperties
  <2>2. QED
    BY <1>1, <2>1, FramesPopped
<1>3. NestOK(t, a)
    BY <1>1, <1>2 DEF Stacked, NestOK
<1>4. \A i \in 1..Len(t.log) : t.log[i].depth \in Nat
    BY CallLog
<1>5. \A i : /\ Cardinality(Sharing(fs, i)) \in Nat
             /\ Cardinality(Sharing(a, i)) =
                   IF Last(fs).span = i THEN Cardinality(Sharing(fs, i)) - 1
                   ELSE Cardinality(Sharing(fs, i))
    BY <1>1, SharingCounted, SharingPopped
<1>6. DepthOK(t, a)
  <2>1. ASSUME NEW i \in 1..Len(t.log) PROVE t.log[i].depth >= Cardinality(Sharing(a, i))
    <3>1. PICK x : x = Cardinality(Sharing(fs, i))
      OBVIOUS
    <3>2. /\ t.log[i].depth \in Nat /\ t.log[i].depth >= x /\ x \in Nat
          /\ Cardinality(Sharing(a, i)) = x \/ Cardinality(Sharing(a, i)) = x - 1
      BY <1>4, <1>5, <3>1 DEF Stacked, DepthOK
    <3>3. QED
      BY <3>2
  <2>2. QED
    BY <2>1 DEF DepthOK
<1>7. Exact(t, fs) /\ Last(fs).span = 0 => Exact(t, a)
  <2>1. \A i \in 1..Len(t.log) : i # 0
    BY CallLog
  <2>2. QED
    BY <1>5, <2>1 DEF Exact
<1>8. QED
    BY <1>1, <1>3, <1>6, <1>7 DEF Stacked

\* A frame without a span is pushed.
LEMMA FrameUnspanned ==
    ASSUME NEW t \in CallTracings, NEW fs \in Seq(Frames), Stacked(t, fs),
           NEW f \in Frames, f.span = 0
    PROVE  /\ Stacked(t, Append(fs, f))
           /\ Exact(t, fs) => Exact(t, Append(fs, f))
<1>1. PICK a, n : a = Append(fs, f) /\ n = Len(fs)
    OBVIOUS
<1>2. /\ n \in Nat /\ Len(a) = n + 1 /\ \A k \in 1..n : a[k] = fs[k] /\ k \in 1..Len(fs)
      /\ a[n + 1] = f /\ \A k \in 1..(n + 1) : k \in 1..n \/ k = n + 1
    BY <1>1, AppendProperties, LenProperties
<1>3. \A i : Cardinality(Sharing(a, i)) =
                IF f.span = i THEN Cardinality(Sharing(fs, i)) + 1 ELSE Cardinality(Sharing(fs, i))
    BY <1>1, SharingAppended
<1>4. \A i \in 1..Len(t.log) : i # 0
    BY CallLog
<1>5. \A i \in 1..Len(t.log) : Cardinality(Sharing(a, i)) = Cardinality(Sharing(fs, i))
    BY <1>3, <1>4
<1>6. DepthOK(t, a) /\ (Exact(t, fs) => Exact(t, a))
    BY <1>5 DEF Stacked, DepthOK, Exact
<1>7. NestOK(t, a)
  <2>1. \A k \in 1..Len(a) : a[k].span # 0 => k \in 1..Len(fs) /\ a[k] = fs[k]
    BY <1>1, <1>2
  <2>2. QED
    BY <2>1 DEF Stacked, NestOK
<1>8. QED
    BY <1>1, <1>6, <1>7 DEF Stacked

\* Frames whose spans stay.
LEMMA FramesMarked ==
    ASSUME NEW t, NEW fs, Stacked(t, fs), NEW a, Len(a) = Len(fs),
           \A k \in 1..Len(fs) : a[k].span = fs[k].span
    PROVE  /\ Stacked(t, a)
           /\ Exact(t, fs) => Exact(t, a)
<1>1. \A i : Sharing(a, i) = Sharing(fs, i)
    BY DEF Sharing
<1>2. NestOK(t, a)
    BY DEF Stacked, NestOK
<1>3. QED
    BY <1>1, <1>2 DEF Stacked, DepthOK, Exact

\* The innermost hook's epilogue: its span ends, or is open for the other frames.
LEMMA FrameEnded ==
    ASSUME NEW t \in CallTracings, NEW fs \in Seq(Frames), Stacked(t, fs), fs # <<>>,
           Last(fs).span # 0, NEW u, u = EndSpan(t, "g", Last(fs).span)
    PROVE  /\ u \in CallTracings /\ Stacked(u, Front(fs))
           /\ Exact(t, fs) => Exact(u, Front(fs))
           /\ Len(u.log) = Len(t.log)
           /\ \A i \in 1..Len(t.log) : u.log[i].parent = t.log[i].parent
<1>1. PICK a, n, s : a = Front(fs) /\ n = Len(a) /\ s = Last(fs).span
    OBVIOUS
<1>2. /\ a \in Seq(Frames) /\ n \in Nat /\ Len(fs) = n + 1 /\ Last(fs) = fs[n + 1]
      /\ \A k \in 1..n : a[k] = fs[k] /\ k \in 1..Len(fs) /\ k < n + 1
      /\ n + 1 \in 1..Len(fs)
  <2>1. n \in Nat
    BY <1>1, FrontProperties, LenProperties
  <2>2. QED
    BY <1>1, <2>1, FramesPopped
<1>3. PICK m, c : m \in Nat /\ m = Len(t.log) /\ c = t.act["g"]
    BY CallLog
<1>4. /\ c \in Contexts /\ ParentsAreOlder(t) /\ Len(t.log) \in Nat
      /\ \A i \in 1..m : t.log[i].depth \in Nat /\ t.log[i].parent \in Contexts
    BY <1>3, CallLog
<1>5. /\ s \in 1..m /\ Under(t, s, c.span)
      /\ \A k \in 1..n : fs[k].span # 0 => Under(t, fs[k].span, c.span) /\ Under(t, fs[k].span, s)
                                           /\ fs[k].span \in 1..m
    BY <1>1, <1>2, <1>3 DEF Stacked, NestOK
<1>6. s \in 1..Len(t.log) /\ c.span \in 1..m
    BY <1>3, <1>4, <1>5, UnderIsSpan
<1>7. c # NoContext
    BY <1>6 DEF NoContext
<1>8. PICK d : d = t.log[s].depth
    OBVIOUS
<1>9. /\ u \in CallTracings /\ Len(u.log) = m
      /\ \A j \in 1..m : j # s => u.log[j] = t.log[j]
      /\ SameSpan(u.log[s], t.log[s])
      /\ u.log[s].depth = IF d > 1 THEN d - 1 ELSE 0
      /\ u.act["g"] = IF d > 1 THEN c ELSE t.log[s].parent
  <2>1. "g" \in CallsContext /\ t \in Tracings(CallsContext, CallNames) /\ u = EndSpan(t, "g", s)
    BY <1>1 DEF CallsContext, CallTracings
  <2>2. /\ u \in Tracings(CallsContext, CallNames) /\ Len(u.log) = Len(t.log)
        /\ \A j \in 1..Len(t.log) : j # s => u.log[j] = t.log[j]
        /\ SameSpan(u.log[s], t.log[s])
        /\ u.log[s].depth = IF t.log[s].depth > 1 THEN t.log[s].depth - 1 ELSE 0
        /\ u.act["g"] = IF t.log[s].depth > 1 \/ t.act["g"] = NoContext THEN t.act["g"]
                        ELSE t.log[s].parent
    BY <1>6, <2>1, EndSpanEnds
  <2>3. QED
    BY <1>3, <1>7, <1>8, <2>2 DEF CallTracings
<1>10. \A i \in 1..m : u.log[i].parent = t.log[i].parent /\ u.log[i].async = t.log[i].async
    BY <1>9 DEF SameSpan
<1>11. \A i, j : Under(u, i, j) <=> Under(t, i, j)
  <2>1. Len(u.log) = Len(t.log) /\ \A i \in 1..Len(t.log) : u.log[i].parent = t.log[i].parent
    BY <1>3, <1>9, <1>10
  <2>2. QED
    BY <2>1, UnderSame
<1>12. PICK x : x = Cardinality(Sharing(fs, s))
    OBVIOUS
<1>13. /\ x \in Nat /\ d \in Nat /\ d >= x /\ Cardinality(Sharing(a, s)) = x - 1
       /\ Cardinality(Sharing(a, s)) \in Nat
    BY <1>1, <1>2, <1>3, <1>4, <1>5, <1>8, <1>12, SharingCounted, SharingPopped DEF Stacked, DepthOK
<1>14. \A i : i # s => Cardinality(Sharing(a, i)) = Cardinality(Sharing(fs, i))
    BY <1>1, SharingPopped
<1>15. DepthOK(u, a) /\ (Exact(t, fs) => Exact(u, a))
  <2>1. u.log[s].depth >= Cardinality(Sharing(a, s))
        /\ (d = x => u.log[s].depth = Cardinality(Sharing(a, s)))
    <3>1. x >= 1
      BY <1>13
    <3>2. QED
      BY <1>9, <1>13, <3>1
  <2>2. \A i \in 1..m : i # s => u.log[i].depth = t.log[i].depth
    BY <1>9
  <2>3. \A i \in 1..m : u.log[i].depth >= Cardinality(Sharing(a, i))
    BY <1>3, <1>14, <2>1, <2>2 DEF Stacked, DepthOK
  <2>4. ASSUME Exact(t, fs) PROVE \A i \in 1..m : u.log[i].depth = Cardinality(Sharing(a, i))
    <3>1. d = x
      BY <1>3, <1>5, <1>8, <1>12, <2>4 DEF Exact
    <3>2. QED
      BY <1>3, <1>14, <2>1, <2>2, <2>4, <3>1 DEF Exact
  <2>5. QED
    BY <1>9, <2>3, <2>4 DEF DepthOK, Exact
<1>16. CASE d > 1
  <2>1. u.act["g"] = c
    BY <1>9, <1>16
  <2>2. LinksOK(u)
    BY <1>3, <1>9, <1>10, <2>1 DEF Stacked, LinksOK
  <2>3. NestOK(u, a)
    <3>1. ASSUME NEW k \in 1..n, a[k].span # 0
          PROVE  /\ a[k].span \in 1..m /\ Under(u, a[k].span, c.span)
                 /\ \A j \in 1..n : k < j /\ a[j].span # 0 => Under(u, a[k].span, a[j].span)
      BY <1>2, <1>5, <1>11, <3>1 DEF Stacked, NestOK
    <3>2. QED
      BY <1>1, <1>9, <2>1, <3>1 DEF NestOK
  <2>4. OpenOK(u)
    <3>1. u.log[s].depth >= 1
      BY <1>9, <1>13, <1>16
    <3>2. ASSUME NEW i \in 1..m, Under(u, i, c.span) PROVE u.log[i].depth >= 1
      BY <1>3, <1>9, <1>11, <3>1, <3>2 DEF Stacked, OpenOK
    <3>3. QED
      BY <1>9, <2>1, <3>2 DEF OpenOK
  <2>5. QED
    BY <1>1, <1>3, <1>9, <1>10, <1>15, <2>2, <2>3, <2>4 DEF Stacked
<1>17. CASE ~(d > 1)
  <2>1. PICK p : p = t.log[s].parent
    OBVIOUS
  <2>2. u.act["g"] = p /\ p.span < s /\ p.span \in Nat /\ (p.span # 0 => ~p.snap)
    BY <1>3, <1>4, <1>5, <1>9, <1>17, <2>1 DEF Stacked, LinksOK, Contexts
  <2>3. LinksOK(u)
    <3>1. p.span <= m
      BY <1>3, <1>5, <2>2
    <3>2. QED
      <4>1. LinksOK(t)
        BY DEF Stacked
      <4>2. u.act["g"].span \in 0..Len(u.log) /\ (u.act["g"].span # 0 => ~u.act["g"].snap)
        BY <1>9, <2>2, <3>1
      <4>3. ASSUME NEW i \in 1..Len(u.log)
            PROVE  /\ u.log[i].parent.span < i
                   /\ u.log[i].parent.span # 0 => ~u.log[i].parent.snap
                   /\ u.log[i].async = "no"
        <5>1. i \in 1..m /\ i \in 1..Len(t.log)
          BY <1>3, <1>9
        <5>2. u.log[i].parent = t.log[i].parent /\ u.log[i].async = t.log[i].async
          BY <1>10, <5>1
        <5>3. QED
          BY <4>1, <5>1, <5>2 DEF LinksOK
      <4>4. u.act["g"].span <= Len(u.log)
        BY <1>3, <1>9, <4>2
      <4>5. QED
        BY <4>2, <4>3, <4>4 DEF LinksOK
  <2>4. \A k \in 1..n : a[k].span # s
    <3>1. Cardinality(Sharing(a, s)) = 0
      BY <1>13, <1>17
    <3>2. Sharing(a, s) = {}
      BY <1>2, <3>1, SharingCounted, FS_EmptySet
    <3>3. QED
      BY <1>1, <3>2 DEF Sharing
  <2>5. NestOK(u, a)
    <3>1. ASSUME NEW k \in 1..n, a[k].span # 0
          PROVE  /\ a[k].span \in 1..m /\ Under(u, a[k].span, p.span)
                 /\ \A j \in 1..n : k < j /\ a[j].span # 0 => Under(u, a[k].span, a[j].span)
      <4>1. a[k] = fs[k] /\ Under(t, fs[k].span, s) /\ fs[k].span \in 1..m /\ s # fs[k].span
        BY <1>2, <1>5, <2>4, <3>1
      <4>2. Under(t, fs[k].span, t.log[s].parent.span)
        BY <1>6, <4>1, UnderParent
      <4>3. Under(u, a[k].span, p.span)
        BY <1>11, <2>1, <4>1, <4>2
      <4>4. \A j \in 1..n : k < j /\ a[j].span # 0 => Under(u, a[k].span, a[j].span)
        BY <1>2, <1>11, <3>1 DEF Stacked, NestOK
      <4>5. QED
        BY <4>1, <4>3, <4>4
    <3>2. QED
      BY <1>1, <1>9, <2>2, <3>1 DEF NestOK
  <2>6. OpenOK(u)
    <3>1. ASSUME NEW i \in 1..m, Under(u, i, p.span) PROVE u.log[i].depth >= 1
      <4>1. i \in 1..Len(t.log) /\ Under(t, i, p.span)
        BY <1>3, <1>11, <3>1
      <4>2. i # s
        <5>1. i <= p.span
          BY <1>4, <4>1, UnderIsSpan
        <5>2. QED
          BY <1>5, <2>2, <5>1
      <4>3. Under(t, i, s)
        BY <1>6, <2>1, <4>1, UnderChild
      <4>4. Under(t, i, c.span)
        BY <1>5, <4>3 DEF Under
      <4>5. t.log[i].depth >= 1
        BY <1>3, <4>1, <4>4 DEF Stacked, OpenOK
      <4>6. QED
        BY <1>9, <4>2, <4>5
    <3>2. QED
      BY <1>9, <2>2, <3>1 DEF OpenOK
  <2>7. QED
    BY <1>1, <1>3, <1>9, <1>10, <1>15, <2>3, <2>5, <2>6 DEF Stacked
<1>18. QED
    BY <1>16, <1>17

LEMMA CallsOperators ==
    /\ Calls!Empty(Calls!G) = Empty(CallsContext)
    /\ \A t, g, kind, name : Calls!Create(t, g, kind, name) = Create(t, g, kind, name)
    /\ \A t, g, i : Calls!EndSpan(t, g, i) = EndSpan(t, g, i)
    /\ \A t, g : Calls!ActiveSpan(t, g) = t.act[g].span
    /\ \A t, i : Calls!Reported(t, i) <=> Reported(t, i)
    /\ Calls!NoSpan = NoSpan /\ Calls!OK \in Calls!Codes /\ 0 \notin Calls!Codes
    /\ \A s : s[Len(s)] = Last(s) /\ SubSeq(s, 1, Len(s) - 1) = Front(s)
BY DEF Calls!Empty, Empty, Calls!Create, Create, Calls!EndSpan, EndSpan, Calls!ActiveSpan,
   Calls!NoContext, NoContext, Calls!NoSpan, NoSpan, Calls!Reuses, Reuses, Calls!Reported,
   Reported, Calls!G, CallsContext, Calls!OK, Calls!Codes, Last, Front

\* Only servers tag a status; the hooks known not to defer End are those that do not.
LEMMA ServerHooks ==
    ASSUME NEW h \in Calls!Servers
    PROVE  /\ h.kind = "entry" /\ h.status \in {"none", "sent", "last", "first200"}
           /\ h.end # "deferred" => h \in Calls!EndsUndeferred
BY DEF Calls!Servers, Calls!Hook, Calls!EndsUndeferred, Calls!ServeMux_ServeHTTP,
   Calls!gorilla_Router_ServeHTTP, Calls!goframe_Server_ServeHTTP, Calls!gin_Context_Next,
   Calls!iris_HandleRequest, Calls!restful_swFilterInstance, Calls!fiber_App_handler,
   Calls!fasthttp_Router_Handler, Calls!swEchoMiddleware, Calls!grpc_handleStream,
   Calls!kratos_swHTTPServerMiddleware, Calls!kratos_swGRPCServerMiddleware,
   Calls!dubbo_provider_Invoke

LEMMA ClientHooks ==
    ASSUME NEW h \in Calls!Clients
    PROVE  /\ h.kind = "exit" /\ h.status = "none"
           /\ h.end # "deferred" => h \in Calls!EndsUndeferred
BY DEF Calls!Clients, Calls!Hook, Calls!EndsUndeferred, Calls!Transport_RoundTrip,
   Calls!fasthttp_HostClient_Do, Calls!elasticsearch_Perform, Calls!dubbo_consumer_Invoke,
   Calls!grpc_Invoke, Calls!kratos_swHTTPClientMiddleware, Calls!kratos_swGRPCClientMiddleware,
   Calls!kafka_WriteMessages, Calls!amqp_Publish, Calls!gorm_swCallbacks, Calls!redis_DialHook,
   Calls!redis_ProcessHook, Calls!redis_ProcessPipelineHook, Calls!micro_Call,
   Calls!micro_Stream, Calls!micro_Publish

LEMMA LocalHooks ==
    ASSUME NEW h \in Calls!Locals
    PROVE  h.kind = "local" /\ h.status = "none" /\ h.end = "deferred"
BY DEF Calls!Locals, Calls!Hook, Calls!grpc_serverStream_SendMsg, Calls!grpc_serverStream_RecvMsg

LEMMA HookFacts ==
    ASSUME NEW h \in Hooks
    PROVE  /\ h # Calls!Recovering => h.kind \in SpanKinds
           /\ h.status # "none" => h.kind = "entry"
           /\ h.status \in {"none", "sent", "last", "first200"}
           /\ h.end # "deferred" => h \in Calls!EndsUndeferred
<1>1. CASE h = Calls!Recovering
    BY <1>1 DEF Calls!Recovering, Calls!Hook
<1>2. CASE h # Calls!Recovering
    BY <1>2, ServerHooks, ClientHooks, LocalHooks DEF Hooks, SpanKinds
<1>3. QED
    BY <1>1, <1>2

\* A frame whose span is the request's own will tag a status on it.
Tagging(t, fs, k) ==
    fs[k].span # 0 /\ fs[k].hook.status # "none" /\ t.log[fs[k].span].parent = NoSpan
Tags(t, fs) == \E k \in 1..Len(fs) : Tagging(t, fs, k)
Watches(fs) == \E k \in 1..Len(fs) : fs[k].span # 0 /\ fs[k].hook.status # "none"
StatusOf(r) == IF r.sent = 0 THEN Calls!OK ELSE r.sent

\* The frame that tags last will tag what the client was sent, unless another tag is to come.
StatusOK(t, fs, r) ==
    /\ r.sent = 0 => \A k \in 1..Len(fs) : fs[k].recorded = Calls!OK
    /\ \A k \in 1..Len(fs) :
          /\ Tagging(t, fs, k) /\ fs[k].hook.status = "last"
          /\ \A j \in 1..Len(fs) : j < k => ~Tagging(t, fs, j)
          => fs[k].recorded = StatusOf(r)
    /\ r.tag \in {0, StatusOf(r)} \/ Tags(t, fs)
    /\ r.sent # 0 /\ r.inward => Watches(fs)
    /\ r.tag # 0 => ~r.inward /\ (Watches(fs) => Tags(t, fs))

Requests == [n : Nat, sent : {0} \cup Calls!Codes, tag : {0} \cup Calls!Codes,
             misled : BOOLEAN, inward : BOOLEAN]

CallsTypeOK ==
    /\ swCalls \in CallTracings /\ frames \in Seq(Frames) /\ panicking \in BOOLEAN
    /\ req \in Requests /\ skipped \in BOOLEAN
    /\ spanOf \in Seq(Nat) /\ Len(spanOf) = Len(swCalls.log)
    /\ panicking => frames # <<>> /\ req.misled

\* The spans of the frames are the request's.
OwnersInv ==
    ~skipped => /\ Exact(swCalls, frames)
                /\ \A k \in 1..Len(frames) : frames[k].span # 0 => spanOf[frames[k].span] = req.n

StatusInv == ~req.misled => ~panicking /\ StatusOK(swCalls, frames, req)

CallsInv == CallsTypeOK /\ Stacked(swCalls, frames) /\ OwnersInv /\ StatusInv

\* Under a span that is not the request's own there is only what is not either.
LEMMA UnderAChild ==
    ASSUME NEW t \in CallTracings, NEW fs, Stacked(t, fs), NEW q \in 1..Len(t.log),
           t.log[q].parent # NoSpan, NEW s, Under(t, q, s)
    PROVE  s \in 1..Len(t.log) /\ t.log[s].parent # NoSpan
<1>1. Len(t.log) \in Nat /\ ParentsAreOlder(t)
    BY CallLog
<1>2. s \in 1..Len(t.log)
    BY <1>1, UnderIsSpan
<1>3. CASE s = q
    BY <1>3
<1>4. CASE s # q
    <2>1. Under(t, q, t.log[s].parent.span)
        BY <1>2, <1>4, UnderParent
    <2>2. t.log[s].parent.span \in 1..Len(t.log)
        BY <1>1, <2>1, UnderIsSpan
    <2>3. QED
        BY <1>2, <2>2 DEF NoSpan
<1>5. QED
    BY <1>2, <1>3, <1>4

\* The status that is tagged when the frames' spans and parents stay.
LEMMA StatusKept ==
    ASSUME NEW t, NEW u, NEW fs, NEW r, StatusOK(t, fs, r),
           \A k \in 1..Len(fs) : fs[k].span # 0 => u.log[fs[k].span].parent = t.log[fs[k].span].parent
    PROVE  StatusOK(u, fs, r)
<1>1. \A k \in 1..Len(fs) : Tagging(u, fs, k) <=> Tagging(t, fs, k)
    BY DEF Tagging
<1>2. QED
    BY <1>1 DEF StatusOK, Tags

\* A frame is pushed: the next layer is on the way in.
LEMMA StatusPushed ==
    ASSUME NEW t \in CallTracings, NEW fs \in Seq(Frames), Stacked(t, fs), NEW r \in Requests,
           StatusOK(t, fs, r), NEW f \in Frames, f.recorded = Calls!OK,
           f.span # 0 /\ f.hook.status # "none" => r.inward,
           NEW u, \A i \in 1..Len(t.log) : u.log[i].parent = t.log[i].parent,
           /\ t.act["g"].span \in 1..Len(t.log)
           /\ t.log[t.act["g"].span].parent # NoSpan
           => (f.span # 0 => u.log[f.span].parent # NoSpan)
    PROVE  StatusOK(u, Append(fs, f), r)
<1>1. PICK a, n : a = Append(fs, f) /\ n = Len(fs)
    OBVIOUS
<1>2. /\ n \in Nat /\ Len(a) = n + 1 /\ \A k \in 1..n : a[k] = fs[k]
      /\ a[n + 1] = f /\ \A k \in 1..(n + 1) : k \in 1..n \/ k = n + 1
    BY <1>1, AppendProperties, LenProperties
<1>3. 1..n \subseteq 1..(n + 1) /\ n + 1 \in 1..(n + 1) /\ (\A j \in 1..n : j < n + 1)
    BY <1>2
<1>4. \A k \in 1..n : Tagging(u, a, k) <=> Tagging(t, fs, k)
    <2>1. \A k \in 1..n : fs[k].span # 0 => fs[k].span \in 1..Len(t.log)
        BY <1>1 DEF Stacked, NestOK
    <2>2. QED
        BY <1>2, <2>1 DEF Tagging
<1>5. Tags(t, fs) => Tags(u, a)
    BY <1>1, <1>2, <1>3, <1>4 DEF Tags
<1>6. Watches(fs) => Watches(a)
    BY <1>1, <1>2, <1>3 DEF Watches
<1>7. Watches(a) => Watches(fs) \/ (f.span # 0 /\ f.hook.status # "none")
    BY <1>1, <1>2 DEF Watches
<1>8. r.sent = 0 => \A k \in 1..(n + 1) : a[k].recorded = Calls!OK
    BY <1>1, <1>2 DEF StatusOK
\* The new frame tags alone: then no frame was watching.
<1>9. ASSUME Tagging(u, a, n + 1), \A j \in 1..n : ~Tagging(t, fs, j) PROVE r.sent = 0
    <2>1. f.span # 0 /\ f.hook.status # "none" /\ u.log[f.span].parent = NoSpan
        BY <1>2, <1>9 DEF Tagging
    <2>2. SUFFICES ASSUME Watches(fs) PROVE FALSE
        BY <2>1 DEF StatusOK
    <2>3. PICK k \in 1..n : fs[k].span # 0 /\ fs[k].hook.status # "none"
        BY <1>1, <2>2 DEF Watches
    <2>4. t.log[fs[k].span].parent # NoSpan
        BY <1>9, <2>3 DEF Tagging
    <2>5. fs[k].span \in 1..Len(t.log) /\ Under(t, fs[k].span, t.act["g"].span)
        BY <1>1, <2>3 DEF Stacked, NestOK
    <2>6. t.act["g"].span \in 1..Len(t.log) /\ t.log[t.act["g"].span].parent # NoSpan
        BY <2>4, <2>5, UnderAChild
    <2>7. QED
        BY <2>1, <2>6
<1>10. ASSUME NEW k \in 1..(n + 1), Tagging(u, a, k), a[k].hook.status = "last",
              \A j \in 1..(n + 1) : j < k => ~Tagging(u, a, j)
       PROVE  a[k].recorded = StatusOf(r)
    <2>1. CASE k \in 1..n
        <3>1. \A j \in 1..n : j < k => ~Tagging(t, fs, j)
            BY <1>3, <1>4, <1>10
        <3>2. Tagging(t, fs, k) /\ fs[k].hook.status = "last"
            BY <1>2, <1>4, <1>10, <2>1
        <3>3. QED
            BY <1>1, <1>2, <2>1, <3>1, <3>2 DEF StatusOK
    <2>2. CASE k = n + 1
        <3>1. \A j \in 1..n : ~Tagging(t, fs, j)
            BY <1>3, <1>4, <1>10, <2>2
        <3>2. r.sent = 0
            BY <1>9, <1>10, <2>2, <3>1
        <3>3. QED
            BY <1>2, <2>2, <3>2 DEF StatusOf
    <2>3. QED
        BY <1>2, <2>1, <2>2
<1>11. r.tag \in {0, StatusOf(r)} \/ Tags(u, a)
    BY <1>5 DEF StatusOK
<1>12. r.sent # 0 /\ r.inward => Watches(a)
    BY <1>6 DEF StatusOK
<1>13. r.tag # 0 => ~r.inward /\ (Watches(a) => Tags(u, a))
    BY <1>5, <1>7 DEF StatusOK
<1>14. QED
    BY <1>1, <1>2, <1>8, <1>10, <1>11, <1>12, <1>13 DEF StatusOK

\* The innermost frame tags its span and goes.
LEMMA StatusPopped ==
    ASSUME NEW t \in CallTracings, NEW fs \in Seq(Frames), Stacked(t, fs), NEW r \in Requests,
           StatusOK(t, fs, r), fs # <<>>, NEW f, f = Last(fs), f.hook.status # "first200",
           NEW u, \A i \in 1..Len(t.log) : u.log[i].parent = t.log[i].parent,
           NEW s \in Requests, s.sent = r.sent,
           s.inward <=> r.inward /\ f.hook.kind # "entry",
           s.tag = IF ~Tagging(t, fs, Len(fs)) THEN r.tag
                   ELSE IF f.hook.status = "sent" THEN StatusOf(r) ELSE f.recorded,
           f.hook.status \in {"none", "sent", "last", "first200"}
    PROVE  StatusOK(u, Front(fs), s)
<1>1. PICK a, n : a = Front(fs) /\ n = Len(a)
    OBVIOUS
<1>2. /\ a \in Seq(Frames) /\ n \in Nat /\ Len(fs) = n + 1 /\ f = fs[n + 1] /\ f \in Frames
      /\ \A k \in 1..n : a[k] = fs[k] /\ k \in 1..Len(fs) /\ k < n + 1
      /\ n + 1 \in 1..Len(fs)
    <2>1. n \in Nat
        BY <1>1, FrontProperties, LenProperties
    <2>2. QED
        BY <1>1, <2>1, FramesPopped
<1>3. \A k \in 1..(n + 1) : k \in 1..n \/ k = n + 1
    BY <1>2
<1>4. \A k \in 1..(n + 1) : fs[k].span # 0 => fs[k].span \in 1..Len(t.log)
    BY <1>2 DEF Stacked, NestOK
<1>5. ASSUME NEW k \in 1..n PROVE Tagging(u, a, k) <=> Tagging(t, fs, k)
    <2>1. a[k] = fs[k] /\ k \in 1..(n + 1)
        BY <1>2
    <2>2. fs[k].span # 0 => u.log[fs[k].span].parent = t.log[fs[k].span].parent
        BY <1>4, <2>1
    <2>3. QED
        BY <2>1, <2>2 DEF Tagging
<1>6. fs[n + 1].hook \in Hooks
    BY <1>2 DEF Frames
<1>7. f.hook.status # "none" => f.hook.kind = "entry"
    BY <1>2, <1>6, HookFacts
<1>8. StatusOf(s) = StatusOf(r)
    BY DEF StatusOf
<1>9. Tags(t, fs) /\ ~Tagging(t, fs, n + 1) => Tags(u, a)
    BY <1>1, <1>2, <1>3, <1>5 DEF Tags
<1>10. s.sent = 0 => \A k \in 1..n : a[k].recorded = Calls!OK
    BY <1>2 DEF StatusOK
<1>11. ASSUME NEW k \in 1..n, Tagging(u, a, k), a[k].hook.status = "last",
              \A j \in 1..n : j < k => ~Tagging(u, a, j)
       PROVE  a[k].recorded = StatusOf(s)
    <2>1. k \in 1..Len(fs) /\ a[k] = fs[k] /\ Tagging(t, fs, k)
        BY <1>2, <1>5, <1>11
    <2>2. \A j \in 1..Len(fs) : j < k => j \in 1..n
        BY <1>2
    <2>3. \A j \in 1..Len(fs) : j < k => ~Tagging(t, fs, j)
        BY <1>5, <1>11, <2>2
    <2>4. QED
        BY <1>8, <1>11, <2>1, <2>3 DEF StatusOK
<1>12. s.tag \in {0, StatusOf(s)} \/ Tags(u, a)
    <2>1. CASE ~Tagging(t, fs, n + 1)
        BY <1>2, <1>8, <1>9, <2>1 DEF StatusOK
    <2>2. CASE Tagging(t, fs, n + 1)
        <3>1. CASE \E j \in 1..n : Tagging(t, fs, j)
            BY <1>1, <1>5, <3>1 DEF Tags
        <3>2. CASE ~\E j \in 1..n : Tagging(t, fs, j)
            <4>1. \A j \in 1..Len(fs) : j < n + 1 => j \in 1..n
                BY <1>2
            <4>2. \A j \in 1..Len(fs) : j < n + 1 => ~Tagging(t, fs, j)
                BY <3>2, <4>1
            <4>3. f.hook.status = "last" => f.recorded = StatusOf(r)
                BY <1>2, <2>2, <4>2 DEF StatusOK
            <4>4. f.hook.status = "sent" \/ f.hook.status = "last"
                BY <1>2, <2>2 DEF Tagging
            <4>5. QED
                BY <1>2, <1>8, <2>2, <4>3, <4>4
        <3>3. QED
            BY <3>1, <3>2
    <2>3. QED
        BY <2>1, <2>2
<1>13. s.sent # 0 /\ s.inward => Watches(a)
    <2>1. SUFFICES ASSUME s.sent # 0, s.inward PROVE Watches(a)
        OBVIOUS
    <2>2. PICK k \in 1..(n + 1) : fs[k].span # 0 /\ fs[k].hook.status # "none"
        BY <1>2, <2>1 DEF StatusOK, Watches
    <2>3. k \in 1..n
        BY <1>2, <1>3, <1>7, <2>1, <2>2
    <2>4. QED
        BY <1>1, <1>2, <2>2, <2>3 DEF Watches
<1>14. s.tag # 0 => ~s.inward
    <2>1. CASE ~Tagging(t, fs, n + 1)
        BY <1>2, <2>1 DEF StatusOK
    <2>2. CASE Tagging(t, fs, n + 1)
        BY <1>2, <1>7, <2>2 DEF Tagging
    <2>3. QED
        BY <2>1, <2>2
<1>15. s.tag # 0 /\ Watches(a) => Tags(u, a)
    <2>1. SUFFICES ASSUME s.tag # 0, Watches(a) PROVE Tags(u, a)
        OBVIOUS
    <2>2. PICK k \in 1..n : fs[k].span # 0 /\ fs[k].hook.status # "none"
        BY <1>1, <1>2, <2>1 DEF Watches
    <2>3. CASE Tagging(t, fs, k)
        BY <1>1, <1>5, <2>3 DEF Tags
    \* A frame over one that is not at the root is not at the root.
    <2>4. CASE ~Tagging(t, fs, k)
        <3>1. k \in 1..Len(fs) /\ k < n + 1
            BY <1>2
        <3>2. fs[k].span \in 1..Len(t.log) /\ t.log[fs[k].span].parent # NoSpan
            BY <1>4, <2>2, <2>4, <3>1, <1>2 DEF Tagging
        <3>3. ASSUME Tagging(t, fs, n + 1) PROVE FALSE
            <4>1. fs[n + 1].span # 0 /\ t.log[fs[n + 1].span].parent = NoSpan
                BY <3>3 DEF Tagging
            <4>2. Under(t, fs[k].span, fs[n + 1].span)
                BY <1>2, <2>2, <3>1, <4>1 DEF Stacked, NestOK
            <4>3. QED
                BY <3>2, <4>1, <4>2, UnderAChild
        <3>4. Watches(fs)
            BY <2>2, <3>1 DEF Watches
        <3>5. r.tag # 0
            BY <1>2, <2>1, <3>3
        <3>6. QED
            BY <1>9, <3>3, <3>4, <3>5 DEF StatusOK
    <2>5. QED
        BY <2>3, <2>4
<1>16. QED
    BY <1>1, <1>10, <1>11, <1>12, <1>13, <1>14, <1>15 DEF StatusOK

LEMMA CallsInitInv == Calls!Init => CallsInv
<1> SUFFICES ASSUME Calls!Init PROVE CallsInv
    OBVIOUS
<1>1. /\ swCalls = Empty(CallsContext) /\ frames = <<>> /\ panicking = FALSE /\ spanOf = <<>>
      /\ req = [n |-> 0, sent |-> 0, tag |-> 0, misled |-> FALSE, inward |-> TRUE]
      /\ skipped = FALSE
    BY CallsOperators DEF Calls!Init
<1>2. /\ swCalls \in CallTracings /\ swCalls.log = <<>> /\ swCalls.act["g"] = NoContext
    BY <1>1, EmptyTyped DEF CallTracings, CallsContext
<1>3. Len(swCalls.log) = 0 /\ Len(frames) = 0 /\ Len(spanOf) = 0 /\ 1..0 = {}
    BY <1>1, <1>2
<1>4. req \in Requests /\ req.sent = 0 /\ req.tag = 0
    BY <1>1 DEF Requests
<1>5. CallsTypeOK
    <2>1. <<>> \in Seq(Frames) /\ <<>> \in Seq(Nat)
        OBVIOUS
    <2>2. panicking \in BOOLEAN /\ skipped \in BOOLEAN /\ ~panicking
        BY <1>1
    <2>3. frames \in Seq(Frames) /\ spanOf \in Seq(Nat) /\ Len(spanOf) = Len(swCalls.log)
        BY <1>1, <1>3, <2>1
    <2>4. QED
        BY <1>2, <1>4, <2>2, <2>3 DEF CallsTypeOK
<1>6. Stacked(swCalls, frames)
    <2>1. LinksOK(swCalls)
        BY <1>2, <1>3 DEF LinksOK, NoContext
    <2>2. QED
        BY <1>3, <2>1 DEF Stacked, NestOK, OpenOK, DepthOK
<1>7. OwnersInv /\ StatusInv
    BY <1>1, <1>3, <1>4 DEF OwnersInv, Exact, StatusInv, StatusOK
<1>8. QED
    BY <1>5, <1>6, <1>7 DEF CallsInv

\* What the actions read.
LEMMA CallsTypes ==
    ASSUME CallsInv
    PROVE  /\ swCalls \in CallTracings /\ frames \in Seq(Frames) /\ req \in Requests
           /\ spanOf \in Seq(Nat) /\ Len(spanOf) = Len(swCalls.log) /\ Len(swCalls.log) \in Nat
           /\ Stacked(swCalls, frames)
           /\ req.n \in Nat /\ req.sent \in {0} \cup Calls!Codes
           /\ req.tag \in {0} \cup Calls!Codes /\ req.misled \in BOOLEAN /\ req.inward \in BOOLEAN
           /\ StatusOf(req) \in Calls!Codes
           /\ \A k \in 1..Len(frames) : frames[k].span \in 0..Len(swCalls.log)
           /\ \A k \in 1..Len(frames) : frames[k] \in Frames
<1>1. /\ swCalls \in CallTracings /\ frames \in Seq(Frames) /\ req \in Requests
      /\ spanOf \in Seq(Nat) /\ Len(spanOf) = Len(swCalls.log) /\ Stacked(swCalls, frames)
    BY DEF CallsInv, CallsTypeOK
<1>2. Len(swCalls.log) \in Nat
    BY <1>1, CallLog
<1>3. \A k \in 1..Len(frames) : frames[k].span \in 0..Len(swCalls.log)
    BY <1>1, <1>2 DEF Stacked, NestOK
<1>4. \A k \in 1..Len(frames) : frames[k] \in Frames
    BY <1>1
<1>5. /\ req.n \in Nat /\ req.sent \in {0} \cup Calls!Codes
      /\ req.tag \in {0} \cup Calls!Codes /\ req.misled \in BOOLEAN /\ req.inward \in BOOLEAN
    BY <1>1 DEF Requests
<1>6. StatusOf(req) \in Calls!Codes
    BY <1>5, CallsOperators DEF StatusOf
<1>7. QED
    BY <1>1, <1>2, <1>3, <1>4, <1>5, <1>6

\* Whichever span is handed out is the context.
LEMMA ContextMade ==
    ASSUME NEW t \in CallTracings, NEW fs, Stacked(t, fs), NEW kind \in SpanKinds,
           NEW name \in CallNames, NEW u, u = Create(t, "g", kind, name)
    PROVE  u.act["g"].span \in Nat
<1>1. "g" \in CallsContext /\ t \in Tracings(CallsContext, CallNames)
    BY DEF CallsContext, CallTracings
<1>2. u \in Tracings(CallsContext, CallNames)
    <2>1. CASE Reuses(t, "g", kind)
        <3>1. t.act["g"].span \in 1..Len(t.log)
            BY <2>1, CallLog DEF Reuses
        <3>2. QED
            BY <1>1, <2>1, <3>1, CreateShares
    <2>2. CASE ~Reuses(t, "g", kind)
        BY <1>1, <2>2, CreateMakes
    <2>3. QED
        BY <2>1, <2>2
<1>3. QED
    BY <1>1, <1>2, TracingTypes DEF Contexts

\* A hook makes its span, or shares the one that is active.
LEMMA SpannedPushes ==
    ASSUME CallsInv, NEW h \in Hooks, h.kind \in SpanKinds, NEW n \in Nat, Calls!Spanned(h, n)
    PROVE  \E f \in Frames :
              /\ frames' = Append(frames, f) /\ f.hook = h /\ f.recorded = Calls!OK
              /\ swCalls' \in CallTracings /\ Stacked(swCalls', frames')
              /\ Exact(swCalls, frames) => Exact(swCalls', frames')
              /\ \A i \in 1..Len(swCalls.log) : swCalls'.log[i].parent = swCalls.log[i].parent
              /\ spanOf' \in Seq(Nat) /\ Len(spanOf') = Len(swCalls'.log)
              /\ \A i \in 1..Len(swCalls.log) : spanOf'[i] = spanOf[i]
              /\ \/ f.span \in 1..Len(swCalls.log) /\ f.span = swCalls.act["g"].span
                 \/ /\ f.span = Len(swCalls.log) + 1 /\ spanOf'[f.span] = n
                    /\ swCalls'.log[f.span].parent =
                          IF swCalls.act["g"] = NoContext THEN NoSpan ELSE swCalls.act["g"]
<1>1. PICK t, u : t = swCalls /\ u = swCalls'
    OBVIOUS
<1>2. t \in CallTracings /\ frames \in Seq(Frames) /\ Stacked(t, frames) /\ Len(t.log) \in Nat
    BY <1>1, CallsTypes
<1>3. PICK s : s = u.act["g"].span
    OBVIOUS
<1>4. u = Create(t, "g", h.kind, "call") /\ "call" \in CallNames
    BY <1>1, CallsOperators DEF Calls!Spanned, CallNames
<1>5. PICK f : f = [hook |-> h, span |-> s, recorded |-> Calls!OK]
    OBVIOUS
<1>6. frames' = Append(frames, f)
    BY <1>1, <1>3, <1>5, CallsOperators DEF Calls!Spanned, Calls!Push
<1>7. s \in Nat
    BY <1>2, <1>3, <1>4, ContextMade
<1>8. f \in Frames /\ f.span = s /\ f.hook = h /\ f.recorded = Calls!OK
    BY <1>5, <1>7, CallsOperators DEF Frames
<1>9. /\ u \in CallTracings /\ Stacked(u, Append(frames, f))
      /\ Exact(t, frames) => Exact(u, Append(frames, f))
      /\ \A i \in 1..Len(t.log) : u.log[i].parent = t.log[i].parent
      /\ \/ Len(u.log) = Len(t.log) /\ u.act = t.act /\ f.span = t.act["g"].span
         \/ /\ Len(u.log) = Len(t.log) + 1 /\ f.span = Len(u.log)
            /\ u.log[f.span].parent = IF t.act["g"] = NoContext THEN NoSpan ELSE t.act["g"]
      /\ f.span \in 1..Len(u.log)
  <2>1. Makes(t, h.kind, "call", u) /\ "call" \in CallNames /\ f \in Frames /\ f.span = u.act["g"].span
    BY <1>3, <1>4, <1>8 DEF Makes
  <2>2. t \in CallTracings /\ frames \in Seq(Frames) /\ Stacked(t, frames)
    BY <1>2
  <2>3. QED
    BY <2>1, <2>2, FramePushed, Zenon
<1>10. spanOf \in Seq(Nat) /\ Len(spanOf) = Len(t.log)
    BY <1>1, CallsTypes
<1>11. spanOf' = IF Len(u.log) > Len(t.log) THEN Append(spanOf, n) ELSE spanOf
    BY <1>1 DEF Calls!Spanned
<1>12. CASE Len(u.log) = Len(t.log) /\ u.act = t.act /\ f.span = t.act["g"].span
    <2>1. spanOf' = spanOf
        BY <1>2, <1>11, <1>12
    <2>2. QED
        BY <1>1, <1>6, <1>8, <1>9, <1>10, <1>12, <2>1
<1>13. CASE /\ Len(u.log) = Len(t.log) + 1 /\ f.span = Len(u.log)
            /\ u.log[f.span].parent = IF t.act["g"] = NoContext THEN NoSpan ELSE t.act["g"]
    <2>1. spanOf' = Append(spanOf, n)
        BY <1>2, <1>11, <1>13
    <2>2. /\ spanOf' \in Seq(Nat) /\ Len(spanOf') = Len(t.log) + 1
          /\ \A i \in 1..Len(t.log) : spanOf'[i] = spanOf[i]
          /\ spanOf'[Len(t.log) + 1] = n
        BY <1>10, <2>1, AppendProperties
    <2>3. QED
        BY <1>1, <1>6, <1>8, <1>9, <1>13, <2>2
<1>14. QED
    BY <1>9, <1>12, <1>13

LEMMA ArriveKeeps ==
    ASSUME CallsInv, NEW h \in Calls!Servers \cup {Calls!Recovering}, Calls!Arrive(h)
    PROVE  CallsInv'
<1>1. /\ frames = <<>> /\ ~panicking /\ UNCHANGED <<panicking, skipped>> /\ Len(frames) = 0
      /\ req' = [n |-> req.n + 1, sent |-> 0, tag |-> 0, misled |-> FALSE, inward |-> TRUE]
    BY DEF Calls!Arrive
<1>2. /\ req' \in Requests /\ req'.n = req.n + 1 /\ req'.n \in Nat /\ ~req'.misled
      /\ req'.sent = 0 /\ req'.tag = 0
    BY <1>1, CallsTypes DEF Requests
<1>3. h \in Hooks
    BY DEF Hooks
<1>4. ASSUME frames' \in Seq(Frames), Len(frames') = 1, frames'[1].recorded = Calls!OK
      PROVE  StatusInv'
    <2>1. \A k \in 1..Len(frames') : k = 1
        BY <1>4
    <2>2. \A k \in 1..Len(frames') : frames'[k].recorded = Calls!OK
        BY <1>4, <2>1
    <2>3. StatusOf(req') = Calls!OK
        BY <1>2 DEF StatusOf
    <2>4. StatusOK(swCalls', frames', req')
        BY <1>2, <2>2, <2>3 DEF StatusOK
    <2>5. QED
        BY <1>1, <2>4 DEF StatusInv
<1>5. CASE h # Calls!Recovering /\ Calls!Spanned(h, req.n + 1)
    <2>1. h.kind \in SpanKinds
        BY <1>3, <1>5, HookFacts
    <2>2. PICK f \in Frames :
              /\ frames' = Append(frames, f) /\ f.hook = h /\ f.recorded = Calls!OK
              /\ swCalls' \in CallTracings /\ Stacked(swCalls', frames')
              /\ Exact(swCalls, frames) => Exact(swCalls', frames')
              /\ spanOf' \in Seq(Nat) /\ Len(spanOf') = Len(swCalls'.log)
              /\ \/ f.span \in 1..Len(swCalls.log) /\ f.span = swCalls.act["g"].span
                 \/ f.span = Len(swCalls.log) + 1 /\ spanOf'[f.span] = req.n + 1
        BY <1>2, <1>3, <1>5, <2>1, SpannedPushes
    <2>3. frames' \in Seq(Frames) /\ Len(frames') = 1 /\ frames'[1] = f
        BY <1>1, <2>2, AppendProperties
    <2>4. CallsTypeOK'
        BY <1>1, <1>2, <2>2, <2>3 DEF CallsTypeOK, CallsInv
    \* All requests before this one left no span behind, unless an End was skipped.
    <2>5. ASSUME ~skipped, f.span \in 1..Len(swCalls.log), f.span = swCalls.act["g"].span
          PROVE  FALSE
        <3>1. swCalls.log[f.span].depth >= 1
            BY <2>5, CallsTypes, UnderItself DEF Stacked, OpenOK
        <3>2. swCalls.log[f.span].depth = Cardinality(Sharing(frames, f.span))
            BY <2>5 DEF CallsInv, OwnersInv, Exact
        <3>3. Sharing(frames, f.span) = {}
            BY <1>1 DEF Sharing
        <3>4. Cardinality({}) = 0
            BY FS_EmptySet
        <3>5. QED
            BY <3>1, <3>2, <3>3, <3>4
    <2>6. OwnersInv'
        <3>1. SUFFICES ASSUME ~skipped
                       PROVE  /\ Exact(swCalls', frames')
                              /\ \A k \in 1..Len(frames') : spanOf'[frames'[k].span] = req'.n
            BY <1>1 DEF OwnersInv
        <3>2. Exact(swCalls', frames')
            BY <2>2, <3>1 DEF CallsInv, OwnersInv
        <3>3. spanOf'[f.span] = req'.n
            BY <1>2, <2>2, <2>5, <3>1
        <3>4. \A k \in 1..Len(frames') : k = 1
            BY <2>3
        <3>5. QED
            BY <2>3, <3>2, <3>3, <3>4
    <2>7. QED
        BY <1>4, <2>2, <2>3, <2>4, <2>6 DEF CallsInv
<1>6. CASE h = Calls!Recovering /\ Calls!Push(h, 0) /\ UNCHANGED <<swCalls, spanOf>>
    <2>1. PICK f : f = [hook |-> h, span |-> 0, recorded |-> Calls!OK]
        OBVIOUS
    <2>2. f \in Frames /\ f.span = 0 /\ f.recorded = Calls!OK
        BY <1>3, <2>1, CallsOperators DEF Frames
    <2>3. frames' = Append(frames, f)
        BY <1>6, <2>1 DEF Calls!Push
    <2>4. frames' \in Seq(Frames) /\ Len(frames') = 1 /\ frames'[1] = f
        BY <1>1, <2>2, <2>3, CallsTypes, AppendProperties
    <2>5. /\ Stacked(swCalls, frames') /\ (Exact(swCalls, frames) => Exact(swCalls, frames'))
        BY <2>2, <2>3, CallsTypes, FrameUnspanned
    <2>6. CallsTypeOK'
        BY <1>1, <1>2, <1>6, <2>4 DEF CallsTypeOK, CallsInv
    <2>7. Stacked(swCalls', frames')
        BY <1>6, <2>5
    <2>8. OwnersInv'
        <3>1. \A k \in 1..Len(frames') : k = 1
            BY <2>4
        <3>2. \A k \in 1..Len(frames') : frames'[k].span = 0
            BY <2>2, <2>4, <3>1
        <3>3. ~skipped => Exact(swCalls', frames')
            BY <1>6, <2>5 DEF CallsInv, OwnersInv
        <3>4. QED
            BY <1>1, <3>2, <3>3 DEF OwnersInv
    <2>9. QED
        BY <1>4, <2>2, <2>4, <2>6, <2>7, <2>8 DEF CallsInv
<1>7. QED
    BY <1>5, <1>6 DEF Calls!Arrive

LEMMA EnterKeeps ==
    ASSUME CallsInv, NEW h \in Calls!Servers \cup Calls!Clients \cup Calls!Locals,
           Calls!Enter(h)
    PROVE  CallsInv'
<1>1. /\ frames # <<>> /\ ~panicking /\ UNCHANGED <<panicking, req, skipped>>
      /\ h.kind = "entry" => req.inward
      /\ Calls!Spanned(h, req.n)
    BY DEF Calls!Enter
<1>2. h \in Hooks /\ h.kind \in SpanKinds
    BY ServerHooks, ClientHooks, LocalHooks DEF Hooks, SpanKinds
<1>3. /\ swCalls \in CallTracings /\ frames \in Seq(Frames) /\ req \in Requests /\ req.n \in Nat
      /\ Stacked(swCalls, frames) /\ Len(swCalls.log) \in Nat
    BY CallsTypes
<1>4. PICK f \in Frames :
          /\ frames' = Append(frames, f) /\ f.hook = h /\ f.recorded = Calls!OK
          /\ swCalls' \in CallTracings /\ Stacked(swCalls', frames')
          /\ Exact(swCalls, frames) => Exact(swCalls', frames')
          /\ \A i \in 1..Len(swCalls.log) : swCalls'.log[i].parent = swCalls.log[i].parent
          /\ spanOf' \in Seq(Nat) /\ Len(spanOf') = Len(swCalls'.log)
          /\ \A i \in 1..Len(swCalls.log) : spanOf'[i] = spanOf[i]
          /\ \/ f.span \in 1..Len(swCalls.log) /\ f.span = swCalls.act["g"].span
             \/ /\ f.span = Len(swCalls.log) + 1 /\ spanOf'[f.span] = req.n
                /\ swCalls'.log[f.span].parent =
                      IF swCalls.act["g"] = NoContext THEN NoSpan ELSE swCalls.act["g"]
    BY <1>1, <1>2, <1>3, SpannedPushes
<1>5. PICK n \in Nat : n = Len(frames)
    BY <1>3, LenProperties
<1>6. /\ frames' \in Seq(Frames) /\ Len(frames') = n + 1 /\ frames'[n + 1] = f
      /\ \A k \in 1..n : frames'[k] = frames[k]
      /\ \A k \in 1..(n + 1) : k \in 1..n \/ k = n + 1
    BY <1>3, <1>4, <1>5, AppendProperties
<1>7. CallsTypeOK'
    BY <1>1, <1>3, <1>4, <1>6 DEF CallsTypeOK, CallsInv
<1>8. OwnersInv'
    <2>1. SUFFICES ASSUME ~skipped
                   PROVE  /\ Exact(swCalls', frames')
                          /\ \A k \in 1..(n + 1) : frames'[k].span # 0 => spanOf'[frames'[k].span] = req.n
        BY <1>1, <1>6 DEF OwnersInv
    <2>2. Exact(swCalls, frames) /\ \A k \in 1..n : frames[k].span # 0 => spanOf[frames[k].span] = req.n
        BY <1>5, <2>1 DEF CallsInv, OwnersInv
    <2>3. \A k \in 1..n : frames[k].span # 0 => frames[k].span \in 1..Len(swCalls.log)
        BY <1>5, CallsTypes
    <2>4. \A k \in 1..n : frames[k].span # 0 => spanOf'[frames[k].span] = req.n
        BY <1>4, <2>2, <2>3
    \* The span that is shared is open, so a frame of this request has it.
    <2>5. spanOf'[f.span] = req.n
        <3>1. CASE f.span \in 1..Len(swCalls.log) /\ f.span = swCalls.act["g"].span
            <4>1. swCalls.log[f.span].depth >= 1
                BY <1>3, <3>1, UnderItself DEF Stacked, OpenOK
            <4>2. Cardinality(Sharing(frames, f.span)) >= 1
                BY <2>2, <3>1, <4>1 DEF Exact
            <4>3. Sharing(frames, f.span) # {}
                <5>1. Cardinality({}) = 0
                    BY FS_EmptySet
                <5>2. QED
                    BY <4>2, <5>1
            <4>4. PICK k \in 1..n : frames[k].span = f.span
                BY <1>5, <4>3 DEF Sharing
            <4>5. QED
                BY <1>3, <2>4, <3>1, <4>4
        <3>2. QED
            BY <1>4, <3>1
    <2>6. \A k \in 1..(n + 1) : frames'[k].span # 0 => spanOf'[frames'[k].span] = req.n
        BY <1>6, <2>4, <2>5
    <2>7. QED
        BY <1>4, <2>2, <2>6
<1>9. StatusInv'
    <2>1. SUFFICES ASSUME ~req.misled PROVE StatusOK(swCalls', frames', req)
        BY <1>1 DEF StatusInv
    <2>2. StatusOK(swCalls, frames, req)
        BY <2>1 DEF CallsInv, StatusInv
    <2>3. f.span # 0 /\ f.hook.status # "none" => req.inward
        BY <1>1, <1>2, <1>4, HookFacts
    <2>4. ASSUME swCalls.act["g"].span \in 1..Len(swCalls.log),
                 swCalls.log[swCalls.act["g"].span].parent # NoSpan
          PROVE  swCalls'.log[f.span].parent # NoSpan
        <3>1. CASE f.span \in 1..Len(swCalls.log) /\ f.span = swCalls.act["g"].span
            BY <1>4, <2>4, <3>1
        <3>2. CASE swCalls'.log[f.span].parent =
                      IF swCalls.act["g"] = NoContext THEN NoSpan ELSE swCalls.act["g"]
            <4>1. swCalls.act["g"].span # 0
                BY <1>3, <2>4
            <4>2. QED
                BY <3>2, <4>1 DEF NoContext, NoSpan
        <3>3. QED
            BY <1>4, <3>1, <3>2
    <2>5. QED
        BY <1>3, <1>4, <2>2, <2>3, <2>4, StatusPushed
<1>10. QED
    BY <1>4, <1>7, <1>8, <1>9 DEF CallsInv

LEMMA EnterUnspannedKeeps ==
    ASSUME CallsInv, NEW h \in Calls!Servers \cup Calls!Clients \cup Calls!Locals,
           Calls!EnterUnspanned(h)
    PROVE  CallsInv'
<1>1. /\ frames # <<>> /\ ~panicking /\ Calls!Push(h, 0)
      /\ UNCHANGED <<swCalls, panicking, req, spanOf, skipped>>
    BY DEF Calls!EnterUnspanned
<1>2. /\ swCalls \in CallTracings /\ frames \in Seq(Frames) /\ req \in Requests
      /\ Stacked(swCalls, frames)
    BY CallsTypes
<1>3. PICK f : f = [hook |-> h, span |-> 0, recorded |-> Calls!OK]
    OBVIOUS
<1>4. f \in Frames /\ f.span = 0 /\ f.recorded = Calls!OK
    BY <1>3, CallsOperators DEF Frames, Hooks
<1>5. frames' = Append(frames, f)
    BY <1>1, <1>3 DEF Calls!Push
<1>6. PICK n \in Nat : n = Len(frames)
    BY <1>2, LenProperties
<1>7. /\ frames' \in Seq(Frames) /\ Len(frames') = n + 1 /\ frames'[n + 1] = f
      /\ \A k \in 1..n : frames'[k] = frames[k]
      /\ \A k \in 1..(n + 1) : k \in 1..n \/ k = n + 1
    BY <1>2, <1>4, <1>5, <1>6, AppendProperties
<1>8. /\ Stacked(swCalls, frames') /\ (Exact(swCalls, frames) => Exact(swCalls, frames'))
    BY <1>2, <1>4, <1>5, FrameUnspanned
<1>9. CallsTypeOK'
    BY <1>1, <1>2, <1>7 DEF CallsTypeOK, CallsInv
<1>10. OwnersInv'
    <2>1. \A k \in 1..(n + 1) : frames'[k].span # 0 => k \in 1..n /\ frames'[k] = frames[k]
        BY <1>4, <1>7
    <2>2. QED
        BY <1>1, <1>6, <1>7, <1>8, <2>1 DEF CallsInv, OwnersInv
<1>11. StatusInv'
    <2>1. SUFFICES ASSUME ~req.misled PROVE StatusOK(swCalls, frames', req)
        BY <1>1 DEF StatusInv
    <2>2. StatusOK(swCalls, frames, req)
        BY <2>1 DEF CallsInv, StatusInv
    <2>3. QED
        BY <1>2, <1>4, <1>5, <2>2, StatusPushed
<1>12. Stacked(swCalls', frames')
    BY <1>1, <1>8
<1>13. QED
    BY <1>9, <1>10, <1>11, <1>12 DEF CallsInv

LEMMA FrontAppended ==
    ASSUME NEW S, NEW fs \in Seq(S), NEW f \in S
    PROVE  Front(Append(fs, f)) = fs /\ Last(Append(fs, f)) = f /\ Append(fs, f) # <<>>
<1>1. PICK a, n : a = Append(fs, f) /\ n = Len(fs)
    OBVIOUS
<1>2. /\ a \in Seq(S) /\ a # <<>> /\ n \in Nat /\ Len(a) = n + 1 /\ a[n + 1] = f
      /\ \A i \in 1..n : a[i] = fs[i]
    BY <1>1, AppendProperties, LenProperties
<1>3. Last(a) = f /\ Len(a) - 1 = n
    BY <1>2 DEF Last
<1>4. /\ Front(a) \in Seq(S) /\ Len(Front(a)) = Len(a) - 1
      /\ \A i \in 1..(Len(a) - 1) : Front(a)[i] = a[i]
    BY <1>2, FrontProperties
<1>5. Front(a) \in Seq(S) /\ Len(Front(a)) = Len(fs) /\ \A i \in 1..Len(fs) : Front(a)[i] = fs[i]
    BY <1>1, <1>2, <1>3, <1>4
<1>6. Front(a) = fs
    BY <1>5, SeqEqual
<1>7. QED
    BY <1>1, <1>2, <1>3, <1>6

\* A span that is made and ended at once: the frames do not notice.
LEMMA ReadMessageKeeps == ASSUME CallsInv, Calls!ReadMessage PROVE CallsInv'
<1>1. /\ swCalls \in CallTracings /\ frames \in Seq(Frames) /\ Stacked(swCalls, frames)
      /\ spanOf \in Seq(Nat) /\ Len(spanOf) = Len(swCalls.log) /\ Len(swCalls.log) \in Nat
      /\ req.n \in Nat
    BY CallsTypes
<1>2. PICK t : t = Create(swCalls, "g", "entry", "read")
    OBVIOUS
<1>3. PICK s, u : s = t.act["g"].span /\ u = swCalls'
    OBVIOUS
<1>4. /\ u = EndSpan(t, "g", s)
      /\ spanOf' = IF Len(t.log) > Len(swCalls.log) THEN Append(spanOf, req.n) ELSE spanOf
      /\ UNCHANGED <<frames, panicking, req, skipped>>
    BY <1>2, <1>3, CallsOperators DEF Calls!ReadMessage
<1>5. "entry" \in SpanKinds /\ "read" \in CallNames
    BY DEF SpanKinds, CallNames
<1>6. s \in Nat
    BY <1>1, <1>2, <1>3, <1>5, ContextMade
\* The call as a frame of its own.
<1>7. PICK f : f = [hook |-> Calls!Recovering, span |-> s, recorded |-> Calls!OK]
    OBVIOUS
<1>8. f \in Frames /\ f.span = t.act["g"].span /\ f.span = s
    BY <1>3, <1>6, <1>7, CallsOperators DEF Frames, Hooks
<1>9. /\ t \in CallTracings /\ Stacked(t, Append(frames, f))
      /\ Exact(swCalls, frames) => Exact(t, Append(frames, f))
      /\ \A i \in 1..Len(swCalls.log) : t.log[i].parent = swCalls.log[i].parent
      /\ Len(t.log) = Len(swCalls.log) \/ Len(t.log) = Len(swCalls.log) + 1
      /\ f.span \in 1..Len(t.log)
  <2>1. Makes(swCalls, "entry", "read", t) /\ "read" \in CallNames /\ "entry" \in SpanKinds
    BY <1>2, <1>5 DEF Makes
  <2>2. f \in Frames /\ f.span = t.act["g"].span
    BY <1>8
  <2>3. swCalls \in CallTracings /\ frames \in Seq(Frames) /\ Stacked(swCalls, frames)
    BY <1>1
  <2>4. /\ t \in CallTracings /\ Stacked(t, Append(frames, f))
        /\ Exact(swCalls, frames) => Exact(t, Append(frames, f))
        /\ \A i \in 1..Len(swCalls.log) : t.log[i].parent = swCalls.log[i].parent
        /\ \/ Len(t.log) = Len(swCalls.log) /\ t.act = swCalls.act /\ f.span = swCalls.act["g"].span
           \/ /\ Len(t.log) = Len(swCalls.log) + 1 /\ f.span = Len(t.log)
              /\ t.log[f.span].parent = IF swCalls.act["g"] = NoContext THEN NoSpan ELSE swCalls.act["g"]
        /\ f.span \in 1..Len(t.log)
    BY <2>1, <2>2, <2>3, FramePushed, Zenon
  <2>5. QED
    BY <2>4
<1>10. PICK a : a = Append(frames, f)
    OBVIOUS
<1>11. a \in Seq(Frames) /\ a # <<>> /\ Front(a) = frames /\ Last(a) = f
    BY <1>1, <1>8, <1>10, FrontAppended, AppendProperties
<1>12. Stacked(t, a) /\ Last(a).span # 0 /\ u = EndSpan(t, "g", Last(a).span)
    BY <1>4, <1>8, <1>9, <1>10, <1>11
<1>13. /\ u \in CallTracings /\ Stacked(u, Front(a))
       /\ Exact(t, a) => Exact(u, Front(a))
       /\ Len(u.log) = Len(t.log)
       /\ \A i \in 1..Len(t.log) : u.log[i].parent = t.log[i].parent
    BY <1>9, <1>11, <1>12, FrameEnded
<1>14. /\ Stacked(u, frames) /\ (Exact(swCalls, frames) => Exact(u, frames))
       /\ Len(u.log) = Len(t.log)
       /\ \A i \in 1..Len(swCalls.log) : u.log[i].parent = swCalls.log[i].parent
    BY <1>1, <1>9, <1>10, <1>11, <1>13
<1>15. /\ spanOf' \in Seq(Nat) /\ Len(spanOf') = Len(u.log)
       /\ \A i \in 1..Len(swCalls.log) : spanOf'[i] = spanOf[i]
    <2>1. CASE Len(t.log) = Len(swCalls.log)
        BY <1>1, <1>4, <1>14, <2>1
    <2>2. CASE Len(t.log) = Len(swCalls.log) + 1
        <3>1. spanOf' = Append(spanOf, req.n)
            BY <1>1, <1>4, <2>2
        <3>2. QED
            BY <1>1, <1>14, <2>2, <3>1, AppendProperties
    <2>3. QED
        BY <1>9, <2>1, <2>2
<1>16. CallsTypeOK'
    BY <1>3, <1>4, <1>13, <1>15 DEF CallsTypeOK, CallsInv
<1>17. Stacked(swCalls', frames')
    BY <1>3, <1>4, <1>14
<1>18. \A k \in 1..Len(frames) : frames[k].span # 0 => frames[k].span \in 1..Len(swCalls.log)
    BY CallsTypes
<1>19. OwnersInv'
    BY <1>3, <1>4, <1>14, <1>15, <1>18 DEF CallsInv, OwnersInv
<1>20. StatusInv'
    <2>1. ASSUME StatusOK(swCalls, frames, req) PROVE StatusOK(u, frames, req)
        BY <1>14, <1>18, <2>1, StatusKept
    <2>2. QED
        BY <1>3, <1>4, <2>1 DEF CallsInv, StatusInv
<1>21. QED
    BY <1>16, <1>17, <1>19, <1>20 DEF CallsInv

LEMMA WriteHeaderKeeps ==
    ASSUME CallsInv, NEW code \in Calls!Codes, Calls!WriteHeader(code)
    PROVE  CallsInv'
<1>1. /\ frames # <<>> /\ ~panicking /\ UNCHANGED <<swCalls, panicking, spanOf, skipped>>
      /\ frames' = [i \in DOMAIN frames |->
                       IF frames[i].hook.status = "last" THEN [frames[i] EXCEPT !.recorded = code]
                       ELSE frames[i]]
      /\ req' = [req EXCEPT !.sent = IF @ = 0 THEN code ELSE @,
                            !.misled = @ \/ req.sent \notin {0, code} \/ Calls!Watching = {}]
    BY DEF Calls!WriteHeader
<1>2. /\ swCalls \in CallTracings /\ frames \in Seq(Frames) /\ req \in Requests
      /\ Stacked(swCalls, frames) /\ req.misled \in BOOLEAN
      /\ \A k \in 1..Len(frames) : frames[k] \in Frames
    BY CallsTypes
<1>3. PICK n \in Nat : n = Len(frames) /\ DOMAIN frames = 1..n
    BY <1>2, LenProperties
<1>4. \A k \in 1..n : /\ frames'[k] \in Frames /\ frames'[k].span = frames[k].span
                      /\ frames'[k].hook = frames[k].hook
                      /\ frames[k].hook.status = "last" => frames'[k].recorded = code
    BY <1>1, <1>2, <1>3 DEF Frames
<1>5. frames' \in Seq(Frames) /\ Len(frames') = n
    <2>1. frames' \in [1..n -> Frames]
        BY <1>1, <1>3, <1>4
    <2>2. QED
        BY <1>3, <2>1, LenProperties
<1>6. PICK b \in BOOLEAN : b = (req.misled \/ req.sent \notin {0, code} \/ Calls!Watching = {})
    OBVIOUS
<1>7. req' = [req EXCEPT !.sent = IF req.sent = 0 THEN code ELSE req.sent, !.misled = b]
    BY <1>1, <1>6
<1>8. /\ req' \in Requests /\ req'.sent = (IF req.sent = 0 THEN code ELSE req.sent)
      /\ req'.misled = b /\ req'.tag = req.tag /\ req'.inward = req.inward /\ req'.n = req.n
    BY <1>2, <1>7 DEF Requests
<1>9. Stacked(swCalls, frames') /\ (Exact(swCalls, frames) => Exact(swCalls, frames'))
    BY <1>2, <1>3, <1>4, <1>5, FramesMarked
<1>10. CallsTypeOK'
    BY <1>1, <1>5, <1>8 DEF CallsTypeOK, CallsInv
<1>11. OwnersInv'
    BY <1>1, <1>3, <1>4, <1>5, <1>8, <1>9 DEF CallsInv, OwnersInv
<1>12. StatusInv'
    <2>1. SUFFICES ASSUME ~b PROVE StatusOK(swCalls, frames', req')
        BY <1>1, <1>8 DEF StatusInv
    <2>2. StatusOK(swCalls, frames, req) /\ req.sent \in {0, code} /\ Calls!Watching # {}
        BY <1>6, <2>1 DEF CallsInv, StatusInv
    <2>3. Watches(frames)
        BY <1>3, <2>2 DEF Calls!Watching, Watches
    <2>4. code # 0 /\ req'.sent = code /\ StatusOf(req') = code
        BY <1>8, <2>2, CallsOperators DEF StatusOf
    <2>5. \A k \in 1..n : Tagging(swCalls, frames', k) <=> Tagging(swCalls, frames, k)
        BY <1>4 DEF Tagging
    <2>6. Tags(swCalls, frames) <=> Tags(swCalls, frames')
        BY <1>3, <1>5, <2>5 DEF Tags
    <2>7. Watches(frames')
        BY <1>3, <1>4, <1>5, <2>3 DEF Watches
    <2>8. req.tag # 0 => ~req.inward /\ Tags(swCalls, frames')
        BY <2>2, <2>3, <2>6 DEF StatusOK
    <2>9. \A k \in 1..Len(frames') : frames'[k].hook.status = "last" => frames'[k].recorded = code
        BY <1>4, <1>5
    <2>10. QED
        BY <1>8, <2>4, <2>7, <2>8, <2>9 DEF StatusOK
<1>13. Stacked(swCalls', frames')
    BY <1>1, <1>9
<1>14. QED
    BY <1>10, <1>11, <1>12, <1>13 DEF CallsInv

\* The innermost hook's epilogue, on return or in a panic.
LEMMA EndedPops ==
    ASSUME CallsInv, frames # <<>>, NEW f, f = Last(frames), Calls!Ended(f),
           frames' = Front(frames)
    PROVE  /\ swCalls' \in CallTracings /\ frames' \in Seq(Frames) /\ req' \in Requests
           /\ Len(swCalls'.log) = Len(swCalls.log)
           /\ Stacked(swCalls', frames')
           /\ Exact(swCalls, frames) => Exact(swCalls', frames')
           /\ req'.n = req.n /\ (req.misled => req'.misled)
           /\ StatusOK(swCalls, frames, req) /\ ~req'.misled => StatusOK(swCalls', frames', req')
<1>1. /\ swCalls \in CallTracings /\ frames \in Seq(Frames) /\ req \in Requests
      /\ Stacked(swCalls, frames) /\ req.misled \in BOOLEAN /\ req.inward \in BOOLEAN
      /\ StatusOf(req) \in Calls!Codes /\ req.tag \in {0} \cup Calls!Codes
    BY CallsTypes
<1>2. PICK n \in Nat : n = Len(Front(frames))
    BY <1>1, FrontProperties, LenProperties
<1>3. /\ Front(frames) \in Seq(Frames) /\ Len(frames) = n + 1 /\ f = frames[n + 1] /\ f \in Frames
    BY <1>1, <1>2, FramesPopped
<1>4. f.hook \in Hooks /\ f.hook.status \in {"none", "sent", "last", "first200"} /\ f.span \in Nat
    BY <1>3, HookFacts DEF Frames
<1>5. /\ swCalls' \in CallTracings
      /\ Len(swCalls'.log) = Len(swCalls.log)
      /\ Stacked(swCalls', frames')
      /\ Exact(swCalls, frames) => Exact(swCalls', frames')
      /\ \A i \in 1..Len(swCalls.log) : swCalls'.log[i].parent = swCalls.log[i].parent
    <2>1. CASE f.span = 0
        <3>1. swCalls' = swCalls
            BY <2>1 DEF Calls!Ended
        <3>2. QED
            BY <1>1, <2>1, <3>1, FrameDropped
    <2>2. CASE f.span # 0
        <3>1. PICK t, u : t = swCalls /\ u = swCalls'
            OBVIOUS
        <3>2. u = EndSpan(t, "g", Last(frames).span)
            BY <2>2, <3>1, CallsOperators DEF Calls!Ended
        <3>3. t \in CallTracings /\ Stacked(t, frames) /\ Last(frames).span # 0
            BY <1>1, <2>2, <3>1
        <3>4. /\ u \in CallTracings /\ Stacked(u, Front(frames))
              /\ Exact(t, frames) => Exact(u, Front(frames))
              /\ Len(u.log) = Len(t.log)
              /\ \A i \in 1..Len(t.log) : u.log[i].parent = t.log[i].parent
            BY <1>1, <3>2, <3>3, FrameEnded
        <3>5. QED
            BY <3>1, <3>4
    <2>3. QED
        BY <2>1, <2>2
<1>6. PICK tag : tag = Calls!Tag(f)
    OBVIOUS
<1>7. tag = IF ~Tagging(swCalls, frames, Len(frames)) THEN req.tag
            ELSE IF f.hook.status = "sent" THEN StatusOf(req) ELSE f.recorded
    <2>1. Calls!TagsRequest(f) <=> Tagging(swCalls, frames, Len(frames))
        BY <1>3, CallsOperators DEF Calls!TagsRequest, Tagging
    <2>2. Calls!Sent = StatusOf(req)
        BY DEF Calls!Sent, StatusOf
    <2>3. QED
        BY <1>6, <2>1, <2>2 DEF Calls!Tag
<1>8. tag \in {0} \cup Calls!Codes
    <2>1. f.recorded \in Calls!Codes
        BY <1>3 DEF Frames
    <2>2. QED
        BY <1>1, <1>7, <2>1
<1>9. PICK b, c : b = (req.inward /\ f.hook.kind # "entry") /\ c = (req.misled \/ f.hook.status = "first200")
    OBVIOUS
<1>10. req' = [req EXCEPT !.tag = tag, !.inward = b, !.misled = c]
    BY <1>6, <1>9 DEF Calls!Ended
<1>11. b \in BOOLEAN /\ c \in BOOLEAN
    BY <1>1, <1>9
<1>12. /\ req' \in Requests /\ req'.tag = tag /\ req'.inward = b /\ req'.misled = c
       /\ req'.sent = req.sent /\ req'.n = req.n
    BY <1>1, <1>8, <1>10, <1>11 DEF Requests
<1>13. ASSUME StatusOK(swCalls, frames, req), ~req'.misled
       PROVE  StatusOK(swCalls', Front(frames), req')
    <2>1. f.hook.status # "first200"
        BY <1>9, <1>12, <1>13
    <2>2. req'.inward <=> req.inward /\ f.hook.kind # "entry"
        BY <1>9, <1>12
    <2>3. PICK s, u : s = req' /\ u = swCalls'
        OBVIOUS
    <2>4. /\ s \in Requests /\ s.sent = req.sent /\ (s.inward <=> req.inward /\ f.hook.kind # "entry")
          /\ s.tag = IF ~Tagging(swCalls, frames, Len(frames)) THEN req.tag
                     ELSE IF f.hook.status = "sent" THEN StatusOf(req) ELSE f.recorded
          /\ \A i \in 1..Len(swCalls.log) : u.log[i].parent = swCalls.log[i].parent
        BY <1>5, <1>7, <1>12, <2>2, <2>3
    <2>5. StatusOK(u, Front(frames), s)
        BY <1>1, <1>4, <1>13, <2>1, <2>4, StatusPopped
    <2>6. QED
        BY <2>3, <2>5
<1>14. req.misled => req'.misled
    BY <1>9, <1>12
<1>15. QED
    BY <1>3, <1>5, <1>12, <1>13, <1>14

\* The frames that are left are the request's still.
LEMMA OwnersPopped ==
    ASSUME CallsInv, frames # <<>>, frames' = Front(frames), UNCHANGED spanOf, req'.n = req.n,
           ~skipped' => ~skipped,
           ~skipped' /\ Exact(swCalls, frames) => Exact(swCalls', frames')
    PROVE  OwnersInv'
<1>1. PICK n \in Nat : n = Len(Front(frames))
    BY CallsTypes, FrontProperties, LenProperties
<1>2. \A k \in 1..n : Front(frames)[k] = frames[k] /\ k \in 1..Len(frames)
    BY <1>1, CallsTypes, FramesPopped
<1>3. QED
    BY <1>1, <1>2 DEF CallsInv, OwnersInv

LEMMA LeaveKeeps == ASSUME CallsInv, Calls!Leave PROVE CallsInv'
<1>1. /\ frames # <<>> /\ ~panicking /\ Calls!Ended(Last(frames)) /\ frames' = Front(frames)
      /\ UNCHANGED <<panicking, spanOf, skipped>>
    BY CallsOperators DEF Calls!Leave
<1>2. /\ swCalls' \in CallTracings /\ frames' \in Seq(Frames) /\ req' \in Requests
      /\ Len(swCalls'.log) = Len(swCalls.log)
      /\ Stacked(swCalls', frames')
      /\ Exact(swCalls, frames) => Exact(swCalls', frames')
      /\ req'.n = req.n /\ (req.misled => req'.misled)
      /\ StatusOK(swCalls, frames, req) /\ ~req'.misled => StatusOK(swCalls', frames', req')
    BY <1>1, EndedPops
<1>3. CallsTypeOK'
    BY <1>1, <1>2 DEF CallsTypeOK, CallsInv
<1>4. OwnersInv'
    BY <1>1, <1>2, OwnersPopped DEF CallsInv, OwnersInv
<1>5. StatusInv'
    BY <1>1, <1>2 DEF CallsInv, StatusInv
<1>6. QED
    BY <1>2, <1>3, <1>4, <1>5 DEF CallsInv

LEMMA PanicKeeps == ASSUME CallsInv, Calls!Panic PROVE CallsInv'
<1>1. /\ frames # <<>> /\ panicking' = TRUE /\ req' = [req EXCEPT !.misled = TRUE]
      /\ UNCHANGED <<swCalls, frames, spanOf, skipped>>
    BY DEF Calls!Panic
<1>2. req' \in Requests /\ req'.misled /\ req'.n = req.n
    BY <1>1, CallsTypes DEF Requests
<1>3. CallsTypeOK'
    BY <1>1, <1>2 DEF CallsTypeOK, CallsInv
<1>4. Stacked(swCalls', frames') /\ OwnersInv' /\ StatusInv'
    BY <1>1, <1>2 DEF CallsInv, OwnersInv, StatusInv
<1>5. QED
    BY <1>3, <1>4 DEF CallsInv

LEMMA UnwindKeeps == ASSUME CallsInv, Calls!Unwind PROVE CallsInv'
<1>1. panicking /\ frames # <<>> /\ req.misled
    BY DEF Calls!Unwind, CallsInv, CallsTypeOK
<1>2. PICK f : f = Last(frames)
    OBVIOUS
<1>3. /\ IF f.hook.end = "deferred" THEN Calls!Ended(f) ELSE UNCHANGED <<swCalls, req>>
      /\ skipped' = (skipped \/ (f.hook \in Calls!EndsUndeferred /\ f.span # 0))
      /\ panicking' = (f.hook # Calls!Recovering /\ Len(frames) > 1)
      /\ frames' = Front(frames) /\ UNCHANGED spanOf
    BY <1>2, CallsOperators DEF Calls!Unwind
<1>4. /\ swCalls \in CallTracings /\ frames \in Seq(Frames) /\ req \in Requests
      /\ Stacked(swCalls, frames)
    BY CallsTypes
<1>5. PICK n \in Nat : n = Len(Front(frames))
    BY <1>1, <1>4, FrontProperties, LenProperties
<1>6. /\ frames' \in Seq(Frames) /\ Len(frames') = n /\ Len(frames) = n + 1 /\ f \in Frames
    BY <1>1, <1>2, <1>3, <1>4, <1>5, FramesPopped
<1>7. /\ swCalls' \in CallTracings /\ req' \in Requests
      /\ Len(swCalls'.log) = Len(swCalls.log)
      /\ Stacked(swCalls', frames')
      /\ ~skipped' /\ Exact(swCalls, frames) => Exact(swCalls', frames')
      /\ req'.n = req.n /\ req'.misled
    <2>1. CASE f.hook.end = "deferred"
        BY <1>1, <1>2, <1>3, <2>1, EndedPops
    <2>2. CASE f.hook.end # "deferred"
        <3>1. f.hook \in Calls!EndsUndeferred
            BY <1>6, <2>2, HookFacts DEF Frames
        <3>2. swCalls' = swCalls /\ req' = req /\ (~skipped' => f.span = 0)
            BY <1>3, <2>2, <3>1
        <3>3. /\ Stacked(swCalls, Front(frames))
              /\ Exact(swCalls, frames) /\ f.span = 0 => Exact(swCalls, Front(frames))
            BY <1>1, <1>2, <1>4, FrameDropped
        <3>4. QED
            BY <1>1, <1>3, <1>4, <3>2, <3>3
    <2>3. QED
        BY <2>1, <2>2
<1>8. panicking' \in BOOLEAN /\ (panicking' => frames' # <<>>) /\ skipped' \in BOOLEAN
    <2>1. ASSUME panicking' PROVE n # 0
        <3>1. Len(frames) > 1
            BY <1>3, <2>1, Zenon
        <3>2. QED
            BY <1>6, <3>1
    <2>2. QED
        BY <1>3, <1>6, <2>1, CallsTypes DEF CallsInv, CallsTypeOK
<1>9. CallsTypeOK'
    BY <1>3, <1>6, <1>7, <1>8 DEF CallsTypeOK, CallsInv
<1>10. OwnersInv'
    BY <1>1, <1>3, <1>7, OwnersPopped DEF CallsInv, OwnersInv
<1>11. StatusInv'
    BY <1>7 DEF StatusInv
<1>12. QED
    BY <1>7, <1>9, <1>10, <1>11 DEF CallsInv

LEMMA CallsNextInv == CallsInv /\ (Calls!Next \/ UNCHANGED callVars) => CallsInv'
<1> SUFFICES ASSUME CallsInv, Calls!Next \/ UNCHANGED callVars PROVE CallsInv'
    OBVIOUS
<1>1. CASE UNCHANGED callVars
    BY <1>1 DEF callVars, CallsInv, CallsTypeOK, OwnersInv, StatusInv
<1>2. CASE Calls!Next
    BY <1>2, ArriveKeeps, EnterKeeps, EnterUnspannedKeeps, ReadMessageKeeps, WriteHeaderKeeps,
       LeaveKeeps, PanicKeeps, UnwindKeeps DEF Calls!Next
<1>3. QED
    BY <1>1, <1>2

LEMMA CallsInductive ==
    /\ SkyWalkingInit => CallsInv
    /\ CallsInv /\ [SkyWalkingNext]_<<hooks, vars, callVars, streamVars, sqlVars, mongoVars, socketVars>>
           => CallsInv'
<1>1. SkyWalkingInit => CallsInv
    BY CallsInitInv DEF SkyWalkingInit
<1>2. SkyWalkingNext
          \/ UNCHANGED <<hooks, vars, callVars, streamVars, sqlVars, mongoVars, socketVars>>
      => Calls!Next \/ UNCHANGED callVars
    BY DEF SkyWalkingNext
<1>3. QED
    BY <1>1, <1>2, CallsNextInv

LEMMA CallsEnd == ASSUME CallsInv PROVE SpansEndWithTheirCalls
<1>1. /\ Stacked(swCalls, frames) /\ swCalls \in CallTracings /\ frames \in Seq(Frames)
      /\ Len(swCalls.log) \in Nat
    BY CallsTypes
<1>2. DOMAIN swCalls.log = 1..Len(swCalls.log) /\ DOMAIN frames = 1..Len(frames)
    BY <1>1, TracingTypes, LenProperties DEF CallTracings
<1>3. SUFFICES ASSUME ~skipped
               PROVE  /\ \A i \in 1..Len(swCalls.log) : i \in Calls!Owned <=> ~Reported(swCalls, i)
                      /\ frames = <<>> => swCalls.act["g"].span = 0
                      /\ \A i \in Calls!Owned : spanOf[i] = req.n
    BY <1>2, CallsOperators DEF SpansEndWithTheirCalls, Calls!SpansEndWithTheirCalls
<1>4. /\ Exact(swCalls, frames)
      /\ \A k \in 1..Len(frames) : frames[k].span # 0 => spanOf[frames[k].span] = req.n
    BY <1>3 DEF CallsInv, OwnersInv
<1>5. \A i \in 1..Len(swCalls.log) : i \in Calls!Owned <=> Sharing(frames, i) # {}
    BY <1>1, <1>2 DEF Calls!Owned, Sharing
<1>6. \A i : Cardinality(Sharing(frames, i)) = 0 <=> Sharing(frames, i) = {}
    BY <1>1, SharingCounted, FS_EmptySet
<1>7. \A i \in 1..Len(swCalls.log) : Reported(swCalls, i) <=> swCalls.log[i].depth = 0
    BY <1>1 DEF Reported, Stacked, LinksOK
<1>8. frames = <<>> => swCalls.act["g"].span = 0
    <2>1. SUFFICES ASSUME frames = <<>>, swCalls.act["g"].span # 0 PROVE FALSE
        OBVIOUS
    <2>2. PICK i \in 1..Len(swCalls.log) : i = swCalls.act["g"].span
        BY <1>1, <2>1, CallLog
    <2>3. swCalls.log[i].depth >= 1
        BY <1>1, <2>2, UnderItself DEF Stacked, OpenOK
    <2>4. Sharing(frames, i) = {}
        BY <2>1 DEF Sharing
    <2>5. QED
        BY <1>4, <1>6, <2>3, <2>4 DEF Exact
<1>9. QED
    BY <1>2, <1>4, <1>5, <1>6, <1>7, <1>8 DEF Exact, Calls!Owned

\* However hooks nest, share spans or are left by a panic, on a goroutine that serves any
\* number of requests, a span ends with the last of its calls: CreateEntrySpan,
\* CreateExitSpan and Span.End under the prologues and epilogues of the hooks.
THEOREM CallsEndTheirSpans == SkyWalkingSpec => []SpansEndWithTheirCalls
BY CallsInductive, CallsEnd, PTL DEF SkyWalkingSpec

LEMMA CallsTag == ASSUME CallsInv PROVE StatusIsSent
<1>1. SUFFICES ASSUME frames = <<>>, ~req.misled PROVE req.tag \in {0, StatusOf(req)}
    BY DEF StatusIsSent, Calls!StatusIsSent, Calls!Sent, StatusOf
<1>2. Len(frames) = 0
    BY <1>1
<1>3. ~Tags(swCalls, frames)
    BY <1>2 DEF Tags
<1>4. QED
    BY <1>1, <1>3 DEF CallsInv, StatusInv, StatusOK

\* With any number of layers that tag the request's span, the tag that stays is the
\* status the client was sent: the order in which the server hooks' epilogues run.
THEOREM TagsAreWhatWasSent == SkyWalkingSpec => []StatusIsSent
BY CallsInductive, CallsTag, PTL DEF SkyWalkingSpec

=============================================================================
