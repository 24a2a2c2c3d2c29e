------------------------------ MODULE GLSProofs ------------------------------
(***************************************************************************)
(* Safety of the goroutine-local span stack for any number of goroutines    *)
(* and spans and any limits: an inductive invariant and what follows; then  *)
(* that the stack implements the sets of candidates of ImplicitParent.      *)
(***************************************************************************)
EXTENDS GLSRefinement, SequenceLemmas

CreatingPc == {"startTail", "startUse", "add", "compact", "track"}

\* The span a hook works on, and who works on it.
ArgInv ==
    /\ \A g \in Goroutines : pc[g] \in CreatingPc =>
          arg[g] \in Spans /\ phase[arg[g]] = "creating"
    /\ \A g, h \in Goroutines :
          (pc[g] \in CreatingPc /\ pc[h] \in CreatingPc /\ arg[g] = arg[h]) => g = h
    /\ \A g \in Goroutines : pc[g] = "del" =>
          arg[g] \in Spans /\ phase[arg[g]] = "done"

\* A goroutine being started belongs to one newproc1 only.
ForkInv ==
    /\ \A g \in Goroutines : pc[g] = "forkTail" => pc[child[g]] = "spawning"
    /\ \A g, h \in Goroutines :
          (pc[g] = "forkTail" /\ pc[h] = "forkTail" /\ child[g] = child[h]) => g = h

\* A tracked span is live and unflagged; what a stack holds is tracked or flagged.
FlagInv ==
    /\ \A s \in states : phase[s] = "live" /\ s \notin ended
    /\ \A s \in ended : phase[s] \in {"live", "done"}
    /\ \A g \in Goroutines : \A i \in 1..Len(stack[g]) : stack[g][i] \in ended \cup states

\* The eviction list holds the tracked spans, each once, within the limit.
OrderInv ==
    /\ states = Range(order)
    /\ IsInjective(order)
    /\ Len(order) <= MaxSpanStates

\* n counts the chain, and add() pushes only below the limit.
CountInv ==
    \A g \in Goroutines :
        /\ n[g] = Len(stack[g])
        /\ n[g] <= MaxSpans
        /\ pc[g] = "track" => n[g] < MaxSpans

\* compact() will make room unless every entry was live when it was entered.
CompactInv ==
    \A g \in Goroutines : pc[g] = "compact" =>
        /\ cursor[g] <= Len(stack[g])
        /\ \/ crowded[g]
           \/ n[g] < MaxSpans
           \/ \E i \in 1..cursor[g] : stack[g][i] \in ended

\* lcs lags behind the chain only inside compact() and on an empty chain.
LcsInv ==
    \A g \in Goroutines :
        pc[g] # "compact" => n[g] = 0 \/ lcs[g] \in {NoSpan, Bottom(stack[g])}

IInv == TypeOK /\ ArgInv /\ ForkInv /\ FlagInv /\ OrderInv /\ CountInv /\ CompactInv /\ LcsInv

\* A span takes its parent from the context.
LEMMA StartWithContextSpanStep ==
    ASSUME IInv, NEW g \in Goroutines, NEW s \in Spans, StartWithContextSpan(g, s)
    PROVE  IInv'
<1>1. TypeOK'
    BY GLSAssumption DEF StartWithContextSpan, IInv, TypeOK, tcVars, sharedVars,
                         historyVars, Pc, TailPc, Phase, Empty, TailLcs, TailResult,
                         TailStops, Bottom
<1>2. ArgInv'
    BY GLSAssumption DEF StartWithContextSpan, IInv, TypeOK, ArgInv, tcVars,
                         sharedVars, historyVars, CreatingPc, TailPc
<1>3. ForkInv'
    BY GLSAssumption DEF StartWithContextSpan, IInv, TypeOK, ForkInv, tcVars,
                         sharedVars, historyVars, TailPc
<1>4. FlagInv'
    BY GLSAssumption DEF StartWithContextSpan, IInv, TypeOK, FlagInv, tcVars,
                         sharedVars, historyVars, Empty
<1>5. OrderInv'
    BY GLSAssumption DEF StartWithContextSpan, IInv, TypeOK, OrderInv, tcVars,
                         sharedVars, historyVars
<1>6. CountInv'
    BY GLSAssumption DEF StartWithContextSpan, IInv, TypeOK, CountInv, tcVars,
                         sharedVars, historyVars, Empty, TailPc
<1>7. CompactInv'
    BY GLSAssumption DEF StartWithContextSpan, IInv, TypeOK, CompactInv, tcVars,
                         sharedVars, historyVars, CountInv, TailPc, Empty
<1>8. LcsInv'
    BY GLSAssumption DEF StartWithContextSpan, IInv, TypeOK, LcsInv, tcVars,
                         sharedVars, historyVars, CountInv, Bottom, Empty, TailLcs,
                         TailPc
<1>9. QED
    BY <1>1, <1>2, <1>3, <1>4, <1>5, <1>6, <1>7, <1>8 DEF IInv

\* A span is about to look for its parent on the stack.
LEMMA StartWithoutContextSpanStep ==
    ASSUME IInv, NEW g \in Goroutines, NEW s \in Spans, StartWithoutContextSpan(g, s)
    PROVE  IInv'
<1>1. TypeOK'
    BY GLSAssumption DEF StartWithoutContextSpan, Over, IInv, TypeOK, tcVars, sharedVars,
                         historyVars, Pc, TailPc, Phase, Empty, TailLcs, TailResult,
                         TailStops, Bottom
<1>2. ArgInv'
    BY GLSAssumption DEF StartWithoutContextSpan, IInv, TypeOK, ArgInv, tcVars,
                         sharedVars, historyVars, CreatingPc, TailPc
<1>3. ForkInv'
    BY GLSAssumption DEF StartWithoutContextSpan, IInv, TypeOK, ForkInv, tcVars,
                         sharedVars, historyVars, TailPc
<1>4. FlagInv'
    BY GLSAssumption DEF StartWithoutContextSpan, IInv, TypeOK, FlagInv, tcVars,
                         sharedVars, historyVars, Empty
<1>5. OrderInv'
    BY GLSAssumption DEF StartWithoutContextSpan, IInv, TypeOK, OrderInv, tcVars,
                         sharedVars, historyVars
<1>6. CountInv'
    BY GLSAssumption DEF StartWithoutContextSpan, IInv, TypeOK, CountInv, tcVars,
                         sharedVars, historyVars, Empty, TailPc
<1>7. CompactInv'
    BY GLSAssumption DEF StartWithoutContextSpan, IInv, TypeOK, CompactInv, tcVars,
                         sharedVars, historyVars, CountInv, TailPc, Empty
<1>8. LcsInv'
    BY GLSAssumption DEF StartWithoutContextSpan, IInv, TypeOK, LcsInv, tcVars,
                         sharedVars, historyVars, CountInv, Bottom, Empty, TailLcs,
                         TailPc
<1>9. QED
    BY <1>1, <1>2, <1>3, <1>4, <1>5, <1>6, <1>7, <1>8 DEF IInv

\* tail() unlinks an ended top.
LEMMA TailPopStep ==
    ASSUME IInv, NEW g \in Goroutines, TailPop(g)
    PROVE  IInv'
<1> DEFINE f == Front(stack[g])
<1>1. /\ stack[g] \in Seq(Spans)
      /\ f \in Seq(Spans)
      /\ Len(f) = Len(stack[g]) - 1
      /\ \A j \in 1..Len(f) : f[j] = stack[g][j]
      /\ Len(stack[g]) \in Nat
      /\ Len(stack[g]) > 0
  <2>1. stack[g] \in Seq(Spans) /\ stack[g] # <<>>
    BY DEF TailPop, Empty, IInv, TypeOK
  <2>2. /\ f \in Seq(Spans)
        /\ Len(f) = Len(stack[g]) - 1
        /\ \A j \in 1..(Len(stack[g]) - 1) : f[j] = stack[g][j]
    BY <2>1, FrontProperties
  <2>3. QED
    BY <2>1, <2>2
<1>2. /\ pc[g] \in TailPc
      /\ stack' = [stack EXCEPT ![g] = f]
      /\ n' = [n EXCEPT ![g] = @ - 1]
      /\ UNCHANGED <<pc, arg, child, hasTC, lcs, cursor, sharedVars, phase, found, parent,
                     historyVars>>
    BY DEF TailPop
<1> HIDE DEF f
<1>3. TypeOK'
    BY <1>1, <1>2, GLSAssumption, SMTT(30) DEF IInv, TypeOK, sharedVars, historyVars, TailPc
<1>4. ArgInv'
    BY <1>1, <1>2, GLSAssumption DEF IInv, TypeOK, ArgInv, sharedVars, historyVars,
                                     TailPc, CreatingPc
<1>5. ForkInv'
    BY <1>1, <1>2, GLSAssumption DEF IInv, TypeOK, ForkInv, sharedVars, historyVars,
                                     TailPc
<1>6. FlagInv'
  <2>1. ASSUME NEW h \in Goroutines, NEW i \in 1..Len(stack'[h])
        PROVE  stack'[h][i] \in ended \cup states
    <3>1. CASE h = g
      <4>1. stack'[h] = f /\ i \in 1..Len(stack[g]) /\ stack'[h][i] = stack[g][i]
        BY <1>1, <1>2, <3>1, SMTT(30) DEF IInv, TypeOK
      <4>2. QED
        BY <4>1 DEF IInv, FlagInv
    <3>2. CASE h # g
      BY <1>2, <3>2 DEF IInv, TypeOK, FlagInv
    <3>3. QED
      BY <3>1, <3>2
  <2>2. QED
    BY <1>2, <2>1 DEF IInv, FlagInv, sharedVars
<1>7. OrderInv'
    BY <1>1, <1>2, GLSAssumption DEF IInv, TypeOK, OrderInv, sharedVars,
                                     historyVars, TailPc
<1>8. CountInv'
    BY <1>1, <1>2, GLSAssumption, SMTT(30) DEF IInv, TypeOK, CountInv, sharedVars,
                                     historyVars, TailPc
<1>9. CompactInv'
    BY <1>1, <1>2, GLSAssumption DEF IInv, TypeOK, CompactInv, sharedVars,
                                     historyVars, TailPc, CountInv
<1>10. LcsInv'
  <2>1. ASSUME NEW h \in Goroutines, pc'[h] # "compact", n'[h] # 0
        PROVE  lcs'[h] \in {NoSpan, Bottom(stack'[h])}
    <3>1. CASE h = g
      <4>1. /\ n[g] # 0
            /\ pc[g] # "compact"
            /\ stack'[g] = f
            /\ Len(f) \in Nat /\ Len(f) > 0
            /\ n[g] = Len(stack[g])
        BY <1>1, <1>2, <2>1, <3>1 DEF IInv, TypeOK, CountInv, TailPc
      <4>2. f # <<>> /\ stack[g] # <<>> /\ f[1] = stack[g][1]
        <5>1. 1 \in 1..Len(f)
          BY <4>1
        <5>2. QED
          BY <1>1, <5>1
      <4>3. QED
        BY <1>2, <3>1, <4>1, <4>2 DEF IInv, LcsInv, Bottom, Empty
    <3>2. CASE h # g
      BY <1>2, <2>1, <3>2 DEF IInv, TypeOK, LcsInv
    <3>3. QED
      BY <3>1, <3>2
  <2>2. QED
    BY <2>1 DEF LcsInv
<1>11. QED
    BY <1>3, <1>4, <1>5, <1>6, <1>7, <1>8, <1>9, <1>10 DEF IInv

\* tail() hands the parent to the SDK.
LEMMA StartTailReturnStep ==
    ASSUME IInv, NEW g \in Goroutines, StartTailReturn(g)
    PROVE  IInv'
<1>1. TypeOK'
  <2>1. TailResult(g) \in Spans \cup {NoSpan} /\ TailLcs(g) \in Spans \cup {NoSpan}
    BY FrontProperties DEF IInv, TypeOK, TailResult, TailLcs, Empty
  <2>2. QED
    BY <2>1 DEF StartTailReturn, IInv, TypeOK, Pc, TailPc, sharedVars, historyVars
<1>2. ArgInv'
  <2>1. /\ arg' = arg /\ phase' = phase
        /\ \A h \in Goroutines : /\ pc'[h] \in CreatingPc => pc[h] \in CreatingPc
                                 /\ pc'[h] = "del" => pc[h] = "del"
    BY DEF StartTailReturn, IInv, TypeOK, CreatingPc
  <2>2. QED
    BY <2>1 DEF IInv, ArgInv
<1>3. ForkInv'
    BY GLSAssumption DEF StartTailReturn, IInv, TypeOK, ForkInv, tcVars, sharedVars,
                         historyVars, TailPc
<1>4. FlagInv'
    BY GLSAssumption DEF StartTailReturn, IInv, TypeOK, FlagInv, tcVars, sharedVars,
                         historyVars, Empty
<1>5. OrderInv'
    BY GLSAssumption DEF StartTailReturn, IInv, TypeOK, OrderInv, tcVars,
                         sharedVars, historyVars
<1>6. CountInv'
    BY GLSAssumption DEF StartTailReturn, IInv, TypeOK, CountInv, tcVars,
                         sharedVars, historyVars, Empty, TailPc
<1>7. CompactInv'
    BY GLSAssumption DEF StartTailReturn, IInv, TypeOK, CompactInv, tcVars,
                         sharedVars, historyVars, CountInv, TailPc, Empty
<1>8. LcsInv'
    BY GLSAssumption DEF StartTailReturn, IInv, TypeOK, LcsInv, tcVars, sharedVars,
                         historyVars, CountInv, Bottom, Empty, TailLcs, TailPc
<1>9. QED
    BY <1>1, <1>2, <1>3, <1>4, <1>5, <1>6, <1>7, <1>8 DEF IInv

\* The SDK takes what SpanFromContext returned.
LEMMA StartWithParentStep ==
    ASSUME IInv, NEW g \in Goroutines, StartWithParent(g)
    PROVE  IInv'
<1>1. TypeOK'
  <2>1. pc' = [pc EXCEPT ![g] = "add"] /\ "add" \in Pc
    BY DEF StartWithParent, Pc
  <2>2. arg[g] \in Spans
    BY DEF StartWithParent, IInv, ArgInv, CreatingPc
  <2>3. /\ parent' = [parent EXCEPT ![arg[g]] = found[arg[g]]]
        /\ past' = [past EXCEPT ![arg[g]] = {}]
    BY DEF StartWithParent
  <2>4. parent' \in [Spans -> Spans \cup {NoSpan, CtxSpan}] /\ past' \in [Spans -> SUBSET Spans]
    BY <2>2, <2>3 DEF IInv, TypeOK
  <2>5. QED
    BY <2>1, <2>4 DEF StartWithParent, IInv, TypeOK, tcVars, sharedVars
<1>2. ArgInv'
  <2>1. /\ arg' = arg /\ phase' = phase
        /\ \A h \in Goroutines : /\ pc'[h] \in CreatingPc => pc[h] \in CreatingPc
                                 /\ pc'[h] = "del" => pc[h] = "del"
    BY DEF StartWithParent, IInv, TypeOK, CreatingPc
  <2>2. QED
    BY <2>1 DEF IInv, ArgInv
<1>3. ForkInv'
    BY GLSAssumption DEF StartWithParent, IInv, TypeOK, ForkInv, tcVars, sharedVars,
                         historyVars, TailPc
<1>4. FlagInv'
    BY GLSAssumption DEF StartWithParent, IInv, TypeOK, FlagInv, tcVars, sharedVars,
                         historyVars, Empty
<1>5. OrderInv'
    BY GLSAssumption DEF StartWithParent, IInv, TypeOK, OrderInv, tcVars,
                         sharedVars, historyVars
<1>6. CountInv'
    BY GLSAssumption DEF StartWithParent, IInv, TypeOK, CountInv, tcVars,
                         sharedVars, historyVars, Empty, TailPc
<1>7. CompactInv'
    BY GLSAssumption DEF StartWithParent, IInv, TypeOK, CompactInv, tcVars,
                         sharedVars, historyVars, CountInv, TailPc, Empty
<1>8. LcsInv'
    BY GLSAssumption DEF StartWithParent, IInv, TypeOK, LcsInv, tcVars, sharedVars,
                         historyVars, CountInv, Bottom, Empty, TailLcs, TailPc
<1>9. QED
    BY <1>1, <1>2, <1>3, <1>4, <1>5, <1>6, <1>7, <1>8 DEF IInv

\* add() tests its capacity.
LEMMA AddBeginStep ==
    ASSUME IInv, NEW g \in Goroutines, AddBegin(g)
    PROVE  IInv'
<1> DEFINE b == \A i \in 1..Len(stack[g]) : stack[g][i] \notin ended
<1>1. b \in BOOLEAN
    OBVIOUS
<1>2. b \/ \E i \in 1..Len(stack[g]) : stack[g][i] \in ended
    OBVIOUS
<1>3. /\ pc[g] = "add"
      /\ hasTC' = [hasTC EXCEPT ![g] = TRUE]
      /\ \/ /\ n[g] >= MaxSpans
            /\ pc' = [pc EXCEPT ![g] = "compact"]
            /\ cursor' = [cursor EXCEPT ![g] = Len(stack[g])]
            /\ crowded' = [crowded EXCEPT ![g] = b]
         \/ /\ ~(n[g] >= MaxSpans)
            /\ pc' = [pc EXCEPT ![g] = "track"]
            /\ UNCHANGED <<cursor, crowded>>
      /\ UNCHANGED <<arg, child, stack, n, lcs, sharedVars, phase, found, parent, birth, past>>
    BY DEF AddBegin
<1> HIDE DEF b
<1>4. TypeOK'
  <2>1. pc' \in [Goroutines -> Pc]
    BY <1>3 DEF IInv, TypeOK, Pc
  <2>2. cursor' \in [Goroutines -> Nat]
    <3>1. stack[g] \in Seq(Spans) /\ cursor \in [Goroutines -> Nat]
      BY DEF IInv, TypeOK
    <3>2. Len(stack[g]) \in Nat
      BY <3>1
    <3>3. QED
      BY <1>3, <3>1, <3>2
  <2>3. crowded' \in [Goroutines -> BOOLEAN]
    BY <1>1, <1>3 DEF IInv, TypeOK
  <2>4. hasTC' \in [Goroutines -> BOOLEAN]
    BY <1>3 DEF IInv, TypeOK
  <2>5. QED
    BY <1>3, <2>1, <2>2, <2>3, <2>4 DEF IInv, TypeOK, sharedVars
<1>5. ArgInv'
  <2>1. \A h \in Goroutines :
           /\ pc'[h] \in CreatingPc <=> pc[h] \in CreatingPc
           /\ pc'[h] = "del" <=> pc[h] = "del"
    BY <1>3 DEF IInv, TypeOK, CreatingPc
  <2>2. QED
    BY <1>3, <2>1 DEF IInv, ArgInv
<1>6. ForkInv'
  <2>1. \A h \in Goroutines :
           /\ pc'[h] = "forkTail" <=> pc[h] = "forkTail"
           /\ pc'[h] = "spawning" <=> pc[h] = "spawning"
    BY <1>3 DEF IInv, TypeOK
  <2>2. QED
    BY <1>3, <2>1 DEF IInv, TypeOK, ForkInv
<1>7. FlagInv'
    BY <1>1, <1>2, <1>3, GLSAssumption DEF IInv, TypeOK, FlagInv, sharedVars
<1>8. OrderInv'
    BY <1>1, <1>2, <1>3, GLSAssumption DEF IInv, TypeOK, OrderInv, sharedVars
<1>9. CountInv'
    BY <1>1, <1>2, <1>3, GLSAssumption DEF IInv, TypeOK, CountInv, sharedVars
<1>10. CompactInv'
    BY <1>1, <1>2, <1>3, GLSAssumption DEF IInv, TypeOK, CompactInv, sharedVars,
                                           CountInv
<1>11. LcsInv'
    BY <1>1, <1>2, <1>3, GLSAssumption DEF IInv, TypeOK, LcsInv, sharedVars,
                                           CountInv
<1>12. QED
    BY <1>4, <1>5, <1>6, <1>7, <1>8, <1>9, <1>10, <1>11 DEF IInv

\* compact() passes one entry, unlinking it if it has ended.
LEMMA CompactStepStep ==
    ASSUME IInv, NEW g \in Goroutines, CompactStep(g)
    PROVE  IInv'
<1> DEFINE r == RemoveAt(stack[g], cursor[g])
<1>1. /\ stack[g] \in Seq(Spans)
      /\ Len(stack[g]) \in Nat
      /\ cursor[g] \in 1..Len(stack[g])
      /\ n[g] = Len(stack[g])
      /\ n[g] <= MaxSpans
    BY DEF CompactStep, IInv, TypeOK, CompactInv, CountInv
<1>2. /\ r \in Seq(Spans)
      /\ Len(r) = Len(stack[g]) - 1
      /\ \A j \in 1..Len(r) :
            r[j] = IF j < cursor[g] THEN stack[g][j] ELSE stack[g][j + 1]
    BY <1>1, RemoveAtProperties
<1>3. /\ pc[g] = "compact"
      /\ \/ /\ stack[g][cursor[g]] \in ended
            /\ stack' = [stack EXCEPT ![g] = r]
            /\ n' = [n EXCEPT ![g] = @ - 1]
         \/ /\ stack[g][cursor[g]] \notin ended
            /\ UNCHANGED <<stack, n>>
      /\ cursor' = [cursor EXCEPT ![g] = @ - 1]
      /\ UNCHANGED <<pc, arg, child, hasTC, lcs, sharedVars, phase, found, parent, historyVars>>
    BY DEF CompactStep
<1> HIDE DEF r
<1>4. TypeOK'
  <2>1. stack' \in [Goroutines -> Seq(Spans)] /\ n' \in [Goroutines -> Int]
    <3>1. stack \in [Goroutines -> Seq(Spans)] /\ n \in [Goroutines -> Int]
      BY DEF IInv, TypeOK
    <3>2. stack' \in [Goroutines -> Seq(Spans)]
      BY <1>2, <1>3, <3>1
    <3>3. n' \in [Goroutines -> Int]
      BY <1>3, <3>1
    <3>4. QED
      BY <3>2, <3>3
  <2>2. cursor' \in [Goroutines -> Nat]
    BY <1>1, <1>3 DEF IInv, TypeOK
  <2>3. QED
    BY <1>3, <2>1, <2>2 DEF IInv, TypeOK, sharedVars, historyVars
<1>5. ArgInv'
    BY <1>1, <1>2, <1>3, GLSAssumption DEF IInv, TypeOK, ArgInv, sharedVars,
                                           historyVars, CreatingPc
<1>6. ForkInv'
    BY <1>1, <1>2, <1>3, GLSAssumption DEF IInv, TypeOK, ForkInv, sharedVars,
                                           historyVars
<1>7. FlagInv'
  <2>1. ASSUME NEW h \in Goroutines, NEW i \in 1..Len(stack'[h])
        PROVE  stack'[h][i] \in ended \cup states
    <3>1. CASE h = g /\ stack' # stack
      <4>1. \E j \in 1..Len(stack[g]) : stack'[h][i] = stack[g][j]
        <5>1. stack'[h] = r
          BY <1>3, <3>1 DEF IInv, TypeOK
        <5>2. i \in 1..Len(stack[g]) /\ i + 1 \in 1..Len(stack[g])
          BY <1>1, <1>2, <5>1
        <5>3. r[i] = stack[g][i] \/ r[i] = stack[g][i + 1]
          BY <1>2, <5>1
        <5>4. QED
          BY <5>1, <5>2, <5>3
      <4>2. QED
        BY <4>1 DEF IInv, FlagInv
    <3>2. CASE h # g \/ stack' = stack
      BY <1>3, <3>2 DEF IInv, TypeOK, FlagInv
    <3>3. QED
      BY <3>1, <3>2
  <2>2. QED
    BY <1>3, <2>1 DEF IInv, FlagInv, sharedVars
<1>8. OrderInv'
    BY <1>1, <1>2, <1>3, GLSAssumption DEF IInv, TypeOK, OrderInv, sharedVars,
                                           historyVars
<1>9. CountInv'
  <2>1. ASSUME NEW h \in Goroutines
        PROVE  /\ n'[h] = Len(stack'[h])
               /\ n'[h] <= MaxSpans
               /\ pc'[h] = "track" => n'[h] < MaxSpans
    <3>1. CASE h = g
      <4>1. \/ stack'[h] = r /\ n'[h] = n[g] - 1
            \/ stack'[h] = stack[g] /\ n'[h] = n[g]
        BY <1>3, <3>1 DEF IInv, TypeOK
      <4>2. QED
        BY <1>1, <1>2, <1>3, <3>1, <4>1, GLSAssumption
    <3>2. CASE h # g
      BY <1>3, <3>2 DEF IInv, TypeOK, CountInv
    <3>3. QED
      BY <3>1, <3>2
  <2>2. QED
    BY <2>1 DEF CountInv
<1>10. CompactInv'
  <2>1. ASSUME NEW h \in Goroutines, pc'[h] = "compact"
        PROVE  /\ cursor'[h] <= Len(stack'[h])
               /\ \/ crowded'[h]
                  \/ n'[h] < MaxSpans
                  \/ \E i \in 1..cursor'[h] : stack'[h][i] \in ended'
    <3>1. CASE h # g
      BY <1>3, <2>1, <3>1 DEF IInv, TypeOK, CompactInv, sharedVars, historyVars
    <3>2. CASE h = g /\ stack[g][cursor[g]] \in ended
      <4>1. /\ cursor'[h] = cursor[g] - 1
            /\ stack'[h] = r
            /\ n'[h] = n[g] - 1
        BY <1>3, <3>2 DEF IInv, TypeOK
      <4>2. QED
        BY <1>1, <1>2, <4>1, GLSAssumption
    <3>3. CASE h = g /\ stack[g][cursor[g]] \notin ended
      <4>1. /\ cursor'[h] = cursor[g] - 1
            /\ stack'[h] = stack[g]
            /\ n'[h] = n[g]
            /\ crowded'[h] = crowded[g]
            /\ ended' = ended
        BY <1>3, <3>3 DEF IInv, TypeOK, sharedVars, historyVars
      <4>2. \A i \in 1..cursor[g] : stack[g][i] \in ended => i \in 1..(cursor[g] - 1)
        BY <1>1, <3>3
      <4>3. QED
        BY <1>1, <1>3, <4>1, <4>2 DEF IInv, CompactInv
    <3>4. QED
      BY <3>1, <3>2, <3>3
  <2>2. QED
    BY <2>1 DEF CompactInv
<1>11. LcsInv'
    BY <1>1, <1>2, <1>3, GLSAssumption DEF IInv, TypeOK, LcsInv, sharedVars,
                                           historyVars, CountInv
<1>12. QED
    BY <1>4, <1>5, <1>6, <1>7, <1>8, <1>9, <1>10, <1>11 DEF IInv

\* compact() made room.
LEMMA CompactMadeRoomStep ==
    ASSUME IInv, NEW g \in Goroutines, CompactMadeRoom(g)
    PROVE  IInv'
<1>1. TypeOK'
  <2>1. Bottom(stack[g]) \in Spans \cup {NoSpan}
    <3>1. stack[g] \in Seq(Spans)
      BY DEF IInv, TypeOK
    <3>2. CASE stack[g] = <<>>
      BY <3>2 DEF Bottom, Empty
    <3>3. CASE stack[g] # <<>>
      <4>1. 1 \in 1..Len(stack[g])
        BY <3>1, <3>3
      <4>2. QED
        BY <3>1, <3>3, <4>1 DEF Bottom, Empty
    <3>4. QED
      BY <3>2, <3>3
  <2>2. QED
    BY <2>1 DEF CompactMadeRoom, IInv, TypeOK, ArgInv, CreatingPc, Pc, Phase,
                sharedVars, historyVars
<1>2. ArgInv'
    BY GLSAssumption DEF CompactMadeRoom, IInv, TypeOK, ArgInv, tcVars, sharedVars,
                         historyVars, CreatingPc, TailPc
<1>3. ForkInv'
    BY GLSAssumption DEF CompactMadeRoom, IInv, TypeOK, ForkInv, tcVars, sharedVars,
                         historyVars, TailPc
<1>4. FlagInv'
    BY GLSAssumption DEF CompactMadeRoom, IInv, TypeOK, FlagInv, tcVars, sharedVars,
                         historyVars, Empty
<1>5. OrderInv'
    BY GLSAssumption DEF CompactMadeRoom, IInv, TypeOK, OrderInv, tcVars,
                         sharedVars, historyVars
<1>6. CountInv'
    BY GLSAssumption DEF CompactMadeRoom, IInv, TypeOK, CountInv, tcVars,
                         sharedVars, historyVars, Empty, TailPc
<1>7. CompactInv'
    BY GLSAssumption DEF CompactMadeRoom, IInv, TypeOK, CompactInv, tcVars,
                         sharedVars, historyVars, CountInv, TailPc, Empty
<1>8. LcsInv'
    BY GLSAssumption DEF CompactMadeRoom, IInv, TypeOK, LcsInv, tcVars, sharedVars,
                         historyVars, CountInv, Bottom, Empty, TailLcs, TailPc
<1>9. QED
    BY <1>1, <1>2, <1>3, <1>4, <1>5, <1>6, <1>7, <1>8 DEF IInv

\* add() turns the span away.
LEMMA AddRefusedStep ==
    ASSUME IInv, NEW g \in Goroutines, AddRefused(g)
    PROVE  IInv'
<1>1. TypeOK'
  <2>1. Bottom(stack[g]) \in Spans \cup {NoSpan}
    <3>1. stack[g] \in Seq(Spans)
      BY DEF IInv, TypeOK
    <3>2. CASE stack[g] = <<>>
      BY <3>2 DEF Bottom, Empty
    <3>3. CASE stack[g] # <<>>
      <4>1. 1 \in 1..Len(stack[g])
        BY <3>1, <3>3
      <4>2. QED
        BY <3>1, <3>3, <4>1 DEF Bottom, Empty
    <3>4. QED
      BY <3>2, <3>3
  <2>2. QED
    BY <2>1 DEF AddRefused, IInv, TypeOK, ArgInv, CreatingPc, Pc, Phase, sharedVars,
                historyVars
<1>2. ArgInv'
    BY GLSAssumption DEF AddRefused, IInv, TypeOK, ArgInv, tcVars, sharedVars,
                         historyVars, CreatingPc, TailPc
<1>3. ForkInv'
    BY GLSAssumption DEF AddRefused, IInv, TypeOK, ForkInv, tcVars, sharedVars,
                         historyVars, TailPc
<1>4. FlagInv'
    BY GLSAssumption DEF AddRefused, IInv, TypeOK, FlagInv, tcVars, sharedVars,
                         historyVars, Empty
<1>5. OrderInv'
    BY GLSAssumption DEF AddRefused, IInv, TypeOK, OrderInv, tcVars, sharedVars,
                         historyVars
<1>6. CountInv'
    BY GLSAssumption DEF AddRefused, IInv, TypeOK, CountInv, tcVars, sharedVars,
                         historyVars, Empty, TailPc
<1>7. CompactInv'
    BY GLSAssumption DEF AddRefused, IInv, TypeOK, CompactInv, tcVars, sharedVars,
                         historyVars, CountInv, TailPc, Empty
<1>8. LcsInv'
    BY GLSAssumption DEF AddRefused, IInv, TypeOK, LcsInv, tcVars, sharedVars,
                         historyVars, CountInv, Bottom, Empty, TailLcs, TailPc
<1>9. QED
    BY <1>1, <1>2, <1>3, <1>4, <1>5, <1>6, <1>7, <1>8 DEF IInv

\* stateForSpan() tracks the span, perhaps evicting the oldest, and add() pushes it.
LEMMA AddTrackedStep ==
    ASSUME IInv, NEW g \in Goroutines, AddTracked(g)
    PROVE  IInv'
<1> DEFINE sp == arg[g]
           V == IF MustEvict THEN {Head(order)} ELSE {}
           q == IF MustEvict THEN Tail(order) ELSE order
<1>1. /\ sp \in Spans
      /\ phase[sp] = "creating"
      /\ sp \notin states
      /\ sp \notin ended
      /\ stack[g] \in Seq(Spans)
      /\ Len(stack[g]) \in Nat
      /\ n[g] = Len(stack[g])
      /\ n[g] < MaxSpans
  <2>1. pc[g] = "track"
    BY DEF AddTracked
  <2>2. sp \in Spans /\ phase[sp] = "creating"
    BY <2>1 DEF IInv, ArgInv, CreatingPc
  <2>3. sp \notin states /\ sp \notin ended
    BY <2>2 DEF IInv, FlagInv
  <2>4. stack[g] \in Seq(Spans) /\ n[g] = Len(stack[g]) /\ n[g] < MaxSpans
    BY <2>1 DEF IInv, TypeOK, CountInv
  <2>5. QED
    BY <2>2, <2>3, <2>4
<1>2. /\ order \in Seq(Spans)
      /\ IsInjective(order)
      /\ Range(order) = states
      /\ Cardinality(states) = Len(order)
      /\ Len(order) \in Nat
      /\ Len(order) <= MaxSpanStates
    BY InjectiveLen DEF IInv, TypeOK, OrderInv
<1>3. /\ q \in Seq(Spans)
      /\ IsInjective(q)
      /\ Range(q) = states \ V
      /\ V \subseteq states
      /\ Len(q) \in Nat
      /\ Len(q) < MaxSpanStates
  <2>1. CASE MustEvict
    <3>1. /\ Tail(order) \in Seq(Spans)
          /\ Len(Tail(order)) = Len(order) - 1
          /\ IsInjective(Tail(order))
          /\ Head(order) \in Range(order)
          /\ Range(Tail(order)) = Range(order) \ {Head(order)}
      BY <1>2, <2>1, TailInjective DEF MustEvict, Empty
    <3>2. Len(Tail(order)) \in Nat
      BY <3>1
    <3>3. QED
      BY <1>2, <2>1, <3>1, <3>2, GLSAssumption
  <2>2. CASE ~MustEvict
    <3>1. Len(order) < MaxSpanStates
      <4>1. CASE order = <<>>
        BY <4>1, GLSAssumption
      <4>2. CASE order # <<>>
        BY <1>2, <2>2, <4>2, GLSAssumption DEF MustEvict, Empty
      <4>3. QED
        BY <4>1, <4>2
    <3>2. QED
      BY <1>2, <2>2, <3>1
  <2>3. QED
    BY <2>1, <2>2
<1>4. /\ pc[g] = "track"
      /\ ended' = ended \cup V
      /\ states' = (states \ V) \cup {sp}
      /\ order' = Append(q, sp)
      /\ lcs' = [lcs EXCEPT ![g] = IF n[g] = 0 THEN sp ELSE @]
      /\ stack' = [stack EXCEPT ![g] = Append(@, sp)]
      /\ n' = [n EXCEPT ![g] = @ + 1]
      /\ phase' = [phase EXCEPT ![sp] = "live"]
      /\ crowded' = [crowded EXCEPT ![g] = FALSE]
      /\ arg' = [arg EXCEPT ![g] = NoSpan]
      /\ pc' = [pc EXCEPT ![g] = "run"]
      /\ UNCHANGED <<child, hasTC, cursor, found, parent, past>>
    BY DEF AddTracked
<1>5. /\ Append(stack[g], sp) \in Seq(Spans)
      /\ Len(Append(stack[g], sp)) = Len(stack[g]) + 1
      /\ \A i \in 1..Len(stack[g]) : Append(stack[g], sp)[i] = stack[g][i]
      /\ Append(stack[g], sp)[Len(stack[g]) + 1] = sp
      /\ Append(stack[g], sp) # <<>>
    BY <1>1, AppendProperties
<1>6. birth' \in [Spans -> Nat]
  <2>1. Cardinality({x \in Spans : birth[x] > 0}) \in Nat
    BY GLSAssumption, FS_Subset, FS_CardinalityType
  <2>2. birth' = [birth EXCEPT ![sp] = Cardinality({x \in Spans : birth[x] > 0}) + 1]
    BY DEF AddTracked
  <2>3. QED
    BY <1>1, <2>1, <2>2 DEF IInv, TypeOK
<1>7. order' \in Seq(Spans) /\ OrderInv'
  <2> HIDE DEF sp, V, q
  <2>1. sp \notin Range(q)
    BY <1>1, <1>3
  <2>2. /\ Append(q, sp) \in Seq(Spans)
        /\ Len(Append(q, sp)) = Len(q) + 1
        /\ IsInjective(Append(q, sp))
        /\ Range(Append(q, sp)) = Range(q) \cup {sp}
    BY <1>1, <1>3, <2>1, AppendInjectiveSeq
  <2>3. QED
    BY <1>3, <1>4, <2>2, GLSAssumption DEF OrderInv
<1> HIDE DEF sp, V, q
<1>8. TypeOK'
  <2>1. stack' \in [Goroutines -> Seq(Spans)]
    BY <1>4, <1>5 DEF IInv, TypeOK
  <2>2. n' \in [Goroutines -> Int] /\ lcs' \in [Goroutines -> Spans \cup {NoSpan}]
    BY <1>1, <1>4 DEF IInv, TypeOK
  <2>3. ended' \in SUBSET Spans /\ states' \in SUBSET Spans
    BY <1>1, <1>3, <1>4 DEF IInv, TypeOK
  <2>4. /\ pc' \in [Goroutines -> Pc]
        /\ arg' \in [Goroutines -> Spans \cup {NoSpan}]
        /\ phase' \in [Spans -> Phase]
    BY <1>1, <1>4 DEF IInv, TypeOK, Pc, Phase
  <2>5. crowded' \in [Goroutines -> BOOLEAN]
    BY <1>4 DEF IInv, TypeOK
  <2>6. QED
    BY <1>4, <1>6, <1>7, <2>1, <2>2, <2>3, <2>4, <2>5 DEF IInv, TypeOK
<1>9. ArgInv'
    BY <1>1, <1>4, GLSAssumption DEF IInv, TypeOK, ArgInv, CreatingPc, sp
<1>10. ForkInv'
    BY <1>1, <1>4, GLSAssumption DEF IInv, TypeOK, ForkInv
<1>11. FlagInv'
  <2>1. ASSUME NEW x \in states'
        PROVE  phase'[x] = "live" /\ x \notin ended'
    BY <1>1, <1>3, <1>4 DEF IInv, TypeOK, FlagInv
  <2>2. ASSUME NEW x \in ended'
        PROVE  phase'[x] \in {"live", "done"}
    BY <1>1, <1>3, <1>4 DEF IInv, TypeOK, FlagInv
  <2>3. ASSUME NEW h \in Goroutines, NEW i \in 1..Len(stack'[h])
        PROVE  stack'[h][i] \in ended' \cup states'
    <3>1. \A x \in ended \cup states : x \in ended' \cup states'
      BY <1>4
    <3>2. CASE h = g
      <4>1. stack'[h] = Append(stack[g], sp)
        BY <1>4, <3>2 DEF IInv, TypeOK
      <4>2. i \in 1..Len(stack[g]) \/ i = Len(stack[g]) + 1
        BY <1>1, <1>5, <4>1
      <4>3. CASE i \in 1..Len(stack[g])
        BY <1>5, <3>1, <4>1, <4>3 DEF IInv, FlagInv
      <4>4. CASE i = Len(stack[g]) + 1
        BY <1>4, <1>5, <4>1, <4>4
      <4>5. QED
        BY <4>2, <4>3, <4>4
    <3>3. CASE h # g
      BY <1>4, <3>1, <3>3 DEF IInv, TypeOK, FlagInv
    <3>4. QED
      BY <3>2, <3>3
  <2>4. QED
    BY <2>1, <2>2, <2>3 DEF FlagInv
<1>12. OrderInv'
    BY <1>7
<1>13. CountInv'
  <2>1. ASSUME NEW h \in Goroutines
        PROVE  /\ n'[h] = Len(stack'[h])
               /\ n'[h] <= MaxSpans
               /\ pc'[h] = "track" => n'[h] < MaxSpans
    <3>1. CASE h = g
      <4>1. /\ stack'[h] = Append(stack[g], sp)
            /\ n'[h] = n[g] + 1
            /\ pc'[h] = "run"
        BY <1>4, <3>1 DEF IInv, TypeOK
      <4>2. QED
        BY <1>1, <1>5, <4>1, GLSAssumption
    <3>2. CASE h # g
      BY <1>4, <3>2 DEF IInv, TypeOK, CountInv
    <3>3. QED
      BY <3>1, <3>2
  <2>2. QED
    BY <2>1 DEF CountInv
<1>14. CompactInv'
    BY <1>1, <1>4, GLSAssumption DEF IInv, TypeOK, CompactInv, CountInv
<1>15. LcsInv'
  <2>1. ASSUME NEW h \in Goroutines, pc'[h] # "compact", n'[h] # 0
        PROVE  lcs'[h] \in {NoSpan, Bottom(stack'[h])}
    <3>1. CASE h = g
      <4>1. /\ stack'[h] = Append(stack[g], sp)
            /\ lcs'[h] = IF n[g] = 0 THEN sp ELSE lcs[g]
        BY <1>4, <3>1 DEF IInv, TypeOK
      <4>2. Bottom(stack'[h]) = Append(stack[g], sp)[1]
        BY <1>5, <4>1 DEF Bottom, Empty
      <4>3. CASE n[g] = 0
        BY <1>1, <1>5, <4>1, <4>2, <4>3
      <4>4. CASE n[g] # 0
        <5>1. 1 \in 1..Len(stack[g]) /\ stack[g] # <<>>
          BY <1>1, <4>4
        <5>2. Bottom(stack'[h]) = Bottom(stack[g])
          BY <1>5, <4>2, <5>1 DEF Bottom, Empty
        <5>3. QED
          BY <1>4, <4>1, <4>4, <5>2 DEF IInv, LcsInv
      <4>5. QED
        BY <4>3, <4>4
    <3>2. CASE h # g
      BY <1>4, <2>1, <3>2 DEF IInv, TypeOK, LcsInv
    <3>3. QED
      BY <3>1, <3>2
  <2>2. QED
    BY <2>1 DEF LcsInv
<1>16. QED
    BY <1>8, <1>9, <1>10, <1>11, <1>12, <1>13, <1>14, <1>15 DEF IInv

\* markSpanEnded() flags and forgets a span.
LEMMA MarkSpanEndedStep ==
    ASSUME IInv, NEW g \in Goroutines, NEW s \in Spans, MarkSpanEnded(g, s)
    PROVE  IInv'
<1> DEFINE i == CHOOSE j \in 1..Len(order) : order[j] = s
<1>1. /\ order \in Seq(Spans)
      /\ Len(order) \in Nat
      /\ IsInjective(order)
      /\ Range(order) = states
      /\ Len(order) <= MaxSpanStates
    BY DEF IInv, TypeOK, OrderInv
<1>2. /\ ended' = ended \cup (states \cap {s})
      /\ states' = states \ {s}
      /\ order' \in Seq(Spans)
      /\ IsInjective(order')
      /\ Range(order') = states'
      /\ Len(order') <= MaxSpanStates
  <2>1. CASE s \in states
    <3>1. i \in 1..Len(order) /\ order[i] = s
      BY <1>1, <2>1 DEF Range
    <3>2. /\ ended' = ended \cup {s}
          /\ states' = states \ {s}
          /\ order' = RemoveAt(order, i)
      BY <2>1 DEF MarkSpanEnded
    <3> HIDE DEF i
    <3>3. /\ RemoveAt(order, i) \in Seq(Spans)
          /\ Len(RemoveAt(order, i)) = Len(order) - 1
      BY <1>1, <3>1, RemoveAtProperties
    <3>4. /\ IsInjective(RemoveAt(order, i))
          /\ Range(RemoveAt(order, i)) = Range(order) \ {order[i]}
      BY <1>1, <3>1, RemoveAtInjective
    <3>5. QED
      BY <1>1, <2>1, <3>1, <3>2, <3>3, <3>4, GLSAssumption
  <2>2. CASE s \notin states
    BY <1>1, <2>2 DEF MarkSpanEnded, sharedVars
  <2>3. QED
    BY <2>1, <2>2
<1>3. /\ pc[g] = "run"
      /\ phase[s] \in {"live", "done"}
      /\ phase' = [phase EXCEPT ![s] = "done"]
      /\ UNCHANGED <<child, tcVars, cursor, found, parent, historyVars>>
    BY DEF MarkSpanEnded
<1>4. \/ /\ arg' = [arg EXCEPT ![g] = s]
         /\ pc' = [pc EXCEPT ![g] = "del"]
      \/ UNCHANGED <<arg, pc>>
    BY DEF MarkSpanEnded
<1>5. \A h \in Goroutines :
         \/ pc'[h] = pc[h] /\ arg'[h] = arg[h]
         \/ h = g /\ pc'[h] = "del" /\ arg'[h] = s
    BY <1>4 DEF IInv, TypeOK
<1> HIDE DEF i
<1>6. TypeOK'
  <2>1. pc' \in [Goroutines -> Pc] /\ arg' \in [Goroutines -> Spans \cup {NoSpan}]
    <3>1. CASE UNCHANGED <<arg, pc>>
      BY <3>1 DEF IInv, TypeOK
    <3>2. CASE pc' = [pc EXCEPT ![g] = "del"] /\ arg' = [arg EXCEPT ![g] = s]
      BY <3>2 DEF IInv, TypeOK, Pc
    <3>3. QED
      BY <1>4, <3>1, <3>2
  <2>2. QED
    BY <1>2, <1>3, <2>1 DEF IInv, TypeOK, Phase, tcVars, historyVars
<1>7. ArgInv'
  <2>1. \A h \in Goroutines : pc'[h] \in CreatingPc =>
           pc[h] \in CreatingPc /\ arg'[h] = arg[h]
    BY <1>5 DEF CreatingPc
  <2>2. \A x \in Spans : phase[x] = "creating" => phase'[x] = "creating"
    BY <1>3 DEF IInv, TypeOK
  <2>3. phase'[s] = "done" /\ \A x \in Spans : phase[x] = "done" => phase'[x] = "done"
    BY <1>3 DEF IInv, TypeOK
  <2>4. ASSUME NEW h \in Goroutines, pc'[h] = "del"
        PROVE  arg'[h] \in Spans /\ phase'[arg'[h]] = "done"
    BY <1>5, <2>3, <2>4 DEF IInv, ArgInv
  <2>5. QED
    BY <2>1, <2>2, <2>4 DEF IInv, ArgInv
<1>8. ForkInv'
  <2>1. \A h \in Goroutines : pc'[h] = "forkTail" => pc[h] = "forkTail"
    BY <1>5
  <2>2. \A h \in Goroutines : pc[h] = "spawning" => pc'[h] = "spawning"
    BY <1>3, <1>5
  <2>3. child' = child /\ \A h \in Goroutines : child[h] \in Goroutines
    BY <1>3 DEF IInv, TypeOK
  <2>4. QED
    BY <2>1, <2>2, <2>3 DEF IInv, ForkInv
<1>9. FlagInv'
  <2>1. ASSUME NEW x \in states'
        PROVE  phase'[x] = "live" /\ x \notin ended'
    BY <1>2, <1>3 DEF IInv, TypeOK, FlagInv
  <2>2. ASSUME NEW x \in ended'
        PROVE  phase'[x] \in {"live", "done"}
    BY <1>2, <1>3 DEF IInv, TypeOK, FlagInv
  <2>3. ASSUME NEW h \in Goroutines, NEW j \in 1..Len(stack'[h])
        PROVE  stack'[h][j] \in ended' \cup states'
    BY <1>2, <1>3 DEF IInv, FlagInv, tcVars
  <2>4. QED
    BY <2>1, <2>2, <2>3 DEF FlagInv
<1>10. OrderInv'
    BY <1>2 DEF OrderInv
<1>11. CountInv'
    BY <1>3, <1>5 DEF IInv, CountInv, tcVars
<1>12. CompactInv'
    BY <1>2, <1>3, <1>5 DEF IInv, CompactInv, tcVars, historyVars
<1>13. LcsInv'
    BY <1>3, <1>5 DEF IInv, LcsInv, tcVars
<1>14. QED
    BY <1>6, <1>7, <1>8, <1>9, <1>10, <1>11, <1>12, <1>13 DEF IInv

\* del() finds its span on the goroutine's own stack, or does not.
LEMMA DelStep ==
    ASSUME IInv, NEW g \in Goroutines, Del(g)
    PROVE  IInv'
<1>1. /\ pc[g] = "del"
      /\ arg[g] \in Spans
      /\ phase[arg[g]] = "done"
      /\ arg[g] \notin states
      /\ stack[g] \in Seq(Spans)
      /\ Len(stack[g]) \in Nat
      /\ n[g] = Len(stack[g])
      /\ n[g] <= MaxSpans
  <2>1. pc[g] = "del"
    BY DEF Del
  <2>2. arg[g] \in Spans /\ phase[arg[g]] = "done"
    BY <2>1 DEF IInv, ArgInv
  <2>3. arg[g] \notin states
    BY <2>2 DEF IInv, FlagInv
  <2>4. stack[g] \in Seq(Spans) /\ n[g] = Len(stack[g]) /\ n[g] <= MaxSpans
    BY DEF IInv, TypeOK, CountInv
  <2>5. QED
    BY <2>1, <2>2, <2>3, <2>4
<1>2. /\ arg' = [arg EXCEPT ![g] = NoSpan]
      /\ pc' = [pc EXCEPT ![g] = "run"]
      /\ UNCHANGED <<child, hasTC, cursor, states, order, phase, found, parent, historyVars>>
    BY DEF Del
<1>3. CASE UNCHANGED <<stack, n, lcs, ended>>
  <2>1. TypeOK'
    BY <1>1, <1>2, <1>3 DEF IInv, TypeOK, historyVars, Pc
  <2>2. ArgInv'
    BY <1>1, <1>2, <1>3 DEF IInv, TypeOK, ArgInv, historyVars, CreatingPc
  <2>3. ForkInv'
    BY <1>1, <1>2, <1>3 DEF IInv, TypeOK, ForkInv, historyVars
  <2>4. FlagInv'
    BY <1>1, <1>2, <1>3 DEF IInv, TypeOK, FlagInv, historyVars
  <2>5. OrderInv'
    BY <1>1, <1>2, <1>3 DEF IInv, TypeOK, OrderInv, historyVars
  <2>6. CountInv'
    BY <1>1, <1>2, <1>3 DEF IInv, TypeOK, CountInv, historyVars
  <2>7. CompactInv'
    BY <1>1, <1>2, <1>3 DEF IInv, TypeOK, CompactInv, historyVars, CountInv
  <2>8. LcsInv'
    BY <1>1, <1>2, <1>3 DEF IInv, TypeOK, LcsInv, historyVars, CountInv
  <2>9. QED
    BY <2>1, <2>2, <2>3, <2>4, <2>5, <2>6, <2>7, <2>8 DEF IInv
<1>4. CASE \E i \in 1..Len(stack[g]) :
             /\ IsTopmost(stack[g], i, arg[g])
             /\ ended' = ended \cup {arg[g]}
             /\ stack' = [stack EXCEPT ![g] = RemoveAt(@, i)]
             /\ n' = [n EXCEPT ![g] = @ - 1]
             /\ lcs' = [lcs EXCEPT ![g] =
                           IF i = 1 THEN Bottom(RemoveAt(stack[g], i)) ELSE @]
  <2>1. PICK i \in 1..Len(stack[g]) :
             /\ ended' = ended \cup {arg[g]}
             /\ stack' = [stack EXCEPT ![g] = RemoveAt(@, i)]
             /\ n' = [n EXCEPT ![g] = @ - 1]
             /\ lcs' = [lcs EXCEPT ![g] =
                           IF i = 1 THEN Bottom(RemoveAt(stack[g], i)) ELSE @]
    BY <1>4
  <2> DEFINE r == RemoveAt(stack[g], i)
  <2>2. /\ r \in Seq(Spans)
        /\ Len(r) = Len(stack[g]) - 1
        /\ \A j \in 1..Len(r) : r[j] = IF j < i THEN stack[g][j] ELSE stack[g][j + 1]
    BY <1>1, RemoveAtProperties
  <2>3. TypeOK'
    <3>1. stack' \in [Goroutines -> Seq(Spans)]
      BY <2>1, <2>2 DEF IInv, TypeOK
    <3>2. Bottom(r) \in Spans \cup {NoSpan}
      <4>1. CASE r = <<>>
        BY <4>1 DEF Bottom, Empty
      <4>2. CASE r # <<>>
        <5>1. 1 \in 1..Len(r)
          BY <2>2, <4>2
        <5>2. QED
          BY <2>2, <4>2, <5>1 DEF Bottom, Empty
      <4>3. QED
        BY <4>1, <4>2
    <3>3. lcs' \in [Goroutines -> Spans \cup {NoSpan}] /\ n' \in [Goroutines -> Int]
      BY <2>1, <3>2 DEF IInv, TypeOK
    <3>4. QED
      BY <1>1, <1>2, <2>1, <3>1, <3>3 DEF IInv, TypeOK, Pc, historyVars
  <2>4. ArgInv'
    BY <1>1, <1>2, <2>1 DEF IInv, TypeOK, ArgInv, historyVars, CreatingPc
  <2>5. ForkInv'
    BY <1>1, <1>2, <2>1 DEF IInv, TypeOK, ForkInv, historyVars
  <2>6. FlagInv'
    <3>1. ASSUME NEW x \in states'
          PROVE  phase'[x] = "live" /\ x \notin ended'
      BY <1>1, <1>2, <2>1 DEF IInv, FlagInv
    <3>2. ASSUME NEW x \in ended'
          PROVE  phase'[x] \in {"live", "done"}
      BY <1>1, <1>2, <2>1 DEF IInv, FlagInv
    <3>3. ASSUME NEW h \in Goroutines, NEW k \in 1..Len(stack'[h])
          PROVE  stack'[h][k] \in ended' \cup states'
      <4>1. CASE h = g
        <5>1. stack'[h] = r
          BY <2>1, <4>1 DEF IInv, TypeOK
        <5>2. k \in 1..Len(stack[g]) /\ k + 1 \in 1..Len(stack[g])
          BY <1>1, <2>2, <5>1
        <5>3. r[k] = stack[g][k] \/ r[k] = stack[g][k + 1]
          BY <2>2, <5>1
        <5>4. QED
          <6>1. stack[g][k] \in ended \cup states /\ stack[g][k + 1] \in ended \cup states
            BY <5>2 DEF IInv, FlagInv
          <6>2. ended \subseteq ended' /\ states \subseteq ended' \cup states'
            BY <1>2, <2>1
          <6>3. QED
            BY <5>1, <5>3, <6>1, <6>2
      <4>2. CASE h # g
        <5>1. stack'[h] = stack[h]
          BY <2>1, <4>2 DEF IInv, TypeOK
        <5>2. ended \subseteq ended' /\ states' = states
          BY <1>2, <2>1
        <5>3. stack[h][k] \in ended \cup states
          BY <5>1 DEF IInv, FlagInv
        <5>4. QED
          BY <5>1, <5>2, <5>3
      <4>3. QED
        BY <4>1, <4>2
    <3>4. QED
      BY <3>1, <3>2, <3>3 DEF FlagInv
  <2>7. OrderInv'
    BY <1>1, <1>2, <2>1 DEF IInv, TypeOK, OrderInv, historyVars
  <2>8. CountInv'
    <3>1. ASSUME NEW h \in Goroutines
          PROVE  /\ n'[h] = Len(stack'[h])
                 /\ n'[h] <= MaxSpans
                 /\ pc'[h] = "track" => n'[h] < MaxSpans
      <4>1. CASE h = g
        <5>1. stack'[h] = r /\ n'[h] = n[g] - 1 /\ pc'[h] = "run"
          BY <1>2, <2>1, <4>1 DEF IInv, TypeOK
        <5>2. QED
          BY <1>1, <2>2, <5>1, GLSAssumption
      <4>2. CASE h # g
        BY <1>2, <2>1, <4>2 DEF IInv, TypeOK, CountInv
      <4>3. QED
        BY <4>1, <4>2
    <3>2. QED
      BY <3>1 DEF CountInv
  <2>9. CompactInv'
    <3>1. ASSUME NEW h \in Goroutines, pc'[h] = "compact"
          PROVE  /\ h # g
                 /\ pc[h] = "compact"
                 /\ stack'[h] = stack[h]
                 /\ n'[h] = n[h]
      BY <1>2, <2>1, <3>1 DEF IInv, TypeOK
    <3>2. QED
      BY <1>2, <2>1, <3>1 DEF IInv, CompactInv, historyVars
  <2>10. LcsInv'
    <3>1. ASSUME NEW h \in Goroutines, pc'[h] # "compact", n'[h] # 0
          PROVE  lcs'[h] \in {NoSpan, Bottom(stack'[h])}
      <4>1. CASE h = g
        <5>1. /\ stack'[h] = r
              /\ lcs'[h] = IF i = 1 THEN Bottom(r) ELSE lcs[g]
              /\ n'[h] = n[g] - 1
          BY <2>1, <4>1 DEF IInv, TypeOK
        <5>2. CASE i = 1
          BY <5>1, <5>2
        <5>3. CASE i # 1
          <6>1. 1 \in 1..Len(r) /\ 1 < i
            BY <1>1, <2>1, <2>2, <5>3
          <6>2. r[1] = stack[g][1]
            BY <2>2, <6>1
          <6>3. r # <<>> /\ stack[g] # <<>>
            BY <1>1, <2>1, <2>2, <6>1
          <6>4. Bottom(r) = Bottom(stack[g])
            BY <6>2, <6>3 DEF Bottom, Empty
          <6>5. n[g] # 0
            BY <1>1, <2>1
          <6>6. QED
            BY <1>1, <5>1, <5>3, <6>4, <6>5 DEF IInv, LcsInv
        <5>4. QED
          BY <5>2, <5>3
      <4>2. CASE h # g
        BY <1>2, <2>1, <3>1, <4>2 DEF IInv, TypeOK, LcsInv
      <4>3. QED
        BY <4>1, <4>2
    <3>2. QED
      BY <3>1 DEF LcsInv
  <2>11. QED
    BY <2>3, <2>4, <2>5, <2>6, <2>7, <2>8, <2>9, <2>10 DEF IInv
<1>5. QED
    BY <1>3, <1>4 DEF Del

\* newproc1 without a context to propagate.
LEMMA GoWithoutContextStep ==
    ASSUME IInv, NEW g \in Goroutines, NEW h \in Goroutines, GoWithoutContext(g, h)
    PROVE  IInv'
<1>1. TypeOK'
    BY GLSAssumption DEF GoWithoutContext, IInv, TypeOK, tcVars, sharedVars,
                         historyVars, Pc, TailPc, Phase, Empty, TailLcs, TailResult,
                         TailStops, Bottom
<1>2. ArgInv'
    BY GLSAssumption DEF GoWithoutContext, IInv, TypeOK, ArgInv, tcVars, sharedVars,
                         historyVars, CreatingPc, TailPc
<1>3. ForkInv'
    BY GLSAssumption DEF GoWithoutContext, IInv, TypeOK, ForkInv, tcVars,
                         sharedVars, historyVars, TailPc
<1>4. FlagInv'
    BY GLSAssumption DEF GoWithoutContext, IInv, TypeOK, FlagInv, tcVars,
                         sharedVars, historyVars, Empty
<1>5. OrderInv'
    BY GLSAssumption DEF GoWithoutContext, IInv, TypeOK, OrderInv, tcVars,
                         sharedVars, historyVars
<1>6. CountInv'
    BY GLSAssumption DEF GoWithoutContext, IInv, TypeOK, CountInv, tcVars,
                         sharedVars, historyVars, Empty, TailPc
<1>7. CompactInv'
    BY GLSAssumption DEF GoWithoutContext, IInv, TypeOK, CompactInv, tcVars,
                         sharedVars, historyVars, CountInv, TailPc, Empty
<1>8. LcsInv'
    BY GLSAssumption DEF GoWithoutContext, IInv, TypeOK, LcsInv, tcVars, sharedVars,
                         historyVars, CountInv, Bottom, Empty, TailLcs, TailPc
<1>9. QED
    BY <1>1, <1>2, <1>3, <1>4, <1>5, <1>6, <1>7, <1>8 DEF IInv

\* newproc1 begins to clone the context.
LEMMA GoWithContextStep ==
    ASSUME IInv, NEW g \in Goroutines, NEW h \in Goroutines, GoWithContext(g, h)
    PROVE  IInv'
<1>1. TypeOK'
    BY GLSAssumption DEF GoWithContext, IInv, TypeOK, tcVars, sharedVars,
                         historyVars, Pc, TailPc, Phase, Empty, TailLcs, TailResult,
                         TailStops, Bottom
<1>2. ArgInv'
    BY GLSAssumption, ZenonT(30) DEF GoWithContext, IInv, TypeOK, ArgInv, tcVars, sharedVars,
                         historyVars, CreatingPc, TailPc
<1>3. ForkInv'
    BY GLSAssumption DEF GoWithContext, IInv, TypeOK, ForkInv, tcVars, sharedVars,
                         historyVars, TailPc
<1>4. FlagInv'
    BY GLSAssumption DEF GoWithContext, IInv, TypeOK, FlagInv, tcVars, sharedVars,
                         historyVars, Empty
<1>5. OrderInv'
    BY GLSAssumption DEF GoWithContext, IInv, TypeOK, OrderInv, tcVars, sharedVars,
                         historyVars
<1>6. CountInv'
    BY GLSAssumption DEF GoWithContext, IInv, TypeOK, CountInv, tcVars, sharedVars,
                         historyVars, Empty, TailPc
<1>7. CompactInv'
    BY GLSAssumption DEF GoWithContext, IInv, TypeOK, CompactInv, tcVars,
                         sharedVars, historyVars, CountInv, TailPc, Empty
<1>8. LcsInv'
    BY GLSAssumption DEF GoWithContext, IInv, TypeOK, LcsInv, tcVars, sharedVars,
                         historyVars, CountInv, Bottom, Empty, TailLcs, TailPc
<1>9. QED
    BY <1>1, <1>2, <1>3, <1>4, <1>5, <1>6, <1>7, <1>8 DEF IInv

\* Clone() hands the live top to the new goroutine.
LEMMA CloneReturnStep ==
    ASSUME IInv, NEW g \in Goroutines, CloneReturn(g)
    PROVE  IInv'
<1> DEFINE h == child[g]
           c == IF stack[g] = Empty THEN Empty ELSE <<Last(stack[g])>>
<1>1. /\ c \in Seq(Spans)
      /\ \A i \in 1..Len(c) : c[i] \in ended \cup states
  <2>1. stack[g] \in Seq(Spans)
    BY DEF IInv, TypeOK
  <2>2. CASE stack[g] = <<>>
    <3>1. c = <<>>
      BY <2>2 DEF Empty
    <3> HIDE DEF c
    <3>2. QED
      BY <3>1
  <2>3. CASE stack[g] # <<>>
    <3>1. Last(stack[g]) \in Spans /\ Len(stack[g]) \in 1..Len(stack[g])
      BY <2>1, <2>3, FrontProperties
    <3>2. Last(stack[g]) \in ended \cup states
      BY <3>1 DEF Last, IInv, FlagInv
    <3>3. c = <<Last(stack[g])>>
      BY <2>3 DEF Empty
    <3> HIDE DEF c
    <3>4. c \in Seq(Spans) /\ Len(c) = 1 /\ c[1] = Last(stack[g])
      BY <3>1, <3>3
    <3>5. \A i \in 1..Len(c) : i = 1
      BY <3>4
    <3>6. QED
      BY <3>2, <3>4, <3>5
  <2>4. QED
    BY <2>2, <2>3
<1>2. /\ stack' = [stack EXCEPT ![h] = c]
      /\ lcs' = [lcs EXCEPT ![g] = TailLcs(g), ![h] = NoSpan]
      /\ UNCHANGED <<arg, cursor, sharedVars, phase, found, parent, historyVars>>
    BY DEF CloneReturn
<1>3. h \in Goroutines
    BY DEF IInv, TypeOK
<1>4. TypeOK'
  <2>1. stack' \in [Goroutines -> Seq(Spans)]
    BY <1>1, <1>2, <1>3 DEF IInv, TypeOK
  <2>2. lcs' \in [Goroutines -> Spans \cup {NoSpan}]
    BY <1>2 DEF IInv, TypeOK, TailLcs
  <2>3. n' \in [Goroutines -> Int]
    BY DEF CloneReturn, IInv, TypeOK
  <2>4. /\ pc' \in [Goroutines -> Pc]
        /\ child' \in [Goroutines -> Goroutines]
        /\ hasTC' \in [Goroutines -> BOOLEAN]
    BY DEF CloneReturn, IInv, TypeOK, Pc
  <2>5. QED
    BY <1>2, <2>1, <2>2, <2>3, <2>4 DEF IInv, TypeOK, sharedVars, historyVars
<1>5. ArgInv'
  <2>1. pc' = [pc EXCEPT ![g] = "run", ![h] = "run"] /\ arg' = arg /\ phase' = phase
    BY <1>2 DEF CloneReturn
  <2>2. pc \in [Goroutines -> Pc]
    BY DEF IInv, TypeOK
  <2>3. \A k \in Goroutines :
            /\ pc'[k] \in CreatingPc => pc[k] \in CreatingPc
            /\ pc'[k] = "del" => pc[k] = "del"
    BY <1>3, <2>1, <2>2 DEF CreatingPc
  <2>4. ArgInv
    BY DEF IInv
  <2>5. QED
    BY <2>1, <2>3, <2>4 DEF ArgInv
<1>6. ForkInv'
    BY GLSAssumption DEF CloneReturn, IInv, TypeOK, ForkInv, tcVars, sharedVars,
                         historyVars, TailPc
<1>7. FlagInv'
  <2>1. ASSUME NEW k \in Goroutines, NEW i \in 1..Len(stack'[k])
        PROVE  stack'[k][i] \in ended \cup states
    <3>1. CASE k = h
      <4>1. stack'[k] = c
        BY <1>2, <1>3, <3>1 DEF IInv, TypeOK
      <4>2. QED
        BY <1>1, <4>1
    <3>2. CASE k # h
      BY <1>2, <3>2 DEF IInv, TypeOK, FlagInv
    <3>3. QED
      BY <3>1, <3>2
  <2>2. QED
    BY <1>2, <2>1 DEF IInv, FlagInv, sharedVars
<1>8. OrderInv'
    BY GLSAssumption DEF CloneReturn, IInv, TypeOK, OrderInv, tcVars, sharedVars,
                         historyVars
<1>9. CountInv'
    BY GLSAssumption DEF CloneReturn, IInv, TypeOK, CountInv, tcVars, sharedVars,
                         historyVars, Empty, TailPc
<1>10. CompactInv'
    BY GLSAssumption DEF CloneReturn, IInv, TypeOK, CompactInv, tcVars, sharedVars,
                         historyVars, CountInv, TailPc, Empty
<1>11. LcsInv'
    BY GLSAssumption DEF CloneReturn, IInv, TypeOK, LcsInv, tcVars, sharedVars,
                         historyVars, CountInv, Bottom, Empty, TailLcs, TailPc
<1>12. QED
    BY <1>4, <1>5, <1>6, <1>7, <1>8, <1>9, <1>10, <1>11 DEF IInv

\* A goroutine returns.
LEMMA ExitStep ==
    ASSUME IInv, NEW g \in Goroutines, Exit(g)
    PROVE  IInv'
<1>1. TypeOK'
    BY GLSAssumption DEF Exit, IInv, TypeOK, tcVars, sharedVars, historyVars, Pc,
                         TailPc, Phase, Empty, TailLcs, TailResult, TailStops,
                         Bottom
<1>2. ArgInv'
    BY GLSAssumption DEF Exit, IInv, TypeOK, ArgInv, tcVars, sharedVars,
                         historyVars, CreatingPc, TailPc
<1>3. ForkInv'
    BY GLSAssumption DEF Exit, IInv, TypeOK, ForkInv, tcVars, sharedVars,
                         historyVars, TailPc
<1>4. FlagInv'
    BY GLSAssumption DEF Exit, IInv, TypeOK, FlagInv, tcVars, sharedVars,
                         historyVars, Empty
<1>5. OrderInv'
    BY GLSAssumption DEF Exit, IInv, TypeOK, OrderInv, tcVars, sharedVars,
                         historyVars
<1>6. CountInv'
    BY GLSAssumption DEF Exit, IInv, TypeOK, CountInv, tcVars, sharedVars,
                         historyVars, Empty, TailPc
<1>7. CompactInv'
    BY GLSAssumption DEF Exit, IInv, TypeOK, CompactInv, tcVars, sharedVars,
                         historyVars, CountInv, TailPc, Empty
<1>8. LcsInv'
    BY GLSAssumption DEF Exit, IInv, TypeOK, LcsInv, tcVars, sharedVars,
                         historyVars, CountInv, Bottom, Empty, TailLcs, TailPc
<1>9. QED
    BY <1>1, <1>2, <1>3, <1>4, <1>5, <1>6, <1>7, <1>8 DEF IInv

\* A lookup begins.
LEMMA SpanFromGLSStep ==
    ASSUME IInv, NEW g \in Goroutines, SpanFromGLS(g)
    PROVE  IInv'
<1>1. TypeOK'
    BY GLSAssumption DEF SpanFromGLS, IInv, TypeOK, tcVars, sharedVars, historyVars,
                         Pc, TailPc, Phase, Empty, TailLcs, TailResult, TailStops,
                         Bottom
<1>2. ArgInv'
    BY GLSAssumption DEF SpanFromGLS, IInv, TypeOK, ArgInv, tcVars, sharedVars,
                         historyVars, CreatingPc, TailPc
<1>3. ForkInv'
    BY GLSAssumption DEF SpanFromGLS, IInv, TypeOK, ForkInv, tcVars, sharedVars,
                         historyVars, TailPc
<1>4. FlagInv'
    BY GLSAssumption DEF SpanFromGLS, IInv, TypeOK, FlagInv, tcVars, sharedVars,
                         historyVars, Empty
<1>5. OrderInv'
    BY GLSAssumption DEF SpanFromGLS, IInv, TypeOK, OrderInv, tcVars, sharedVars,
                         historyVars
<1>6. CountInv'
    BY GLSAssumption DEF SpanFromGLS, IInv, TypeOK, CountInv, tcVars, sharedVars,
                         historyVars, Empty, TailPc
<1>7. CompactInv'
    BY GLSAssumption DEF SpanFromGLS, IInv, TypeOK, CompactInv, tcVars, sharedVars,
                         historyVars, CountInv, TailPc, Empty
<1>8. LcsInv'
    BY GLSAssumption DEF SpanFromGLS, IInv, TypeOK, LcsInv, tcVars, sharedVars,
                         historyVars, CountInv, Bottom, Empty, TailLcs, TailPc
<1>9. QED
    BY <1>1, <1>2, <1>3, <1>4, <1>5, <1>6, <1>7, <1>8 DEF IInv

\* A lookup begins, creating the context.
LEMMA GetTraceContextStep ==
    ASSUME IInv, NEW g \in Goroutines, GetTraceContext(g)
    PROVE  IInv'
<1>1. TypeOK'
    BY GLSAssumption DEF GetTraceContext, IInv, TypeOK, tcVars, sharedVars,
                         historyVars, Pc, TailPc, Phase, Empty, TailLcs, TailResult,
                         TailStops, Bottom
<1>2. ArgInv'
    BY GLSAssumption DEF GetTraceContext, IInv, TypeOK, ArgInv, tcVars, sharedVars,
                         historyVars, CreatingPc, TailPc
<1>3. ForkInv'
    BY GLSAssumption DEF GetTraceContext, IInv, TypeOK, ForkInv, tcVars, sharedVars,
                         historyVars, TailPc
<1>4. FlagInv'
    BY GLSAssumption DEF GetTraceContext, IInv, TypeOK, FlagInv, tcVars, sharedVars,
                         historyVars, Empty
<1>5. OrderInv'
    BY GLSAssumption DEF GetTraceContext, IInv, TypeOK, OrderInv, tcVars,
                         sharedVars, historyVars
<1>6. CountInv'
    BY GLSAssumption DEF GetTraceContext, IInv, TypeOK, CountInv, tcVars,
                         sharedVars, historyVars, Empty, TailPc
<1>7. CompactInv'
    BY GLSAssumption DEF GetTraceContext, IInv, TypeOK, CompactInv, tcVars,
                         sharedVars, historyVars, CountInv, TailPc, Empty
<1>8. LcsInv'
    BY GLSAssumption DEF GetTraceContext, IInv, TypeOK, LcsInv, tcVars, sharedVars,
                         historyVars, CountInv, Bottom, Empty, TailLcs, TailPc
<1>9. QED
    BY <1>1, <1>2, <1>3, <1>4, <1>5, <1>6, <1>7, <1>8 DEF IInv

\* A lookup returns.
LEMMA ReadReturnStep ==
    ASSUME IInv, NEW g \in Goroutines, ReadReturn(g)
    PROVE  IInv'
<1>1. TypeOK'
    BY GLSAssumption DEF ReadReturn, IInv, TypeOK, tcVars, sharedVars, historyVars,
                         Pc, TailPc, Phase, Empty, TailLcs, TailResult, TailStops,
                         Bottom
<1>2. ArgInv'
    BY GLSAssumption DEF ReadReturn, IInv, TypeOK, ArgInv, tcVars, sharedVars,
                         historyVars, CreatingPc, TailPc
<1>3. ForkInv'
    BY GLSAssumption DEF ReadReturn, IInv, TypeOK, ForkInv, tcVars, sharedVars,
                         historyVars, TailPc
<1>4. FlagInv'
    BY GLSAssumption DEF ReadReturn, IInv, TypeOK, FlagInv, tcVars, sharedVars,
                         historyVars, Empty
<1>5. OrderInv'
    BY GLSAssumption DEF ReadReturn, IInv, TypeOK, OrderInv, tcVars, sharedVars,
                         historyVars
<1>6. CountInv'
    BY GLSAssumption DEF ReadReturn, IInv, TypeOK, CountInv, tcVars, sharedVars,
                         historyVars, Empty, TailPc
<1>7. CompactInv'
    BY GLSAssumption DEF ReadReturn, IInv, TypeOK, CompactInv, tcVars, sharedVars,
                         historyVars, CountInv, TailPc, Empty
<1>8. LcsInv'
    BY GLSAssumption DEF ReadReturn, IInv, TypeOK, LcsInv, tcVars, sharedVars,
                         historyVars, CountInv, Bottom, Empty, TailLcs, TailPc
<1>9. QED
    BY <1>1, <1>2, <1>3, <1>4, <1>5, <1>6, <1>7, <1>8 DEF IInv

\* clear() empties the stack.
LEMMA ClearTraceContextStep ==
    ASSUME IInv, NEW g \in Goroutines, ClearTraceContext(g)
    PROVE  IInv'
<1>1. TypeOK'
    BY GLSAssumption DEF ClearTraceContext, IInv, TypeOK, tcVars, sharedVars,
                         historyVars, Pc, TailPc, Phase, Empty, TailLcs, TailResult,
                         TailStops, Bottom
<1>2. ArgInv'
    BY GLSAssumption DEF ClearTraceContext, IInv, TypeOK, ArgInv, tcVars,
                         sharedVars, historyVars, CreatingPc, TailPc
<1>3. ForkInv'
    BY GLSAssumption DEF ClearTraceContext, IInv, TypeOK, ForkInv, tcVars,
                         sharedVars, historyVars, TailPc
<1>4. FlagInv'
    BY GLSAssumption DEF ClearTraceContext, IInv, TypeOK, FlagInv, tcVars,
                         sharedVars, historyVars, Empty
<1>5. OrderInv'
    BY GLSAssumption DEF ClearTraceContext, IInv, TypeOK, OrderInv, tcVars,
                         sharedVars, historyVars
<1>6. CountInv'
    BY GLSAssumption DEF ClearTraceContext, IInv, TypeOK, CountInv, tcVars,
                         sharedVars, historyVars, Empty, TailPc
<1>7. CompactInv'
    BY GLSAssumption DEF ClearTraceContext, IInv, TypeOK, CompactInv, tcVars,
                         sharedVars, historyVars, CountInv, TailPc, Empty
<1>8. LcsInv'
    BY GLSAssumption DEF ClearTraceContext, IInv, TypeOK, LcsInv, tcVars,
                         sharedVars, historyVars, CountInv, Bottom, Empty, TailLcs,
                         TailPc
<1>9. QED
    BY <1>1, <1>2, <1>3, <1>4, <1>5, <1>6, <1>7, <1>8 DEF IInv

\* The invariant holds initially.
LEMMA InitInv == Init => IInv
<1> SUFFICES ASSUME Init PROVE IInv
    OBVIOUS
<1> USE GLSAssumption DEF Init, Empty
<1>1. TypeOK
  <2>1. <<>> \in Seq(Spans)
    OBVIOUS
  <2>2. QED
    BY <2>1 DEF TypeOK, Pc, TailPc, Phase
<1>2. ArgInv
    BY DEF ArgInv, CreatingPc
<1>3. ForkInv
    BY DEF ForkInv
<1>4. FlagInv
    BY DEF FlagInv
<1>5. OrderInv
    BY DEF OrderInv, Range, IsInjective
<1>6. CountInv
    BY DEF CountInv
<1>7. CompactInv
    BY DEF CompactInv
<1>8. LcsInv
    BY DEF LcsInv
<1>9. QED
    BY <1>1, <1>2, <1>3, <1>4, <1>5, <1>6, <1>7, <1>8 DEF IInv

\* Every step preserves the invariant.
LEMMA NextInv == IInv /\ [Next]_vars => IInv'
<1> SUFFICES ASSUME IInv, [Next]_vars PROVE IInv'
    OBVIOUS
<1>1. ASSUME NEW g \in Goroutines, HookStep(g) PROVE IInv'
    BY <1>1, TailPopStep, StartTailReturnStep, StartWithParentStep, AddBeginStep, CompactStepStep,
       CompactMadeRoomStep, AddRefusedStep, AddTrackedStep, DelStep,
       CloneReturnStep, ReadReturnStep
        DEF HookStep
<1>2. ASSUME NEW g \in Goroutines, AppStep(g) PROVE IInv'
    BY <1>2, StartWithContextSpanStep, StartWithoutContextSpanStep,
       MarkSpanEndedStep, GoWithoutContextStep, GoWithContextStep, ExitStep,
       SpanFromGLSStep, GetTraceContextStep, ClearTraceContextStep
        DEF AppStep
<1>3. CASE UNCHANGED vars
  <2>1. UNCHANGED <<pc, arg, child, hasTC, stack, n, lcs, cursor, ended, states, order, phase, found, parent, birth, past, crowded>>
    BY <1>3 DEF vars, tcVars, sharedVars, historyVars
  <2>2. QED
    BY <2>1 DEF IInv, TypeOK, ArgInv, ForkInv, FlagInv, OrderInv, CountInv,
                CompactInv, LcsInv
<1>4. QED
    BY <1>1, <1>2, <1>3 DEF Next

\* The inductive invariant of the span stack.
LEMMA InvariantHolds == Spec => []IInv
    BY InitInv, NextInv, PTL DEF Spec

\* Type correctness of the span stack.
THEOREM TypeCorrect == Spec => []TypeOK
<1>1. IInv => TypeOK
    BY DEF IInv
<1>2. QED
    BY <1>1, InvariantHolds, PTL

\* An End, wherever it runs, is seen by every goroutine: traceContextDelSpan
\* needs to unlink the span from the caller's own stack only.
THEOREM EndIsGlobal == Spec => []EndReachesEveryGoroutine
<1>1. IInv => EndReachesEveryGoroutine
  <2>1. SUFFICES ASSUME IInv, NEW s \in Spans, NEW g \in Goroutines, phase[s] = "done",
                        s \in Range(stack[g])
                 PROVE  s \in ended
    BY DEF EndReachesEveryGoroutine, LiveEntries
  <2>2. stack[g] \in Seq(Spans)
    BY <2>1 DEF IInv, TypeOK
  <2>3. PICK i \in 1..Len(stack[g]) : s = stack[g][i]
    BY <2>1, <2>2 DEF Range
  <2>4. FlagInv
    BY <2>1 DEF IInv
  <2>5. QED
    BY <2>1, <2>3, <2>4 DEF FlagInv
<1>2. QED
    BY <1>1, InvariantHolds, PTL

\* spanStates stays consistent and bounded, and every entry a lookup may
\* return is still tracked there.
THEOREM SpanStatesSafe == Spec => []SpanStatesConsistent
<1>1. IInv => SpanStatesConsistent
  <2> SUFFICES ASSUME IInv PROVE SpanStatesConsistent
    OBVIOUS
  <2>1. ASSUME NEW g \in Goroutines, NEW s \in LiveEntries(g) PROVE s \in states
    <3>1. s \in Range(stack[g]) /\ s \notin ended
      BY DEF LiveEntries
    <3>2. PICK i \in 1..Len(stack[g]) : s = stack[g][i]
      BY <3>1 DEF Range, IInv, TypeOK
    <3>3. QED
      BY <3>1, <3>2 DEF IInv, FlagInv
  <2>2. QED
    BY <2>1 DEF SpanStatesConsistent, IInv, OrderInv
<1>2. QED
    BY <1>1, InvariantHolds, PTL

\* tc.n counts the chain and stays within otelGLSMaxSpans.
THEOREM CountCorrect == Spec => []CountMatchesChain
<1>1. IInv => CountMatchesChain
    BY DEF IInv, CountInv, CountMatchesChain
<1>2. QED
    BY <1>1, InvariantHolds, PTL

\* localRootSpan() never names a span that has left the chain.
THEOREM LocalRootCorrect == Spec => []LocalRootIsBottom
<1>1. IInv => LocalRootIsBottom
    BY DEF IInv, LcsInv, LocalRootIsBottom, localRootSpan
<1>2. QED
    BY <1>1, InvariantHolds, PTL

\* add() refuses a span only to a goroutine that held MaxSpans live ones.
THEOREM RefusalJustified == Spec => []RefusedOnlyWhenCrowded
<1>1. IInv => RefusedOnlyWhenCrowded
  <2> SUFFICES ASSUME IInv, NEW g \in Goroutines,
                      pc[g] = "compact", cursor[g] = 0, n[g] >= MaxSpans
               PROVE  crowded[g]
    BY DEF RefusedOnlyWhenCrowded
  <2>1. ~(n[g] < MaxSpans)
    BY GLSAssumption DEF IInv, TypeOK
  <2>2. ~\E i \in 1..cursor[g] : stack[g][i] \in ended
    OBVIOUS
  <2>3. QED
    BY <2>1, <2>2 DEF IInv, CompactInv
<1>2. QED
    BY <1>1, InvariantHolds, PTL

-----------------------------------------------------------------------------
(* The history: what the refinement rests on besides IInv.                  *)

\* The spans that have been tracked.
Born == {s \in Spans : birth[s] > 0}

\* A span that is being created has not been tracked; what is tracked or flagged has.
BirthInv ==
    /\ \A s \in Spans : birth[s] <= Cardinality(Born)
    /\ \A s \in Born : phase[s] \in {"live", "done"}
    /\ states \cup ended \subseteq Born

\* The spans of seq were tracked one after the other, by the history b.
Ascending(b, seq) == \A i, j \in 1..Len(seq) : i < j => b[seq[i]] < b[seq[j]]

\* Unlinking never changes the order of a stack or of the eviction list.
AgeInv == (\A g \in Goroutines : Ascending(birth, stack[g])) /\ Ascending(birth, order)

\* A goroutine without a context has no stack, and none is at capacity outside add().
ContextInv ==
    /\ \A g \in Goroutines : ~hasTC[g] => stack[g] = <<>>
    /\ \A g \in Goroutines : pc[g] \in {"compact", "track"} => hasTC[g]
    /\ \A g \in Goroutines : crowded[g] => pc[g] \in {"compact", "track"}
    /\ \A s \in Spans : phase[s] = "unborn" => found[s] = NoSpan

HistoryInv == BirthInv /\ AgeInv /\ ContextInv

\* Where the elements of a sequence were before some of it was cut off or unlinked.
LEMMA Shifted ==
    ASSUME NEW N \in Nat, NEW M \in Nat, NEW d \in Nat, M + d <= N,
           NEW j \in 1..M, NEW k \in 1..M, j < k
    PROVE  j + d \in 1..N /\ k + d \in 1..N /\ j + d < k + d
OBVIOUS

LEMMA Grown ==
    ASSUME NEW N \in Nat, NEW j \in 1..(N + 1), NEW k \in 1..(N + 1), j < k
    PROVE  j \in 1..N /\ (k \in 1..N \/ k = N + 1)
OBVIOUS

\* The part of a sequence below an index, or all but its first element.
LEMMA AscendingPart ==
    ASSUME NEW b \in [Spans -> Nat], NEW seq \in Seq(Spans), NEW r \in Seq(Spans), NEW d \in Nat,
           Len(r) + d <= Len(seq), \A j \in 1..Len(r) : r[j] = seq[j + d],
           Ascending(b, seq)
    PROVE  Ascending(b, r)
<1>1. Len(seq) \in Nat /\ Len(r) \in Nat
    BY LenProperties
<1>2. SUFFICES ASSUME NEW j \in 1..Len(r), NEW k \in 1..Len(r), j < k
               PROVE  b[r[j]] < b[r[k]]
    BY <1>1 DEF Ascending
<1>3. j + d \in 1..Len(seq) /\ k + d \in 1..Len(seq) /\ j + d < k + d
    BY <1>1, <1>2, Shifted
<1>4. QED
    BY <1>3 DEF Ascending

LEMMA AscendingRemove ==
    ASSUME NEW b \in [Spans -> Nat], NEW seq \in Seq(Spans), NEW i \in 1..Len(seq),
           Ascending(b, seq)
    PROVE  Ascending(b, RemoveAt(seq, i))
<1>1. PICK r : r = RemoveAt(seq, i)
    OBVIOUS
<1>2. /\ r \in Seq(Spans) /\ Len(r) = Len(seq) - 1
      /\ \A j \in 1..(Len(seq) - 1) : r[j] = IF j < i THEN seq[j] ELSE seq[j + 1]
    BY <1>1, RemoveAtProperties
<1>3. Len(seq) \in Nat /\ Len(r) \in Nat
    BY <1>2, LenProperties
<1>4. SUFFICES ASSUME NEW j \in 1..Len(r), NEW k \in 1..Len(r), j < k
               PROVE  b[r[j]] < b[r[k]]
    BY <1>1, <1>2, <1>3 DEF Ascending
<1>5. PICK p, q : p = (IF j < i THEN j ELSE j + 1) /\ q = (IF k < i THEN k ELSE k + 1)
    OBVIOUS
<1>6. p \in 1..Len(seq) /\ q \in 1..Len(seq) /\ p < q
    <2>1. PICK N \in Nat : N = Len(seq)
        BY <1>3
    <2>2. i \in 1..N /\ j \in 1..(N - 1) /\ k \in 1..(N - 1) /\ j < k
        BY <1>2, <1>4, <2>1
    <2>3. p \in 1..N /\ q \in 1..N /\ p < q
        BY <1>5, <2>2
    <2>4. QED
        BY <2>1, <2>3
<1>7. r[j] = seq[p] /\ r[k] = seq[q]
    BY <1>2, <1>5
<1>8. QED
    BY <1>6, <1>7 DEF Ascending

\* A span that was tracked after all the others goes to the end.
LEMMA AscendingAppend ==
    ASSUME NEW b \in [Spans -> Nat], NEW c \in [Spans -> Nat], NEW seq \in Seq(Spans),
           NEW s \in Spans, Ascending(b, seq),
           \A i \in 1..Len(seq) : c[seq[i]] = b[seq[i]] /\ b[seq[i]] < c[s]
    PROVE  Ascending(c, Append(seq, s))
<1>1. PICK a : a = Append(seq, s)
    OBVIOUS
<1>2. /\ a \in Seq(Spans) /\ Len(a) = Len(seq) + 1 /\ Len(seq) \in Nat
      /\ \A i \in 1..Len(seq) : a[i] = seq[i]
      /\ a[Len(seq) + 1] = s
    BY <1>1, AppendProperties
<1>3. SUFFICES ASSUME NEW j \in 1..Len(a), NEW k \in 1..Len(a), j < k
               PROVE  c[a[j]] < c[a[k]]
    BY <1>1, <1>2 DEF Ascending
<1>4. j \in 1..Len(seq) /\ (k \in 1..Len(seq) \/ k = Len(seq) + 1)
  <2>1. Len(seq) \in Nat /\ j \in 1..(Len(seq) + 1) /\ k \in 1..(Len(seq) + 1)
    BY <1>2
  <2>2. QED
    BY <1>3, <2>1, Grown
<1>5. CASE k = Len(seq) + 1
    BY <1>2, <1>4, <1>5
<1>6. CASE k \in 1..Len(seq)
  <2>1. b[seq[j]] < b[seq[k]]
    BY <1>3, <1>4, <1>6 DEF Ascending
  <2>2. QED
    BY <1>2, <1>4, <1>6, <2>1
<1>7. QED
    BY <1>4, <1>5, <1>6

\* Nothing is tracked in the step, and no span that was goes back.
LEMMA BirthKept ==
    ASSUME TypeOK, BirthInv, birth' = birth, states' \cup ended' \subseteq states \cup ended,
           \A s \in Spans : phase[s] \in {"live", "done"} => phase'[s] \in {"live", "done"}
    PROVE  BirthInv'
<1>1. Born' = Born
    BY DEF Born
<1>2. QED
    BY <1>1 DEF BirthInv, Born

\* One stack is replaced, and the eviction list stays or loses elements.
LEMMA AgeKept ==
    ASSUME TypeOK, AgeInv, birth' = birth, Ascending(birth, order'),
           NEW g \in Goroutines, NEW c \in Seq(Spans), Ascending(birth, c),
           stack' = [stack EXCEPT ![g] = c]
    PROVE  AgeInv'
<1>1. ASSUME NEW h \in Goroutines PROVE Ascending(birth, stack'[h])
  <2>1. stack'[h] = c \/ stack'[h] = stack[h]
    BY DEF TypeOK
  <2>2. QED
    BY <2>1 DEF AgeInv
<1>2. QED
    BY <1>1 DEF AgeInv

LEMMA AgeUnchanged ==
    ASSUME AgeInv, UNCHANGED <<birth, stack, order>>
    PROVE  AgeInv'
BY DEF AgeInv

\* A span starts.
LEMMA StartsHistory ==
    ASSUME IInv, HistoryInv, NEW g \in Goroutines, NEW s \in Spans,
           StartWithContextSpan(g, s) \/ StartWithoutContextSpan(g, s)
    PROVE  HistoryInv'
<1>1. /\ pc[g] = "run" /\ phase[s] = "unborn" /\ phase' = [phase EXCEPT ![s] = "creating"]
      /\ found' = found \/ found' = [found EXCEPT ![s] = CtxSpan]
      /\ \E a \in {"add", "startTail"} : pc' = [pc EXCEPT ![g] = a]
      /\ UNCHANGED <<hasTC, stack, ended, states, order, birth, crowded>>
    BY DEF StartWithContextSpan, StartWithoutContextSpan, tcVars, sharedVars, historyVars
<1>2. TypeOK /\ BirthInv /\ AgeInv /\ ContextInv
    BY DEF IInv, HistoryInv
<1>3. \A x \in Spans : phase[x] \in {"live", "done"} => phase'[x] \in {"live", "done"}
    BY <1>1, <1>2 DEF TypeOK
<1>4. BirthInv' /\ AgeInv'
    BY <1>1, <1>2, <1>3, BirthKept, AgeUnchanged
<1>5. ContextInv'
    BY <1>1, <1>2 DEF TypeOK, ContextInv
<1>6. QED
    BY <1>4, <1>5 DEF HistoryInv

\* tail() unlinks an ended top.
LEMMA TailPopHistory ==
    ASSUME IInv, HistoryInv, NEW g \in Goroutines, TailPop(g)
    PROVE  HistoryInv'
<1>1. /\ stack[g] \in Seq(Spans) /\ stack[g] # <<>>
      /\ stack' = [stack EXCEPT ![g] = Front(stack[g])]
      /\ UNCHANGED <<pc, hasTC, ended, states, order, phase, found, birth, crowded>>
    BY DEF TailPop, sharedVars, historyVars, Empty, IInv, TypeOK
<1>2. TypeOK /\ BirthInv /\ AgeInv /\ ContextInv /\ birth \in [Spans -> Nat]
    BY DEF IInv, TypeOK, HistoryInv
<1>3. PICK f : f = Front(stack[g])
    OBVIOUS
<1>4. /\ f \in Seq(Spans) /\ Len(f) = Len(stack[g]) - 1 /\ Len(stack[g]) \in Nat
      /\ \A j \in 1..Len(f) : f[j] = stack[g][j]
    BY <1>1, <1>3, FrontProperties
<1>5. Ascending(birth, f)
  <2>1. Len(f) + 0 <= Len(stack[g]) /\ \A j \in 1..Len(f) : f[j] = stack[g][j + 0]
    BY <1>4
  <2>2. Ascending(birth, stack[g])
    BY <1>2 DEF AgeInv
  <2>3. QED
    BY <1>1, <1>2, <1>4, <2>1, <2>2, AscendingPart
<1>6. Ascending(birth, order')
    BY <1>1, <1>2 DEF AgeInv
<1>7. BirthInv' /\ AgeInv'
    BY <1>1, <1>2, <1>3, <1>4, <1>5, <1>6, BirthKept, AgeKept
<1>8. ContextInv'
    BY <1>1, <1>2 DEF TypeOK, ContextInv
<1>9. QED
    BY <1>7, <1>8 DEF HistoryInv

\* The steps of a hook that leave the stacks and the shared state alone.
LEMMA LocalHistory ==
    ASSUME IInv, HistoryInv, NEW g \in Goroutines,
           \/ StartTailReturn(g) \/ StartWithParent(g) \/ AddBegin(g)
           \/ CompactMadeRoom(g) \/ AddRefused(g)
           \/ Exit(g) \/ SpanFromGLS(g) \/ GetTraceContext(g) \/ ReadReturn(g)
           \/ \E h \in Goroutines : GoWithContext(g, h)
    PROVE  HistoryInv'
<1>1. TypeOK /\ ArgInv /\ BirthInv /\ AgeInv /\ ContextInv
    BY DEF IInv, HistoryInv
<1>2. UNCHANGED <<stack, ended, states, order, birth>>
    BY DEF StartTailReturn, StartWithParent, AddBegin, CompactMadeRoom, AddRefused, Exit, SpanFromGLS,
           GetTraceContext, ReadReturn, GoWithContext, tcVars, sharedVars, historyVars
<1>3. phase' = phase \/ (AddRefused(g) /\ phase' = [phase EXCEPT ![arg[g]] = "live"])
    BY DEF StartTailReturn, StartWithParent, AddBegin, CompactMadeRoom, AddRefused, Exit, SpanFromGLS,
           GetTraceContext, ReadReturn, GoWithContext
<1>4. \A x \in Spans : phase[x] \in {"live", "done"} => phase'[x] \in {"live", "done"}
    BY <1>1, <1>3 DEF TypeOK
<1>5. BirthInv' /\ AgeInv'
    BY <1>1, <1>2, <1>4, BirthKept, AgeUnchanged
<1>6. ContextInv'
  <2>1. ASSUME NEW h \in Goroutines, ~hasTC'[h] PROVE stack'[h] = <<>>
    <3>1. hasTC' = hasTC \/ hasTC' = [hasTC EXCEPT ![g] = TRUE]
      BY DEF StartTailReturn, StartWithParent, AddBegin, CompactMadeRoom, AddRefused, Exit, SpanFromGLS,
             GetTraceContext, ReadReturn, GoWithContext, tcVars
    <3>2. ~hasTC[h]
      BY <1>1, <2>1, <3>1 DEF TypeOK
    <3>3. QED
      BY <1>1, <1>2, <3>2 DEF ContextInv
  <2>2. ASSUME NEW h \in Goroutines
        PROVE  /\ pc'[h] \in {"compact", "track"} => hasTC'[h]
               /\ crowded'[h] => pc'[h] \in {"compact", "track"}
    <3>1. CASE AddBegin(g)
      <4>1. /\ hasTC' = [hasTC EXCEPT ![g] = TRUE]
            /\ \E a \in {"compact", "track"} : pc' = [pc EXCEPT ![g] = a]
            /\ \A k \in Goroutines : k # g => crowded'[k] = crowded[k]
        BY <1>1, <3>1 DEF AddBegin, TypeOK
      <4>2. QED
        BY <1>1, <4>1 DEF TypeOK, ContextInv
    <3>2. CASE AddRefused(g)
      BY <1>1, <3>2 DEF AddRefused, TypeOK, ContextInv
    <3>3. CASE CompactMadeRoom(g)
      BY <1>1, <3>3 DEF CompactMadeRoom, TypeOK, ContextInv, historyVars
    <3>4. CASE ~(AddBegin(g) \/ AddRefused(g) \/ CompactMadeRoom(g))
      <4>1. /\ crowded' = crowded
            /\ pc'[h] \in {"compact", "track"} <=> pc[h] \in {"compact", "track"}
            /\ hasTC[h] => hasTC'[h]
        <5>1. /\ crowded' = crowded
              /\ hasTC' = hasTC \/ hasTC' = [hasTC EXCEPT ![g] = TRUE]
          BY <3>4 DEF StartTailReturn, StartWithParent, Exit, SpanFromGLS, GetTraceContext, ReadReturn,
                      GoWithContext, tcVars, historyVars
        <5>2. hasTC[h] => hasTC'[h]
          BY <1>1, <5>1 DEF TypeOK
        <5>3. pc'[h] \in {"compact", "track"} <=> pc[h] \in {"compact", "track"}
          <6>1. CASE \E k \in Goroutines : GoWithContext(g, k)
            <7>1. PICK k \in Goroutines : GoWithContext(g, k)
              BY <6>1
            <7>2. /\ pc[g] = "run" /\ pc[k] = "absent"
                  /\ pc' = [pc EXCEPT ![g] = "forkTail", ![k] = "spawning"]
              BY <7>1 DEF GoWithContext
            <7>3. QED
              BY <1>1, <7>2 DEF TypeOK
          <6>2. CASE ~\E k \in Goroutines : GoWithContext(g, k)
            <7>1. /\ pc[g] \in {"startTail", "startUse", "run", "readTail"}
                  /\ \E a \in {"startUse", "add", "absent", "readTail", "run"} : pc' = [pc EXCEPT ![g] = a]
              BY <3>4, <6>2 DEF StartTailReturn, StartWithParent, Exit, SpanFromGLS, GetTraceContext, ReadReturn
            <7>2. QED
              BY <1>1, <7>1 DEF TypeOK
          <6>3. QED
            BY <6>1, <6>2
        <5>4. QED
          BY <5>1, <5>2, <5>3
      <4>2. QED
        BY <1>1, <4>1 DEF ContextInv
    <3>5. QED
      BY <3>1, <3>2, <3>3, <3>4
  <2>3. ASSUME NEW s \in Spans, phase'[s] = "unborn" PROVE found'[s] = NoSpan
    <3>1. phase[s] = "unborn"
      BY <1>1, <1>3, <2>3 DEF TypeOK
    <3>2. found'[s] = found[s]
      <4>1. CASE StartTailReturn(g)
        <5>1. arg[g] # s
          BY <1>1, <3>1, <4>1 DEF StartTailReturn, ArgInv, CreatingPc
        <5>2. QED
          BY <1>1, <4>1, <5>1 DEF StartTailReturn, TypeOK
      <4>2. CASE ~StartTailReturn(g)
        BY <4>2 DEF StartWithParent, AddBegin, CompactMadeRoom, AddRefused, Exit, SpanFromGLS,
                    GetTraceContext, ReadReturn, GoWithContext
      <4>3. QED
        BY <4>1, <4>2
    <3>3. QED
      BY <1>1, <3>1, <3>2 DEF ContextInv
  <2>4. QED
    BY <2>1, <2>2, <2>3 DEF ContextInv
<1>7. QED
    BY <1>5, <1>6 DEF HistoryInv

\* compact() passes one entry.
LEMMA CompactStepHistory ==
    ASSUME IInv, HistoryInv, NEW g \in Goroutines, CompactStep(g)
    PROVE  HistoryInv'
<1>1. /\ stack[g] \in Seq(Spans) /\ cursor[g] \in 1..Len(stack[g])
      /\ \/ stack' = [stack EXCEPT ![g] = RemoveAt(stack[g], cursor[g])]
         \/ stack' = stack
      /\ UNCHANGED <<pc, hasTC, ended, states, order, phase, found, birth, crowded>>
    BY DEF CompactStep, IInv, TypeOK, CompactInv, sharedVars, historyVars
<1>2. TypeOK /\ BirthInv /\ AgeInv /\ ContextInv /\ birth \in [Spans -> Nat]
    BY DEF IInv, TypeOK, HistoryInv
<1>3. PICK r : r = RemoveAt(stack[g], cursor[g])
    OBVIOUS
<1>4. r \in Seq(Spans) /\ Ascending(birth, r)
    BY <1>1, <1>2, <1>3, RemoveAtProperties, AscendingRemove DEF AgeInv
<1>5. Ascending(birth, order')
    BY <1>1, <1>2 DEF AgeInv
<1>6. BirthInv' /\ AgeInv'
    BY <1>1, <1>2, <1>3, <1>4, <1>5, BirthKept, AgeKept, AgeUnchanged
<1>7. pc[g] = "compact" /\ hasTC[g]
    BY <1>2 DEF CompactStep, ContextInv
<1>8. ContextInv'
    BY <1>1, <1>2, <1>3, <1>4, <1>7 DEF TypeOK, ContextInv
<1>9. QED
    BY <1>6, <1>8 DEF HistoryInv

\* What the capacity test of stateForSpan and its eviction do to spanStates.
LEMMA Tracked ==
    ASSUME IInv, HistoryInv, NEW g \in Goroutines, AddTracked(g),
           NEW s, s = arg[g], NEW V, V = IF MustEvict THEN {Head(order)} ELSE {}
    PROVE  /\ s \in Spans /\ s \notin Born /\ s \notin states /\ s \notin ended
           /\ ended' = ended \cup V /\ states' = (states \ V) \cup {s}
           /\ Cardinality(Born) \in Nat
           /\ birth' = [birth EXCEPT ![s] = Cardinality(Born) + 1]
           /\ Born' = Born \cup {s}
           /\ Cardinality(Born') = Cardinality(Born) + 1
           /\ V \subseteq states
<1>1. pc[g] = "track" /\ s \in Spans /\ phase[s] = "creating"
    BY DEF AddTracked, IInv, ArgInv, CreatingPc
<1>2. s \notin Born /\ s \notin states /\ s \notin ended
    BY <1>1 DEF HistoryInv, BirthInv
<1>3. ended' = ended \cup V /\ states' = (states \ V) \cup {s}
    BY DEF AddTracked
<1>4. IsFiniteSet(Born) /\ Cardinality(Born) \in Nat
    BY GLSAssumption, FS_Subset, FS_CardinalityType DEF Born
<1>5. birth' = [birth EXCEPT ![s] = Cardinality(Born) + 1]
    BY DEF AddTracked, Born
<1>6. birth \in [Spans -> Nat]
    BY DEF IInv, TypeOK
<1>7. Born' = Born \cup {s}
  <2>1. /\ birth'[s] > 0
        /\ \A x \in Spans : x # s => birth'[x] = birth[x]
    BY <1>1, <1>4, <1>5, <1>6
  <2>2. QED
    BY <1>1, <2>1 DEF Born
<1>8. Cardinality(Born') = Cardinality(Born) + 1
    BY <1>2, <1>4, <1>7, FS_AddElement
<1>9. V \subseteq states
  <2>1. MustEvict => Head(order) \in Range(order)
    BY TailInjective DEF MustEvict, Empty, IInv, TypeOK, OrderInv
  <2>2. QED
    BY <2>1 DEF IInv, OrderInv
<1>10. QED
    BY <1>1, <1>2, <1>3, <1>4, <1>5, <1>7, <1>8, <1>9

\* stateForSpan() tracks a span, and add() pushes it.
LEMMA AddTrackedHistory ==
    ASSUME IInv, HistoryInv, NEW g \in Goroutines, AddTracked(g)
    PROVE  HistoryInv'
<1>1. PICK s, V : s = arg[g] /\ V = IF MustEvict THEN {Head(order)} ELSE {}
    OBVIOUS
<1>2. /\ s \in Spans /\ s \notin Born /\ s \notin states /\ s \notin ended
      /\ ended' = ended \cup V /\ states' = (states \ V) \cup {s}
      /\ Cardinality(Born) \in Nat
      /\ birth' = [birth EXCEPT ![s] = Cardinality(Born) + 1]
      /\ Born' = Born \cup {s}
      /\ Cardinality(Born') = Cardinality(Born) + 1
      /\ V \subseteq states
    BY <1>1, Tracked
<1>3. /\ pc[g] = "track"
      /\ stack' = [stack EXCEPT ![g] = Append(stack[g], s)]
      /\ order' = Append(IF MustEvict THEN Tail(order) ELSE order, s)
      /\ phase' = [phase EXCEPT ![s] = "live"]
      /\ crowded' = [crowded EXCEPT ![g] = FALSE]
      /\ pc' = [pc EXCEPT ![g] = "run"]
      /\ UNCHANGED <<hasTC, found>>
    BY <1>1 DEF AddTracked
<1>4. TypeOK /\ BirthInv /\ AgeInv /\ ContextInv /\ birth \in [Spans -> Nat] /\ TypeOK'
    BY AddTrackedStep DEF IInv, TypeOK, HistoryInv
<1>5. BirthInv'
  <2>1. ASSUME NEW x \in Spans PROVE birth'[x] <= Cardinality(Born')
    <3>1. birth[x] <= Cardinality(Born) /\ birth[x] \in Nat
      BY <1>4 DEF BirthInv
    <3>2. birth'[x] = birth[x] \/ birth'[x] = Cardinality(Born) + 1
      BY <1>2, <1>4
    <3>3. QED
      BY <1>2, <3>1, <3>2
  <2>2. \A x \in Born' : phase'[x] \in {"live", "done"}
    BY <1>2, <1>3, <1>4 DEF TypeOK, BirthInv
  <2>3. states' \cup ended' \subseteq Born'
    BY <1>2, <1>4 DEF BirthInv
  <2>4. QED
    BY <2>1, <2>2, <2>3 DEF BirthInv
<1>6. ASSUME NEW q \in Seq(Spans), Ascending(birth, q),
             \A i \in 1..Len(q) : q[i] \in Born
      PROVE  Ascending(birth', Append(q, s)) /\ Ascending(birth', q)
  <2>1. ASSUME NEW i \in 1..Len(q)
        PROVE  birth'[q[i]] = birth[q[i]] /\ birth[q[i]] < birth'[s]
    <3>1. q[i] \in Spans /\ q[i] # s
      BY <1>2, <1>6
    <3>2. birth'[q[i]] = birth[q[i]] /\ birth'[s] = Cardinality(Born) + 1
      BY <1>2, <1>4, <3>1
    <3>3. birth[q[i]] <= Cardinality(Born) /\ birth[q[i]] \in Nat
      BY <1>4, <3>1 DEF BirthInv
    <3>4. QED
      BY <1>2, <3>2, <3>3
  <2>2. birth' \in [Spans -> Nat]
    BY <1>4 DEF TypeOK
  <2>3. Ascending(birth', Append(q, s))
    BY <1>2, <1>4, <1>6, <2>1, <2>2, AscendingAppend
  <2>4. Ascending(birth', q)
    BY <1>6, <2>1 DEF Ascending
  <2>5. QED
    BY <2>3, <2>4
<1>7. ASSUME NEW h \in Goroutines PROVE Ascending(birth', stack'[h])
  <2>1. stack[h] \in Seq(Spans) /\ Ascending(birth, stack[h])
    BY <1>4 DEF TypeOK, AgeInv
  <2>2. \A i \in 1..Len(stack[h]) : stack[h][i] \in Born
    BY <1>4 DEF IInv, FlagInv, BirthInv
  <2>3. stack'[h] = IF h = g THEN Append(stack[h], s) ELSE stack[h]
    BY <1>3, <1>4 DEF TypeOK
  <2>4. QED
    BY <1>6, <2>1, <2>2, <2>3
<1>8. Ascending(birth', order')
  <2>1. PICK q : q = IF MustEvict THEN Tail(order) ELSE order
    OBVIOUS
  <2>2. order \in Seq(Spans) /\ Ascending(birth, order) /\ \A i \in 1..Len(order) : order[i] \in Born
    BY <1>4 DEF TypeOK, AgeInv, IInv, OrderInv, BirthInv, Range
  <2>3. CASE ~MustEvict
    BY <1>3, <1>6, <2>1, <2>2, <2>3
  <2>4. CASE MustEvict
    <3>1. /\ q = Tail(order) /\ q \in Seq(Spans) /\ Len(q) = Len(order) - 1 /\ Len(order) \in Nat
          /\ \A i \in 1..Len(q) : q[i] = order[i + 1]
      BY <2>1, <2>2, <2>4, HeadTailProperties, LenProperties DEF MustEvict, Empty
    <3>2. Len(q) + 1 <= Len(order) /\ \A i \in 1..Len(q) : i + 1 \in 1..Len(order)
      BY <3>1
    <3>3. Ascending(birth, q)
      BY <1>4, <2>2, <3>1, <3>2, AscendingPart
    <3>4. \A i \in 1..Len(q) : q[i] \in Born
      BY <2>2, <3>1, <3>2
    <3>5. QED
      BY <1>3, <1>6, <2>1, <2>4, <3>1, <3>3, <3>4
  <2>5. QED
    BY <2>3, <2>4
<1>9. ContextInv'
  <2>1. hasTC[g]
    BY <1>3, <1>4 DEF ContextInv
  <2>2. QED
    BY <1>2, <1>3, <1>4, <2>1 DEF TypeOK, ContextInv
<1>10. QED
    BY <1>5, <1>7, <1>8, <1>9 DEF HistoryInv, AgeInv

\* markSpanEnded() flags and forgets a span.
LEMMA MarkSpanEndedHistory ==
    ASSUME IInv, HistoryInv, NEW g \in Goroutines, NEW s \in Spans, MarkSpanEnded(g, s)
    PROVE  HistoryInv'
<1>1. TypeOK /\ BirthInv /\ AgeInv /\ ContextInv /\ birth \in [Spans -> Nat]
    BY DEF IInv, TypeOK, HistoryInv
<1>2. /\ phase[s] \in {"live", "done"} /\ phase' = [phase EXCEPT ![s] = "done"]
      /\ pc[g] = "run" /\ (pc' = pc \/ pc' = [pc EXCEPT ![g] = "del"])
      /\ states' \cup ended' \subseteq states \cup ended
      /\ UNCHANGED <<hasTC, stack, found, birth, crowded>>
    BY DEF MarkSpanEnded, tcVars, historyVars, sharedVars
<1>3. BirthInv'
  <2>1. \A x \in Spans : phase[x] \in {"live", "done"} => phase'[x] \in {"live", "done"}
    BY <1>1, <1>2 DEF TypeOK
  <2>2. QED
    BY <1>1, <1>2, <2>1, BirthKept
<1>4. Ascending(birth, order')
  <2>1. CASE s \in states
    <3>1. PICK i \in 1..Len(order) : order' = RemoveAt(order, i)
      <4>1. \E i \in 1..Len(order) : order[i] = s
        BY <1>1, <2>1 DEF TypeOK, IInv, OrderInv, Range
      <4>2. QED
        BY <2>1, <4>1 DEF MarkSpanEnded
    <3>2. QED
      BY <1>1, <3>1, AscendingRemove DEF TypeOK, AgeInv
  <2>2. CASE s \notin states
    BY <1>1, <2>2 DEF MarkSpanEnded, sharedVars, AgeInv
  <2>3. QED
    BY <2>1, <2>2
<1>5. AgeInv'
    BY <1>1, <1>2, <1>4 DEF AgeInv
<1>6. ContextInv'
    BY <1>1, <1>2 DEF TypeOK, ContextInv
<1>7. QED
    BY <1>3, <1>5, <1>6 DEF HistoryInv

\* What del() finds has been flagged: it changes what the goroutine holds, not what it sees.
LEMMA DelUnlinks ==
    ASSUME IInv, NEW g \in Goroutines, Del(g)
    PROVE  /\ pc[g] = "del" /\ pc' = [pc EXCEPT ![g] = "run"]
           /\ UNCHANGED <<child, hasTC, ended, states, order, phase, found, birth, crowded>>
           /\ \/ stack' = stack
              \/ \E i \in 1..Len(stack[g]) :
                    stack[g][i] \in ended /\ stack' = [stack EXCEPT ![g] = RemoveAt(@, i)]
<1>1. /\ pc[g] = "del" /\ pc' = [pc EXCEPT ![g] = "run"]
      /\ UNCHANGED <<child, hasTC, states, order, phase, found, birth, crowded>>
    BY DEF Del, historyVars
<1>2. arg[g] \in Spans /\ arg[g] \notin states
    BY <1>1 DEF IInv, ArgInv, FlagInv
<1>3. CASE arg[g] \notin Range(stack[g]) /\ UNCHANGED <<stack, n, lcs, ended>>
    BY <1>1, <1>3
<1>4. CASE \E i \in 1..Len(stack[g]) :
             /\ IsTopmost(stack[g], i, arg[g])
             /\ ended' = ended \cup {arg[g]}
             /\ stack' = [stack EXCEPT ![g] = RemoveAt(@, i)]
  <2>1. PICK i \in 1..Len(stack[g]) :
             /\ stack[g][i] = arg[g]
             /\ ended' = ended \cup {arg[g]}
             /\ stack' = [stack EXCEPT ![g] = RemoveAt(@, i)]
    BY <1>4 DEF IsTopmost
  <2>2. arg[g] \in ended
    BY <1>2, <2>1 DEF IInv, FlagInv
  <2>3. QED
    BY <1>1, <2>1, <2>2
<1>5. QED
    BY <1>3, <1>4 DEF Del

\* del() unlinks the wrapper of a span.
LEMMA DelHistory ==
    ASSUME IInv, HistoryInv, NEW g \in Goroutines, Del(g)
    PROVE  HistoryInv'
<1>1. /\ pc[g] = "del" /\ pc' = [pc EXCEPT ![g] = "run"]
      /\ UNCHANGED <<hasTC, ended, states, order, phase, found, birth, crowded>>
      /\ \/ stack' = stack
         \/ \E i \in 1..Len(stack[g]) : stack' = [stack EXCEPT ![g] = RemoveAt(stack[g], i)]
    BY DelUnlinks
<1>2. TypeOK /\ BirthInv /\ AgeInv /\ ContextInv /\ birth \in [Spans -> Nat]
    BY DEF IInv, TypeOK, HistoryInv
<1>3. stack[g] \in Seq(Spans) /\ Ascending(birth, order') /\ BirthInv'
    BY <1>1, <1>2, BirthKept DEF TypeOK, AgeInv
<1>4. CASE stack' = stack
    BY <1>1, <1>2, <1>3, <1>4, AgeUnchanged DEF TypeOK, ContextInv, HistoryInv
<1>5. CASE \E i \in 1..Len(stack[g]) : stack' = [stack EXCEPT ![g] = RemoveAt(stack[g], i)]
  <2>1. PICK i \in 1..Len(stack[g]) : stack' = [stack EXCEPT ![g] = RemoveAt(stack[g], i)]
    BY <1>5
  <2>2. PICK r : r = RemoveAt(stack[g], i)
    OBVIOUS
  <2>3. r \in Seq(Spans) /\ Ascending(birth, r)
    BY <1>2, <1>3, <2>2, RemoveAtProperties, AscendingRemove DEF AgeInv
  <2>4. AgeInv'
    BY <1>1, <1>2, <1>3, <2>1, <2>2, <2>3, AgeKept
  <2>5. stack[g] # <<>>
    BY <1>3, <2>1
  <2>6. ContextInv'
    BY <1>1, <1>2, <2>1, <2>5 DEF TypeOK, ContextInv
  <2>7. QED
    BY <1>3, <2>4, <2>6 DEF HistoryInv
<1>6. QED
    BY <1>1, <1>4, <1>5

\* What Clone gives to the new goroutine: the live top, if there is one.
LEMMA Cloned ==
    ASSUME IInv, NEW g \in Goroutines, CloneReturn(g), NEW c,
           c = IF stack[g] = <<>> THEN <<>> ELSE <<Last(stack[g])>>
    PROVE  /\ c \in Seq(Spans)
           /\ \/ stack[g] = <<>> /\ c = <<>>
              \/ stack[g] # <<>> /\ Len(c) = 1 /\ c[1] = Last(stack[g]) /\ c[1] \notin ended
           /\ stack' = [stack EXCEPT ![child[g]] = c]
           /\ Ascending(birth, c)
<1>1. stack[g] \in Seq(Spans) /\ stack' = [stack EXCEPT ![child[g]] = c]
    BY DEF IInv, TypeOK, CloneReturn, Empty
<1>2. CASE stack[g] = <<>>
    BY <1>1, <1>2 DEF Ascending
<1>3. CASE stack[g] # <<>>
  <2>1. Last(stack[g]) \in Spans /\ c = <<Last(stack[g])>>
    BY <1>1, <1>3, FrontProperties
  <2>2. c \in Seq(Spans) /\ Len(c) = 1 /\ c[1] = Last(stack[g])
    BY <2>1
  <2>3. Last(stack[g]) \notin ended
    BY <1>3 DEF CloneReturn, TailStops, Empty
  <2>4. Ascending(birth, c)
    BY <2>2 DEF Ascending
  <2>5. QED
    BY <1>1, <1>3, <2>2, <2>3, <2>4
<1>4. QED
    BY <1>2, <1>3

\* Stacks that are emptied or handed to a new goroutine.
LEMMA ResetHistory ==
    ASSUME IInv, HistoryInv, NEW g \in Goroutines,
           \/ ClearTraceContext(g) \/ CloneReturn(g)
           \/ \E h \in Goroutines : GoWithoutContext(g, h)
    PROVE  HistoryInv'
<1>1. TypeOK /\ BirthInv /\ AgeInv /\ ContextInv /\ birth \in [Spans -> Nat]
    BY DEF IInv, TypeOK, HistoryInv
<1>2. UNCHANGED <<ended, states, order, phase, found, birth, crowded>>
    BY DEF ClearTraceContext, CloneReturn, GoWithoutContext, sharedVars, historyVars
<1>3. BirthInv' /\ Ascending(birth, order')
    BY <1>1, <1>2, BirthKept DEF AgeInv
<1>4. <<>> \in Seq(Spans) /\ Ascending(birth, <<>>)
    BY DEF Ascending
<1>5. CASE ClearTraceContext(g)
  <2>1. stack' = [stack EXCEPT ![g] = <<>>] /\ hasTC' = [hasTC EXCEPT ![g] = TRUE] /\ pc' = pc
    BY <1>5 DEF ClearTraceContext, Empty
  <2>2. AgeInv'
    BY <1>1, <1>2, <1>3, <1>4, <2>1, AgeKept
  <2>3. ContextInv'
    BY <1>1, <1>2, <2>1 DEF TypeOK, ContextInv
  <2>4. QED
    BY <1>3, <2>2, <2>3 DEF HistoryInv
<1>6. CASE \E h \in Goroutines : GoWithoutContext(g, h)
  <2>1. PICK h \in Goroutines : /\ stack' = [stack EXCEPT ![h] = <<>>]
                                /\ hasTC' = [hasTC EXCEPT ![h] = FALSE]
                                /\ pc[h] = "absent" /\ pc' = [pc EXCEPT ![h] = "run"]
    BY <1>6 DEF GoWithoutContext, Empty
  <2>2. AgeInv'
    BY <1>1, <1>2, <1>3, <1>4, <2>1, AgeKept
  <2>3. ContextInv'
    BY <1>1, <1>2, <2>1 DEF TypeOK, ContextInv
  <2>4. QED
    BY <1>3, <2>2, <2>3 DEF HistoryInv
<1>7. CASE CloneReturn(g)
  <2>1. PICK c : c = IF stack[g] = <<>> THEN <<>> ELSE <<Last(stack[g])>>
    OBVIOUS
  <2>2. c \in Seq(Spans) /\ stack' = [stack EXCEPT ![child[g]] = c] /\ Ascending(birth, c)
    BY <1>7, <2>1, Cloned
  <2>3. child[g] \in Goroutines /\ pc[g] = "forkTail" /\ pc[child[g]] = "spawning"
    BY <1>1, <1>7 DEF TypeOK, IInv, ForkInv, CloneReturn
  <2>4. AgeInv'
    BY <1>1, <1>2, <1>3, <2>2, <2>3, AgeKept
  <2>5. /\ hasTC' = [hasTC EXCEPT ![child[g]] = TRUE]
        /\ pc' = [pc EXCEPT ![g] = "run", ![child[g]] = "run"]
    BY <1>7 DEF CloneReturn
  <2>6. ContextInv'
    <3>1. \A k \in Goroutines : k # child[g] => stack'[k] = stack[k] /\ hasTC'[k] = hasTC[k]
      BY <1>1, <2>2, <2>5 DEF TypeOK
    <3>2. hasTC'[child[g]]
      BY <1>1, <2>3, <2>5 DEF TypeOK
    <3>3. \A k \in Goroutines : pc'[k] \in {"compact", "track"} <=> pc[k] \in {"compact", "track"}
      BY <1>1, <2>3, <2>5 DEF TypeOK
    <3>4. QED
      BY <1>1, <1>2, <3>1, <3>2, <3>3 DEF ContextInv
  <2>7. QED
    BY <1>3, <2>4, <2>6 DEF HistoryInv
<1>8. QED
    BY <1>5, <1>6, <1>7

LEMMA InitHistory == Init => HistoryInv
<1> SUFFICES ASSUME Init PROVE HistoryInv
    OBVIOUS
<1>1. Born = {}
    BY DEF Init, Born
<1>2. BirthInv
    BY <1>1, FS_EmptySet DEF Init, BirthInv
<1>3. AgeInv /\ ContextInv
    BY DEF Init, AgeInv, ContextInv, Ascending, Empty
<1>4. QED
    BY <1>2, <1>3 DEF HistoryInv

LEMMA NextHistory == IInv /\ HistoryInv /\ [Next]_vars => HistoryInv'
<1> SUFFICES ASSUME IInv, HistoryInv, [Next]_vars PROVE HistoryInv'
    OBVIOUS
<1>1. ASSUME NEW g \in Goroutines, HookStep(g) PROVE HistoryInv'
    BY <1>1, TailPopHistory, LocalHistory, CompactStepHistory, AddTrackedHistory, DelHistory,
       ResetHistory DEF HookStep
<1>2. ASSUME NEW g \in Goroutines, AppStep(g) PROVE HistoryInv'
    BY <1>2, StartsHistory, LocalHistory, MarkSpanEndedHistory, ResetHistory DEF AppStep
<1>3. CASE UNCHANGED vars
  <2>1. UNCHANGED <<pc, hasTC, stack, ended, states, order, phase, found, birth, crowded>>
    BY <1>3 DEF vars, tcVars, sharedVars, historyVars
  <2>2. Born' = Born
    BY <2>1 DEF Born
  <2>3. QED
    BY <2>1, <2>2 DEF HistoryInv, BirthInv, AgeInv, ContextInv
<1>4. QED
    BY <1>1, <1>2, <1>3 DEF Next

\* Both invariants, for a step that starts where they hold and ends where they do.
RInv == IInv /\ HistoryInv

LEMMA HistoryHolds == Spec => []RInv
<1>1. Init => RInv
    BY InitInv, InitHistory DEF RInv
<1>2. RInv /\ [Next]_vars => RInv'
    BY NextInv, NextHistory DEF RInv
<1>3. QED
    BY <1>1, <1>2, PTL DEF Spec

-----------------------------------------------------------------------------
(* Implicit parents, with the history of the spans that were over before.   *)

\* What was over when a lookup began stays over, and the lookup did not return it.
PastInv ==
    /\ \A s \in Spans : past[s] \subseteq Over
    /\ \A g \in Goroutines : pc[g] = "startUse" => found[arg[g]] \notin past[arg[g]]

\* A span that has ended stays ended.
LEMMA EndedIsForEver ==
    ASSUME RInv, [Next]_vars, NEW t \in Spans, phase[t] = "done"
    PROVE  phase'[t] = "done"
<1>1. TypeOK /\ ArgInv
    BY DEF RInv, IInv
<1>2. ASSUME NEW g \in Goroutines, HookStep(g)
      PROVE  phase' = phase \/ (pc[g] \in CreatingPc /\ phase' = [phase EXCEPT ![arg[g]] = "live"])
    BY <1>2 DEF HookStep, TailPop, StartTailReturn, StartWithParent, AddBegin, CompactStep,
                CompactMadeRoom, AddRefused, AddTracked, Del, CloneReturn, ReadReturn, CreatingPc
<1>3. ASSUME NEW g \in Goroutines, AppStep(g)
      PROVE  \/ phase' = phase
             \/ \E s \in Spans : \/ phase' = [phase EXCEPT ![s] = "done"]
                                 \/ phase[s] = "unborn" /\ phase' = [phase EXCEPT ![s] = "creating"]
  <2>1. CASE \E s \in Spans : StartWithContextSpan(g, s)
    BY <2>1 DEF StartWithContextSpan
  <2>2. CASE \E s \in Spans : StartWithoutContextSpan(g, s)
    BY <2>2 DEF StartWithoutContextSpan
  <2>3. CASE \E s \in Spans : MarkSpanEnded(g, s)
    BY <2>3 DEF MarkSpanEnded
  <2>4. CASE \E h \in Goroutines : GoWithoutContext(g, h) \/ GoWithContext(g, h)
    BY <2>4 DEF GoWithoutContext, GoWithContext
  <2>5. CASE Exit(g) \/ SpanFromGLS(g) \/ GetTraceContext(g) \/ ClearTraceContext(g)
    BY <2>5 DEF Exit, SpanFromGLS, GetTraceContext, ClearTraceContext
  <2>6. QED
    BY <1>3, <2>1, <2>2, <2>3, <2>4, <2>5, Zenon DEF AppStep
<1>4. ASSUME NEW g \in Goroutines, HookStep(g) PROVE phase'[t] = "done"
  <2>1. CASE phase' = phase
    BY <2>1
  <2>2. CASE pc[g] \in CreatingPc /\ phase' = [phase EXCEPT ![arg[g]] = "live"]
    <3>1. arg[g] # t
      BY <1>1, <2>2 DEF ArgInv
    <3>2. QED
      BY <1>1, <2>2, <3>1 DEF TypeOK
  <2>3. QED
    BY <1>2, <1>4, <2>1, <2>2
<1>5. ASSUME NEW g \in Goroutines, AppStep(g) PROVE phase'[t] = "done"
    BY <1>1, <1>3, <1>5 DEF TypeOK
<1>6. CASE UNCHANGED vars
    BY <1>6 DEF vars
<1>7. QED
    BY <1>4, <1>5, <1>6 DEF Next

\* A span that has been evicted is never tracked again.
LEMMA EvictedIsForEver ==
    ASSUME RInv, [Next]_vars, NEW t \in Spans, birth[t] > 0, t \notin states
    PROVE  birth'[t] > 0 /\ t \notin states'
<1>1. TypeOK /\ ArgInv /\ BirthInv
    BY DEF RInv, IInv, HistoryInv
<1>2. ASSUME NEW g \in Goroutines, AddTracked(g) PROVE birth'[t] > 0 /\ t \notin states'
  <2>1. arg[g] \in Spans /\ phase[arg[g]] = "creating"
    BY <1>1, <1>2 DEF AddTracked, ArgInv, CreatingPc
  <2>2. t # arg[g]
    <3>1. t \in Born
      BY DEF Born
    <3>2. QED
      BY <1>1, <2>1, <3>1 DEF BirthInv
  <2>3. /\ birth' = [birth EXCEPT ![arg[g]] = Cardinality({s \in Spans : birth[s] > 0}) + 1]
        /\ states' = (IF MustEvict THEN states \ {Head(order)} ELSE states) \cup {arg[g]}
    BY <1>2 DEF AddTracked
  <2>4. birth'[t] = birth[t]
    BY <1>1, <2>2, <2>3 DEF TypeOK
  <2>5. t \notin states'
    BY <2>2, <2>3
  <2>6. QED
    BY <2>4, <2>5
<1>3. ASSUME NEW g \in Goroutines, HookStep(g), ~AddTracked(g)
      PROVE  birth' = birth /\ states' = states
    BY <1>3 DEF HookStep, TailPop, StartTailReturn, StartWithParent, AddBegin, CompactStep,
                CompactMadeRoom, AddRefused, Del, CloneReturn, ReadReturn, sharedVars, historyVars
<1>4. ASSUME NEW g \in Goroutines, AppStep(g)
      PROVE  birth' = birth /\ (states' = states \/ \E s \in Spans : states' = states \ {s})
    BY <1>4 DEF AppStep, StartWithContextSpan, StartWithoutContextSpan, MarkSpanEnded,
                GoWithoutContext, GoWithContext, Exit, SpanFromGLS, GetTraceContext,
                ClearTraceContext, sharedVars, historyVars
<1>5. CASE UNCHANGED vars
    BY <1>5 DEF vars, sharedVars, historyVars
<1>6. QED
  <2>1. ASSUME NEW g \in Goroutines, AppStep(g) PROVE birth'[t] > 0 /\ t \notin states'
    BY <1>4, <2>1
  <2>2. QED
    BY <1>2, <1>3, <1>5, <2>1 DEF Next

LEMMA OverIsForEver ==
    ASSUME RInv, [Next]_vars
    PROVE  Over \subseteq Over'
<1>1. ASSUME NEW t \in Over PROVE t \in Over'
  <2>1. CASE phase[t] = "done"
    BY <2>1, EndedIsForEver DEF Over
  <2>2. CASE birth[t] > 0 /\ t \notin states
    BY <2>2, EvictedIsForEver DEF Over
  <2>3. QED
    BY <2>1, <2>2 DEF Over
<1>2. QED
    BY <1>1

\* What tail() decides on is live and tracked.
LEMMA TailIsLive ==
    ASSUME IInv, NEW g \in Goroutines, TailStops(g), TailResult(g) \in Spans
    PROVE  phase[TailResult(g)] = "live" /\ TailResult(g) \in states
<1>1. stack[g] \in Seq(Spans) /\ FlagInv
    BY DEF IInv, TypeOK
<1>2. stack[g] # <<>> /\ TailResult(g) = Last(stack[g])
    BY GLSAssumption DEF TailResult, Empty
<1>3. Last(stack[g]) \notin ended
    BY <1>2 DEF TailStops, Empty
<1>4. Len(stack[g]) \in 1..Len(stack[g])
    BY <1>1, <1>2, FrontProperties
<1>5. Last(stack[g]) \in states
    BY <1>1, <1>3, <1>4 DEF Last, FlagInv
<1>6. QED
    BY <1>1, <1>2, <1>5 DEF FlagInv

\* Who is between the lookup and its use was there before, and so is what it found.
Using(h) == pc[h] = "startUse"

LEMMA UsersStay ==
    ASSUME TypeOK, NEW g \in Goroutines, HookStep(g) \/ AppStep(g), ~StartTailReturn(g),
           NEW h \in Goroutines, Using(h)'
    PROVE  Using(h) /\ h # g /\ arg'[h] = arg[h]
<1>1. ASSUME pc[g] # "startUse" /\ pc' = pc, arg' = arg PROVE Using(h) /\ h # g /\ arg'[h] = arg[h]
    BY <1>1 DEF Using
<1>2. ASSUME NEW a \in Pc \ {"startUse"}, pc' = [pc EXCEPT ![g] = a],
             arg' = arg \/ \E s : arg' = [arg EXCEPT ![g] = s]
      PROVE  Using(h) /\ h # g /\ arg'[h] = arg[h]
    BY <1>2 DEF Using, TypeOK
<1>3. ASSUME NEW k \in Goroutines, NEW a \in Pc \ {"startUse"}, NEW b \in Pc \ {"startUse"},
             pc' = [pc EXCEPT ![g] = a, ![k] = b] \/ (pc' = [pc EXCEPT ![k] = b] /\ pc[g] = "run"),
             arg' = arg
      PROVE  Using(h) /\ h # g /\ arg'[h] = arg[h]
    BY <1>3 DEF Using, TypeOK
<1>4. CASE TailPop(g) \/ CompactStep(g) \/ ClearTraceContext(g)
    BY <1>1, <1>4 DEF TailPop, CompactStep, ClearTraceContext, TailPc
<1>5. CASE StartWithParent(g) \/ AddBegin(g) \/ CompactMadeRoom(g) \/ AddRefused(g)
    BY <1>2, <1>5 DEF StartWithParent, AddBegin, CompactMadeRoom, AddRefused, Pc
<1>6. CASE AddTracked(g) \/ Del(g) \/ ReadReturn(g)
    BY <1>2, <1>6 DEF AddTracked, Del, ReadReturn, Pc
<1>7. CASE CloneReturn(g)
  <2>1. child[g] \in Goroutines /\ "run" \in Pc \ {"startUse"}
    BY DEF TypeOK, Pc
  <2>2. pc' = [pc EXCEPT ![g] = "run", ![child[g]] = "run"] /\ arg' = arg
    BY <1>7 DEF CloneReturn
  <2>3. QED
    BY <1>3, <2>1, <2>2
<1>8. ASSUME NEW s \in Spans, StartWithContextSpan(g, s) \/ StartWithoutContextSpan(g, s)
      PROVE  Using(h) /\ h # g /\ arg'[h] = arg[h]
    BY <1>2, <1>8 DEF StartWithContextSpan, StartWithoutContextSpan, Pc, TailPc
<1>9. ASSUME NEW s \in Spans, MarkSpanEnded(g, s)
      PROVE  Using(h) /\ h # g /\ arg'[h] = arg[h]
    BY <1>1, <1>2, <1>9 DEF MarkSpanEnded, Pc
<1>10. ASSUME NEW k \in Goroutines, GoWithoutContext(g, k) \/ GoWithContext(g, k)
       PROVE  Using(h) /\ h # g /\ arg'[h] = arg[h]
    BY <1>3, <1>10 DEF GoWithoutContext, GoWithContext, Pc, TailPc
<1>11. CASE Exit(g) \/ SpanFromGLS(g) \/ GetTraceContext(g)
    BY <1>2, <1>11 DEF Exit, SpanFromGLS, GetTraceContext, Pc, TailPc
<1>12. QED
    BY <1>4, <1>5, <1>6, <1>7, <1>8, <1>9, <1>10, <1>11, Zenon DEF HookStep, AppStep

\* What a step does to the parents found, used and to what was over.
LEMMA FoundMoves ==
    ASSUME NEW g \in Goroutines, HookStep(g) \/ AppStep(g), ~StartTailReturn(g)
    PROVE  \/ UNCHANGED <<found, parent, past>>
           \/ /\ StartWithParent(g)
              /\ found' = found
              /\ parent' = [parent EXCEPT ![arg[g]] = found[arg[g]]]
              /\ past' = [past EXCEPT ![arg[g]] = {}]
           \/ \E s \in Spans :
                 /\ phase[s] = "unborn"
                 /\ \/ /\ found' = [found EXCEPT ![s] = CtxSpan]
                       /\ parent' = [parent EXCEPT ![s] = CtxSpan]
                       /\ past' = past
                    \/ /\ UNCHANGED <<found, parent>>
                       /\ past' = [past EXCEPT ![s] = Over]
<1>1. CASE HookStep(g)
    BY <1>1 DEF HookStep, TailPop, StartWithParent, AddBegin, CompactStep, CompactMadeRoom,
                AddRefused, AddTracked, Del, CloneReturn, ReadReturn, historyVars
<1>2. ASSUME NEW s \in Spans, StartWithContextSpan(g, s) \/ StartWithoutContextSpan(g, s)
      PROVE  /\ phase[s] = "unborn"
             /\ \/ /\ found' = [found EXCEPT ![s] = CtxSpan]
                   /\ parent' = [parent EXCEPT ![s] = CtxSpan]
                   /\ past' = past
                \/ /\ UNCHANGED <<found, parent>>
                   /\ past' = [past EXCEPT ![s] = Over]
    BY <1>2 DEF StartWithContextSpan, StartWithoutContextSpan, historyVars
<1>3. ASSUME NEW s \in Spans, MarkSpanEnded(g, s) PROVE UNCHANGED <<found, parent, past>>
    BY <1>3 DEF MarkSpanEnded, historyVars
<1>4. ASSUME NEW h \in Goroutines, GoWithoutContext(g, h) \/ GoWithContext(g, h)
      PROVE  UNCHANGED <<found, parent, past>>
    BY <1>4 DEF GoWithoutContext, GoWithContext, historyVars
<1>5. CASE Exit(g) \/ SpanFromGLS(g) \/ GetTraceContext(g) \/ ClearTraceContext(g)
    BY <1>5 DEF Exit, SpanFromGLS, GetTraceContext, ClearTraceContext, historyVars
<1>6. QED
    BY <1>1, <1>2, <1>3, <1>4, <1>5, Zenon DEF AppStep

\* A lookup ends with a span that is not over.
LEMMA LookupPast ==
    ASSUME RInv, PastInv, Over \subseteq Over', NEW g \in Goroutines, StartTailReturn(g)
    PROVE  PastInv'
<1>1. TypeOK /\ ArgInv
    BY DEF RInv, IInv
<1>2. /\ pc[g] = "startTail" /\ pc' = [pc EXCEPT ![g] = "startUse"] /\ TailStops(g)
      /\ found' = [found EXCEPT ![arg[g]] = TailResult(g)]
      /\ arg' = arg /\ past' = past
    BY DEF StartTailReturn, historyVars
<1>3. arg[g] \in Spans
    BY <1>1, <1>2 DEF ArgInv, CreatingPc
<1>4. TailResult(g) \notin Over
    BY <1>2, TailIsLive DEF Over, RInv
<1>5. ASSUME NEW s \in Spans PROVE past'[s] \subseteq Over'
    BY <1>2 DEF PastInv
<1>6. ASSUME NEW h \in Goroutines, pc'[h] = "startUse" PROVE found'[arg'[h]] \notin past'[arg'[h]]
  <2>1. CASE h = g
    <3>1. found'[arg'[h]] = TailResult(g)
      BY <1>1, <1>2, <1>3, <2>1 DEF TypeOK
    <3>2. past'[arg'[h]] \subseteq Over
      BY <1>2, <1>3, <2>1 DEF PastInv
    <3>3. QED
      BY <1>4, <3>1, <3>2
  <2>2. CASE h # g
    <3>1. pc[h] = "startUse"
      BY <1>1, <1>2, <1>6, <2>2 DEF TypeOK
    <3>2. arg[h] # arg[g]
      BY <1>1, <1>2, <2>2, <3>1 DEF ArgInv, CreatingPc
    <3>3. found'[arg[h]] = found[arg[h]]
      BY <1>1, <1>2, <3>2 DEF TypeOK
    <3>4. QED
      BY <1>2, <3>1, <3>3 DEF PastInv
  <2>3. QED
    BY <2>1, <2>2
<1>7. QED
    BY <1>5, <1>6 DEF PastInv

\* Every other step leaves the users of a lookup what they found.
LEMMA OthersPast ==
    ASSUME RInv, PastInv, Over \subseteq Over', NEW g \in Goroutines,
           HookStep(g) \/ AppStep(g), ~StartTailReturn(g)
    PROVE  PastInv'
<1>1. TypeOK /\ ArgInv
    BY DEF RInv, IInv
<1>2. ASSUME NEW h \in Goroutines, pc'[h] = "startUse"
      PROVE  /\ pc[h] = "startUse" /\ h # g /\ arg'[h] = arg[h]
             /\ arg[h] \in Spans /\ phase[arg[h]] = "creating"
  <2>1. Using(h) /\ h # g /\ arg'[h] = arg[h]
    BY <1>1, <1>2, UsersStay DEF Using
  <2>2. QED
    BY <1>1, <2>1 DEF Using, ArgInv, CreatingPc
<1>3. CASE UNCHANGED <<found, parent, past>>
    BY <1>2, <1>3 DEF PastInv
<1>4. CASE /\ StartWithParent(g) /\ found' = found /\ past' = [past EXCEPT ![arg[g]] = {}]
  <2>1. ASSUME NEW s \in Spans PROVE past'[s] = {} \/ past'[s] = past[s]
    BY <1>1, <1>4 DEF TypeOK
  <2>2. ASSUME NEW s \in Spans PROVE past'[s] \subseteq Over'
    BY <2>1 DEF PastInv
  <2>3. ASSUME NEW h \in Goroutines, pc'[h] = "startUse"
        PROVE  found'[arg'[h]] \notin past'[arg'[h]]
    <3>1. pc[h] = "startUse" /\ arg'[h] = arg[h] /\ arg[h] \in Spans
      BY <1>2, <2>3
    <3>2. QED
      BY <1>4, <2>1, <3>1 DEF PastInv
  <2>4. QED
    BY <2>2, <2>3 DEF PastInv
<1>5. ASSUME NEW s \in Spans, phase[s] = "unborn",
             \/ found' = [found EXCEPT ![s] = CtxSpan] /\ past' = past
             \/ found' = found /\ past' = [past EXCEPT ![s] = Over]
      PROVE  PastInv'
  <2>1. ASSUME NEW t \in Spans PROVE past'[t] = past[t] \/ past'[t] = Over
    BY <1>1, <1>5 DEF TypeOK
  <2>2. ASSUME NEW t \in Spans PROVE past'[t] \subseteq Over'
    BY <2>1 DEF PastInv
  <2>3. ASSUME NEW h \in Goroutines, pc'[h] = "startUse"
        PROVE  found'[arg'[h]] \notin past'[arg'[h]]
    <3>1. pc[h] = "startUse" /\ arg'[h] = arg[h] /\ arg[h] \in Spans /\ arg[h] # s
      BY <1>2, <1>5, <2>3
    <3>2. found'[arg[h]] = found[arg[h]] /\ past'[arg[h]] = past[arg[h]]
      BY <1>1, <1>5, <3>1 DEF TypeOK
    <3>3. QED
      BY <3>1, <3>2 DEF PastInv
  <2>4. QED
    BY <2>2, <2>3 DEF PastInv
<1>6. QED
    BY <1>3, <1>4, <1>5, FoundMoves

LEMMA PastHolds == Spec => []PastInv
<1>1. Init => PastInv
    BY DEF Init, PastInv, Over
<1>2. RInv /\ PastInv /\ [Next]_vars => PastInv'
  <2> SUFFICES ASSUME RInv, PastInv, [Next]_vars PROVE PastInv'
    OBVIOUS
  <2>1. Over \subseteq Over'
    BY OverIsForEver
  <2>2. CASE Next
    BY <2>1, <2>2, LookupPast, OthersPast DEF Next
  <2>3. CASE UNCHANGED vars
    BY <2>1, <2>3 DEF vars, historyVars, PastInv
  <2>4. QED
    BY <2>2, <2>3
<1>3. QED
    BY <1>1, <1>2, HistoryHolds, PTL DEF Spec

\* No lookup decides on a span that has ended or been evicted, and none that was
\* before the lookup began becomes an implicit parent.
THEOREM ParentsAreLive == Spec => ParentIsLive
<1> DEFINE A == \A s \in Spans :
                  /\ (found'[s] # found[s] /\ found'[s] \in Spans) =>
                        /\ phase[found'[s]] = "live"
                        /\ found'[s] \in states
                  /\ (parent'[s] # parent[s] /\ parent'[s] \in Spans) =>
                        parent'[s] \notin past[s]
<1>1. ASSUME RInv, NEW g \in Goroutines, StartTailReturn(g) PROVE A
  <2>1. TypeOK /\ TailStops(g) /\ parent' = parent
    BY <1>1 DEF RInv, IInv, StartTailReturn
  <2>2. found' = [found EXCEPT ![arg[g]] = TailResult(g)]
    BY <1>1 DEF StartTailReturn
  <2>3. \A s \in Spans : found'[s] # found[s] => found'[s] = TailResult(g)
    BY <2>1, <2>2 DEF TypeOK
  <2>4. QED
    BY <1>1, <2>1, <2>3, TailIsLive DEF RInv
<1>2. ASSUME RInv, PastInv, NEW g \in Goroutines, HookStep(g) \/ AppStep(g), ~StartTailReturn(g)
      PROVE  A
  <2>1. TypeOK /\ ArgInv
    BY <1>2 DEF RInv, IInv
  <2>2. CASE UNCHANGED <<found, parent, past>>
    BY <2>2
  <2>3. CASE /\ StartWithParent(g) /\ found' = found
             /\ parent' = [parent EXCEPT ![arg[g]] = found[arg[g]]]
    <3>1. found[arg[g]] \notin past[arg[g]]
      BY <1>2, <2>3 DEF PastInv, StartWithParent
    <3>2. \A s \in Spans : parent'[s] # parent[s] => s = arg[g] /\ parent'[s] = found[arg[g]]
      BY <2>1, <2>3 DEF TypeOK
    <3>3. QED
      BY <2>3, <3>1, <3>2
  <2>4. ASSUME NEW s \in Spans, found' = [found EXCEPT ![s] = CtxSpan],
               parent' = [parent EXCEPT ![s] = CtxSpan]
        PROVE  A
    BY <2>1, <2>4, GLSAssumption DEF TypeOK
  <2>5. QED
    <3> HIDE DEF A
    <3>1. CASE UNCHANGED <<found, parent>>
      BY <3>1 DEF A
    <3>2. QED
      BY <1>2, <2>2, <2>3, <2>4, <3>1, FoundMoves
<1>3. RInv /\ PastInv /\ [Next]_vars => [A]_vars
  <2> SUFFICES ASSUME RInv, PastInv, Next PROVE A
    OBVIOUS
  <2> HIDE DEF A
  <2>1. PICK g \in Goroutines : HookStep(g) \/ AppStep(g)
    BY DEF Next
  <2>2. QED
    BY <1>1, <1>2, <2>1
<1>4. QED
    BY <1>3, HistoryHolds, PastHolds, PTL DEF Spec, ParentIsLive

-----------------------------------------------------------------------------
(* The refinement: what a step does to the abstract state.                  *)

\* What a lookup on g may return is an unflagged element of its chain.
LEMMA LiveElements ==
    ASSUME TypeOK, NEW g \in Goroutines
    PROVE  /\ LiveEntries(g) \subseteq Spans
           /\ \A s : s \in LiveEntries(g) <=>
                        s \notin ended /\ \E i \in 1..Len(stack[g]) : s = stack[g][i]
<1>1. stack[g] \in Seq(Spans)
    BY DEF TypeOK
<1>2. QED
    BY <1>1 DEF LiveEntries, Range

\* Only a tracked span can be returned.
LEMMA LiveIsTracked ==
    ASSUME IInv, NEW g \in Goroutines
    PROVE  LiveEntries(g) \subseteq states
BY LiveElements DEF IInv, FlagInv

LEMMA CandidatesOf ==
    ASSUME NEW g \in Goroutines
    PROVE  Candidates[g] = IF g \in Alive THEN LiveEntries(g) ELSE {}
BY DEF Candidates

\* When tail()'s loop is over, what it returns is the candidate tracked last.
LEMMA CurrentIsTail ==
    ASSUME RInv, NEW g \in Goroutines, g \in Alive, TailStops(g)
    PROVE  Abstract!Current(g) = TailResult(g)
<1>1. TypeOK /\ stack[g] \in Seq(Spans) /\ Ascending(birth, stack[g]) /\ birth \in [Spans -> Nat]
    BY DEF RInv, IInv, TypeOK, HistoryInv, AgeInv
<1>2. Candidates[g] = LiveEntries(g)
    BY CandidatesOf
<1>3. CASE stack[g] = <<>>
  <2>1. LiveEntries(g) = {}
    BY <1>1, <1>3, LiveElements
  <2>2. QED
    BY <1>2, <1>3, <2>1 DEF Abstract!Current, TailResult, Empty
<1>4. CASE stack[g] # <<>>
  <2>1. PICK t : t = Last(stack[g])
    OBVIOUS
  <2>2. Len(stack[g]) \in 1..Len(stack[g]) /\ t = stack[g][Len(stack[g])] /\ t \notin ended
    BY <1>1, <1>4, <2>1, FrontProperties DEF Last, TailStops, Empty
  <2>3. t \in LiveEntries(g)
    BY <1>1, <2>2, LiveElements
  <2>4. ASSUME NEW s \in LiveEntries(g), s # t
        PROVE  birth[s] < birth[t] /\ birth[s] \in Nat /\ birth[t] \in Nat
    <3>1. PICK i \in 1..Len(stack[g]) : s = stack[g][i]
      BY <1>1, LiveElements
    <3>2. i < Len(stack[g])
      BY <2>2, <2>4, <3>1
    <3>3. QED
      BY <1>1, <2>2, <3>1, <3>2 DEF Ascending
  <2>5. \A s \in LiveEntries(g) :
           (\A u \in LiveEntries(g) : birth[u] <= birth[s]) <=> s = t
    <3>1. birth[t] \in Nat
      BY <1>1, <2>2
    <3>2. \A u \in LiveEntries(g) : birth[u] <= birth[t]
      BY <2>4, <3>1
    <3>3. ASSUME NEW s \in LiveEntries(g), s # t PROVE ~(birth[t] <= birth[s])
      BY <2>4, <3>3
    <3>4. QED
      BY <2>3, <3>2, <3>3
  <2>6. t = CHOOSE s \in LiveEntries(g) : \A u \in LiveEntries(g) : birth[u] <= birth[s]
    BY <2>3, <2>5
  <2>7. TailResult(g) = t
    BY <1>4, <2>1 DEF TailResult, Empty
  <2>8. LiveEntries(g) # {}
    BY <2>3
  <2>9. QED
    BY <1>2, <2>6, <2>7, <2>8 DEF Abstract!Current
<1>5. QED
    BY <1>3, <1>4

\* Without a context there is nothing to find.
LEMMA CurrentWithoutContext ==
    ASSUME RInv, NEW g \in Goroutines, ~hasTC[g]
    PROVE  /\ LiveEntries(g) = {} /\ Candidates[g] = {}
           /\ Abstract!Current(g) = NoSpan
<1>1. TypeOK /\ stack[g] = <<>>
    BY DEF RInv, IInv, HistoryInv, ContextInv
<1>2. LiveEntries(g) = {}
    BY <1>1, LiveElements
<1>3. Candidates[g] = {}
    BY <1>2, CandidatesOf
<1>4. QED
    BY <1>2, <1>3 DEF Abstract!Current

\* A goroutine that goes from one place of its hooks to another still exists.
LEMMA StillAlive ==
    ASSUME TypeOK, NEW g \in Goroutines, g \in Alive,
           NEW a, a \notin {"absent", "spawning"},
           pc' = pc \/ pc' = [pc EXCEPT ![g] = a]
    PROVE  Alive' = Alive
<1>1. \A h \in Goroutines : pc'[h] \in {"absent", "spawning"} <=> pc[h] \in {"absent", "spawning"}
    BY DEF TypeOK, Alive
<1>2. QED
    BY <1>1 DEF Alive

LEMMA CandidatesKept ==
    ASSUME Alive' = Alive, \A h \in Goroutines : LiveEntries(h)' = LiveEntries(h)
    PROVE  Candidates' = Candidates
BY DEF Candidates

\* Stacks and flags that stay return what they did.
LEMMA LiveUnchanged ==
    ASSUME UNCHANGED <<stack, ended>>, NEW h
    PROVE  LiveEntries(h)' = LiveEntries(h)
BY DEF LiveEntries

\* All but the unlinked element stay.
LEMMA RemoveAtElements ==
    ASSUME NEW S, NEW seq \in Seq(S), NEW i \in 1..Len(seq)
    PROVE  /\ RemoveAt(seq, i) \in Seq(S)
           /\ \A j \in 1..Len(RemoveAt(seq, i)) :
                 \E k \in 1..Len(seq) : RemoveAt(seq, i)[j] = seq[k]
           /\ \A k \in 1..Len(seq) : k # i =>
                 \E j \in 1..Len(RemoveAt(seq, i)) : seq[k] = RemoveAt(seq, i)[j]
<1>0. PICK r : r = RemoveAt(seq, i)
    OBVIOUS
<1>1. /\ r \in Seq(S) /\ Len(r) = Len(seq) - 1
      /\ \A j \in 1..(Len(seq) - 1) : r[j] = IF j < i THEN seq[j] ELSE seq[j + 1]
    BY <1>0, RemoveAtProperties
<1>2. PICK N \in Nat : N = Len(seq) /\ Len(r) = N - 1
    BY <1>1, LenProperties
<1>3. ASSUME NEW j \in 1..Len(r) PROVE \E k \in 1..Len(seq) : r[j] = seq[k]
  <2>1. j \in 1..N /\ j + 1 \in 1..N /\ j \in 1..(N - 1)
    BY <1>2
  <2>2. QED
    BY <1>1, <1>2, <2>1
<1>4. ASSUME NEW k \in 1..Len(seq), k # i PROVE \E j \in 1..Len(r) : seq[k] = r[j]
  <2>1. CASE k < i
    <3>1. k \in 1..(N - 1)
      BY <1>2, <2>1
    <3>2. QED
      BY <1>1, <1>2, <2>1, <3>1
  <2>2. CASE ~(k < i)
    <3>1. k - 1 \in 1..(N - 1) /\ ~(k - 1 < i) /\ (k - 1) + 1 = k
      BY <1>2, <1>4, <2>2
    <3>2. QED
      BY <1>1, <1>2, <3>1
  <2>3. QED
    BY <2>1, <2>2
<1>5. QED
    BY <1>0, <1>1, <1>3, <1>4

\* So does a stack from which an ended entry is unlinked.
LEMMA LiveUnlinked ==
    ASSUME TypeOK, TypeOK', NEW g \in Goroutines, NEW i \in 1..Len(stack[g]), stack[g][i] \in ended,
           stack' = [stack EXCEPT ![g] = RemoveAt(stack[g], i)], ended' = ended,
           NEW h \in Goroutines
    PROVE  LiveEntries(h)' = LiveEntries(h)
<1>1. CASE h # g
  <2>1. stack'[h] = stack[h]
    BY <1>1 DEF TypeOK
  <2>2. QED
    BY <2>1 DEF LiveEntries
<1>2. CASE h = g
  <2>1. PICK r : r = RemoveAt(stack[g], i)
    OBVIOUS
  <2>2. stack[g] \in Seq(Spans) /\ stack'[h] = r
    BY <1>2, <2>1 DEF TypeOK
  <2>3. /\ r \in Seq(Spans)
        /\ \A j \in 1..Len(r) : \E k \in 1..Len(stack[g]) : r[j] = stack[g][k]
        /\ \A k \in 1..Len(stack[g]) : k # i => \E j \in 1..Len(r) : stack[g][k] = r[j]
    <3>1. /\ RemoveAt(stack[g], i) \in Seq(Spans)
          /\ \A j \in 1..Len(RemoveAt(stack[g], i)) :
                \E k \in 1..Len(stack[g]) : RemoveAt(stack[g], i)[j] = stack[g][k]
          /\ \A k \in 1..Len(stack[g]) : k # i =>
                \E j \in 1..Len(RemoveAt(stack[g], i)) : stack[g][k] = RemoveAt(stack[g], i)[j]
      BY <2>2, RemoveAtElements
    <3>2. QED
      BY <2>1, <3>1
  <2>4. \A s : s \in LiveEntries(h)' <=> s \in LiveEntries(h)
    <3>1. \A s : s \in LiveEntries(h)' <=> s \notin ended /\ \E j \in 1..Len(r) : s = r[j]
      BY <2>2, <2>3 DEF LiveEntries, Range
    <3>2. \A s : s \in LiveEntries(h) <=>
                    s \notin ended /\ \E k \in 1..Len(stack[g]) : s = stack[g][k]
      BY <1>2, LiveElements
    <3>3. ASSUME NEW s, s \notin ended
          PROVE  (\E j \in 1..Len(r) : s = r[j]) <=> (\E k \in 1..Len(stack[g]) : s = stack[g][k])
      BY <2>3, <3>3
    <3>4. QED
      BY <3>1, <3>2, <3>3
  <2>5. QED
    BY <2>4
<1>3. QED
    BY <1>1, <1>2

\* The abstract phase is the one of the application, but for spans whose parent is
\* being looked up.
LEMMA PhaseKept ==
    ASSUME phase' = phase, \A s \in Spans : Choosing(s)' <=> Choosing(s)
    PROVE  AbstractPhase' = AbstractPhase
BY DEF AbstractPhase

LEMMA PhaseSet ==
    ASSUME TypeOK, NEW s \in Spans, NEW x, ~Choosing(s)',
           phase'[s] = IF x = "started" THEN "creating" ELSE x,
           x \in {"started", "live", "done"},
           \A t \in Spans : t # s => phase'[t] = phase[t] /\ (Choosing(t)' <=> Choosing(t))
    PROVE  AbstractPhase' = [AbstractPhase EXCEPT ![s] = x]
<1>1. ASSUME NEW t \in Spans, t # s PROVE AbstractPhase'[t] = AbstractPhase[t]
    BY <1>1 DEF AbstractPhase
<1>2. AbstractPhase'[s] = x
    BY DEF AbstractPhase
<1>3. QED
    BY <1>1, <1>2 DEF AbstractPhase

\* Who looks up a parent does not change unless a goroutine begins or ends to.
LEMMA ChoosingKept ==
    ASSUME TypeOK, NEW g \in Goroutines,
           \A h \in Goroutines : h # g => (pc'[h] = "startTail" <=> pc[h] = "startTail")
                                          /\ (pc[h] = "startTail" => arg'[h] = arg[h]),
           pc[g] # "startTail", pc'[g] # "startTail"
    PROVE  \A s : Choosing(s)' <=> Choosing(s)
BY DEF Choosing

LEMMA PendingOf ==
    ASSUME NEW g \in Goroutines
    PROVE  Pending[g] = IF pc[g] \in {"startUse", "add", "compact", "track"} THEN arg[g] ELSE NoSpan
BY DEF Pending

LEMMA PendingKept ==
    ASSUME \A h \in Goroutines :
              /\ pc'[h] \in {"startUse", "add", "compact", "track"} <=> pc[h] \in {"startUse", "add", "compact", "track"}
              /\ pc[h] \in {"startUse", "add", "compact", "track"} => arg'[h] = arg[h]
    PROVE  Pending' = Pending
BY DEF Pending

LEMMA PendingSet ==
    ASSUME NEW g \in Goroutines, NEW x,
           x = IF pc'[g] \in {"startUse", "add", "compact", "track"} THEN arg'[g] ELSE NoSpan,
           \A h \in Goroutines : h # g => pc'[h] = pc[h] /\ arg'[h] = arg[h]
    PROVE  Pending' = [Pending EXCEPT ![g] = x]
<1>1. \A h \in Goroutines : Pending'[h] = IF h = g THEN x ELSE Pending[h]
    BY DEF Pending
<1>2. QED
    BY <1>1 DEF Pending

LEMMA SameCardinality == \A S : Abstract!Cardinality(S) = Cardinality(S)
BY DEF Abstract!Cardinality, Cardinality

\* A step that the abstract state does not show.
AbstractStutter == UNCHANGED Abstract!vars

LEMMA Hidden ==
    ASSUME Alive' = Alive, Pending' = Pending, Candidates' = Candidates,
           AbstractPhase' = AbstractPhase, UNCHANGED <<states, found, birth, crowded>>
    PROVE  AbstractStutter
BY DEF AbstractStutter, Abstract!vars

\* A hook moves on, and neither the flags nor what the stacks return changes.
LEMMA HiddenMove ==
    ASSUME RInv, TypeOK', NEW g \in Goroutines, g \in Alive,
           NEW a \in Pc \ {"absent", "spawning", "startTail"},
           pc' = pc \/ (pc[g] # "startTail" /\ pc' = [pc EXCEPT ![g] = a]),
           pc'[g] \in {"startUse", "add", "compact", "track"} <=> pc[g] \in {"startUse", "add", "compact", "track"},
           pc[g] \notin {"run", "del"} => arg' = arg,
           \A h \in Goroutines : h # g => arg'[h] = arg[h],
           phase' = phase, \A h \in Goroutines : LiveEntries(h)' = LiveEntries(h),
           UNCHANGED <<states, found, birth, crowded>>
    PROVE  AbstractStutter
<1>1. TypeOK
    BY DEF RInv, IInv
<1>2. \A h \in Goroutines : h # g => pc'[h] = pc[h]
    BY <1>1 DEF TypeOK
<1>3. Alive' = Alive
    BY <1>1, StillAlive DEF Pc
<1>4. Candidates' = Candidates
    BY <1>3, CandidatesKept
<1>5. Pending' = Pending
    BY <1>2, PendingKept
<1>6. \A s \in Spans : Choosing(s)' <=> Choosing(s)
  <2>1. CASE pc' = pc /\ arg' = arg
    BY <2>1 DEF Choosing
  <2>2. CASE pc[g] # "startTail" /\ pc'[g] # "startTail"
    BY <1>1, <1>2, <2>2, ChoosingKept
  <2>3. pc[g] # "startTail" => pc'[g] # "startTail"
    BY <1>1 DEF TypeOK
  <2>4. QED
    BY <2>1, <2>2, <2>3
<1>7. AbstractPhase' = AbstractPhase
    BY <1>6, PhaseKept
<1>8. QED
    BY <1>3, <1>4, <1>5, <1>7, Hidden

\* tail(), compact() and del() unlink what has ended: nobody notices.
LEMMA UnlinkingIsHidden ==
    ASSUME RInv, TypeOK', NEW g \in Goroutines, TailPop(g) \/ CompactStep(g) \/ Del(g)
    PROVE  AbstractStutter
<1>1. TypeOK /\ IInv
    BY DEF RInv, IInv
<1>2. CASE TailPop(g)
  <2>1. /\ stack[g] \in Seq(Spans) /\ stack[g] # <<>> /\ pc[g] \in TailPc
        /\ Last(stack[g]) \in ended /\ stack' = [stack EXCEPT ![g] = Front(stack[g])]
        /\ UNCHANGED <<pc, arg, ended, states, phase, found, birth, crowded>>
    BY <1>1, <1>2 DEF TailPop, sharedVars, historyVars, Empty, TypeOK
  <2>2. g \in Alive
    BY <2>1 DEF Alive, TailPc
  <2>3. \A h \in Goroutines : LiveEntries(h)' = LiveEntries(h)
    <3>1. PICK f : f = Front(stack[g])
      OBVIOUS
    <3>2. /\ f \in Seq(Spans) /\ Len(f) = Len(stack[g]) - 1 /\ Len(stack[g]) \in Nat
          /\ Len(stack[g]) \in 1..Len(stack[g]) /\ Last(stack[g]) = stack[g][Len(stack[g])]
          /\ \A j \in 1..(Len(stack[g]) - 1) : f[j] = stack[g][j]
      BY <2>1, <3>1, FrontProperties, LenProperties DEF Last
    <3>3. stack'[g] = f /\ \A h \in Goroutines : h # g => stack'[h] = stack[h]
      BY <1>1, <2>1, <3>1 DEF TypeOK
    <3>4. \A s : s \in LiveEntries(g)' <=> s \notin ended /\ \E j \in 1..Len(f) : s = f[j]
      BY <2>1, <3>2, <3>3 DEF LiveEntries, Range
    <3>5. \A s : s \in LiveEntries(g) <=> s \notin ended /\ \E j \in 1..Len(stack[g]) : s = stack[g][j]
      BY <1>1, LiveElements
    <3>6. ASSUME NEW s, s \notin ended
          PROVE  (\E j \in 1..Len(f) : s = f[j]) <=> (\E j \in 1..Len(stack[g]) : s = stack[g][j])
      <4>1. \A j \in 1..Len(stack[g]) : j \in 1..Len(f) \/ j = Len(stack[g])
        BY <3>2
      <4>2. \A j \in 1..Len(f) : j \in 1..Len(stack[g]) /\ f[j] = stack[g][j]
        BY <3>2
      <4>3. stack[g][Len(stack[g])] # s
        BY <2>1, <3>2, <3>6
      <4>4. QED
        BY <4>1, <4>2, <4>3
    <3>7. LiveEntries(g)' = LiveEntries(g)
      BY <3>4, <3>5, <3>6
    <3>8. \A h \in Goroutines : h # g => LiveEntries(h)' = LiveEntries(h)
      BY <2>1, <3>3 DEF LiveEntries
    <3>9. QED
      BY <3>7, <3>8
  <2>4. "run" \in Pc \ {"absent", "spawning", "startTail"}
    BY DEF Pc, TailPc
  <2>5. QED
    BY <2>1, <2>2, <2>3, <2>4, HiddenMove
<1>3. CASE CompactStep(g)
  <2>1. /\ pc[g] = "compact" /\ cursor[g] \in 1..Len(stack[g])
        /\ \/ /\ stack[g][cursor[g]] \in ended
              /\ stack' = [stack EXCEPT ![g] = RemoveAt(stack[g], cursor[g])]
           \/ stack' = stack
        /\ UNCHANGED <<pc, arg, ended, states, phase, found, birth, crowded>>
    BY <1>1, <1>3 DEF CompactStep, IInv, TypeOK, CompactInv, sharedVars, historyVars
  <2>2. g \in Alive
    BY <2>1 DEF Alive
  <2>3. \A h \in Goroutines : LiveEntries(h)' = LiveEntries(h)
    BY <1>1, <2>1, LiveUnlinked, LiveUnchanged
  <2>4. "run" \in Pc \ {"absent", "spawning", "startTail"}
    BY DEF Pc, TailPc
  <2>5. QED
    BY <2>1, <2>2, <2>3, <2>4, HiddenMove
<1>4. CASE Del(g)
  <2>1. /\ pc[g] = "del" /\ pc' = [pc EXCEPT ![g] = "run"]
        /\ UNCHANGED <<child, hasTC, ended, states, order, phase, found, birth, crowded>>
        /\ \/ stack' = stack
           \/ \E i \in 1..Len(stack[g]) :
                 stack[g][i] \in ended /\ stack' = [stack EXCEPT ![g] = RemoveAt(stack[g], i)]
    BY <1>1, <1>4, DelUnlinks
  <2>2. g \in Alive
    BY <2>1 DEF Alive
  <2>3. \A h \in Goroutines : LiveEntries(h)' = LiveEntries(h)
    BY <1>1, <2>1, LiveUnlinked, LiveUnchanged
  <2>4. "run" \in Pc \ {"absent", "spawning", "startTail"}
    BY DEF Pc, TailPc
  <2>5. \A h \in Goroutines : h # g => arg'[h] = arg[h]
    BY <1>1, <1>4 DEF Del, TypeOK
  <2>6. pc'[g] = "run"
    BY <1>1, <2>1 DEF TypeOK
  <2>7. QED
    BY <2>1, <2>2, <2>3, <2>4, <2>5, <2>6, HiddenMove
<1>5. QED
    BY <1>2, <1>3, <1>4

\* The SDK takes its parent, reads begin and return, compact() ends, and newproc1 begins to clone.
LEMMA MovesAreHidden ==
    ASSUME RInv, TypeOK', NEW g \in Goroutines,
           \/ StartWithParent(g) \/ CompactMadeRoom(g) \/ SpanFromGLS(g)
           \/ GetTraceContext(g) \/ ReadReturn(g)
    PROVE  AbstractStutter
<1>1. TypeOK
    BY DEF RInv, IInv
<1>2. UNCHANGED <<arg, stack, ended, states, phase, found, birth, crowded>>
    BY DEF StartWithParent, CompactMadeRoom, SpanFromGLS, GetTraceContext, ReadReturn, tcVars, sharedVars,
           historyVars
<1>3. PICK a \in Pc \ {"absent", "spawning", "startTail"} :
         /\ pc' = [pc EXCEPT ![g] = a] /\ pc[g] \notin {"absent", "spawning", "startTail"}
         /\ a \in {"startUse", "add", "compact", "track"} <=> pc[g] \in {"startUse", "add", "compact", "track"}
    BY DEF StartWithParent, CompactMadeRoom, SpanFromGLS, GetTraceContext, ReadReturn, Pc, TailPc
<1>4. g \in Alive /\ pc'[g] = a
    BY <1>1, <1>3 DEF Alive, TypeOK
<1>5. \A h \in Goroutines : LiveEntries(h)' = LiveEntries(h)
    BY <1>2, LiveUnchanged
<1>6. QED
    BY <1>2, <1>3, <1>4, <1>5, HiddenMove

LEMMA GoIsHidden ==
    ASSUME RInv, NEW g \in Goroutines, NEW h \in Goroutines, GoWithContext(g, h)
    PROVE  AbstractStutter
<1>1. TypeOK
    BY DEF RInv, IInv
<1>2. /\ pc[g] = "run" /\ pc[h] = "absent" /\ pc' = [pc EXCEPT ![g] = "forkTail", ![h] = "spawning"]
      /\ UNCHANGED <<arg, stack, ended, states, phase, found, birth, crowded>>
    BY DEF GoWithContext, tcVars, sharedVars, historyVars
<1>3. /\ pc'[g] = "forkTail" /\ pc'[h] = "spawning"
      /\ \A k \in Goroutines : k \notin {g, h} => pc'[k] = pc[k]
    BY <1>1, <1>2 DEF TypeOK
<1>4. Alive' = Alive
    BY <1>2, <1>3 DEF Alive
<1>5. Candidates' = Candidates
    BY <1>2, <1>4, LiveUnchanged, CandidatesKept
<1>6. Pending' = Pending
    BY <1>2, <1>3, PendingKept
<1>7. AbstractPhase' = AbstractPhase
  <2>1. \A s : Choosing(s)' <=> Choosing(s)
    BY <1>2, <1>3 DEF Choosing
  <2>2. QED
    BY <1>2, <2>1, PhaseKept
<1>8. QED
    BY <1>2, <1>4, <1>5, <1>6, <1>7, Hidden

\* The capacity test: shown only if the stack is full of live spans.
LEMMA AddBeginSteps ==
    ASSUME RInv, TypeOK', NEW g \in Goroutines, AddBegin(g)
    PROVE  Abstract!FindCrowded(g) \/ AbstractStutter
<1>1. TypeOK /\ stack[g] \in Seq(Spans) /\ Len(stack[g]) \in Nat
    BY LenProperties DEF RInv, IInv, TypeOK
<1>2. PICK b \in BOOLEAN : b = \A i \in 1..Len(stack[g]) : stack[g][i] \notin ended
    OBVIOUS
<1>3. /\ pc[g] = "add"
      /\ \/ n[g] >= MaxSpans /\ crowded' = [crowded EXCEPT ![g] = b]
         \/ crowded' = crowded
      /\ \E a \in {"compact", "track"} : pc' = [pc EXCEPT ![g] = a]
      /\ UNCHANGED <<arg, stack, ended, states, phase, found, birth>>
    BY <1>2 DEF AddBegin, sharedVars
<1>4. /\ g \in Alive /\ pc'[g] \in {"compact", "track"}
      /\ \A h \in Goroutines : h # g => pc'[h] = pc[h]
    BY <1>1, <1>3 DEF Alive, TypeOK
<1>5. Alive' = Alive
    BY <1>1, <1>3, <1>4, StillAlive
<1>6. Candidates' = Candidates
    BY <1>3, <1>5, LiveUnchanged, CandidatesKept
<1>7. Pending' = Pending
    BY <1>3, <1>4, PendingKept
<1>8. AbstractPhase' = AbstractPhase
  <2>1. \A s \in Spans : Choosing(s)' <=> Choosing(s)
    BY <1>1, <1>3, <1>4, ChoosingKept
  <2>2. QED
    BY <1>3, <2>1, PhaseKept
<1>9. CASE crowded' = crowded
    BY <1>3, <1>5, <1>6, <1>7, <1>8, <1>9, Hidden
<1>10. CASE n[g] >= MaxSpans /\ crowded' = [crowded EXCEPT ![g] = b] /\ ~b
  <2>1. ~crowded[g]
    BY <1>3 DEF RInv, HistoryInv, ContextInv
  <2>2. crowded' = crowded
    BY <1>1, <1>10, <2>1 DEF TypeOK
  <2>3. QED
    BY <1>9, <2>2
<1>11. CASE n[g] >= MaxSpans /\ crowded' = [crowded EXCEPT ![g] = b] /\ b
  <2>1. IsInjective(stack[g])
    <3>1. Ascending(birth, stack[g]) /\ \A i \in 1..Len(stack[g]) : birth[stack[g][i]] \in Nat
      <4>1. Ascending(birth, stack[g])
        BY <1>1 DEF RInv, HistoryInv, AgeInv
      <4>2. stack[g] \in Seq(Spans) /\ birth \in [Spans -> Nat]
        BY <1>1 DEF RInv, IInv, TypeOK
      <4>3. QED
        BY <4>1, <4>2
    <3>2. ASSUME NEW i \in 1..Len(stack[g]), NEW j \in 1..Len(stack[g]), stack[g][i] = stack[g][j]
          PROVE  i = j
      <4>1. ~(i < j) /\ ~(j < i)
        BY <3>1, <3>2 DEF Ascending
      <4>2. QED
        BY <1>1, <4>1
    <3>3. QED
      BY <1>1, <3>2 DEF IsInjective
  <2>2. LiveEntries(g) = Range(stack[g])
    <3>1. \A i \in 1..Len(stack[g]) : stack[g][i] \notin ended
      BY <1>2, <1>11
    <3>2. DOMAIN stack[g] = 1..Len(stack[g])
      BY <1>1, LenProperties
    <3>3. \A s : s \in LiveEntries(g) <=> s \in Range(stack[g])
      BY <1>1, <3>1, <3>2, LiveElements DEF Range
    <3>4. QED
      BY <3>3
  <2>3. Cardinality(LiveEntries(g)) = Len(stack[g])
    BY <1>1, <2>1, <2>2, InjectiveLen
  <2>4. Len(stack[g]) >= MaxSpans
    BY <1>11 DEF RInv, IInv, CountInv
  <2>5. Cardinality(Candidates[g]) >= MaxSpans
    BY <1>4, <2>3, <2>4, CandidatesOf
  <2>6. arg[g] \in Spans /\ Pending[g] = arg[g]
    BY <1>3, PendingOf DEF RInv, IInv, ArgInv, CreatingPc
  <2>7. Pending[g] # NoSpan
    BY <2>6, GLSAssumption
  <2>8. crowded' = [crowded EXCEPT ![g] = TRUE]
    BY <1>11
  <2>9. Abstract!FindCrowded(g)
    BY <1>3, <1>5, <1>6, <1>7, <1>8, <2>5, <2>7, <2>8, SameCardinality DEF Abstract!FindCrowded
  <2>10. QED
    BY <2>9
<1>12. QED
    BY <1>3, <1>9, <1>10, <1>11

\* The abstract Start, from its parts.
LEMMA Started ==
    ASSUME TypeOK, NEW g \in Goroutines, NEW s \in Spans, NEW p,
           g \in Alive, Pending[g] = NoSpan, AbstractPhase[s] = "unborn",
           AbstractPhase' = [AbstractPhase EXCEPT ![s] = "started"],
           p \in {CtxSpan, Abstract!Current(g)}, found' = [found EXCEPT ![s] = p],
           Pending' = [Pending EXCEPT ![g] = s],
           Alive' = Alive, Candidates' = Candidates, UNCHANGED <<states, birth, crowded>>
    PROVE  Abstract!Start(g, s)
BY DEF Abstract!Start

\* A span whose parent is known at once starts at once.
LEMMA StartSteps ==
    ASSUME RInv, NEW g \in Goroutines, NEW s \in Spans,
           StartWithContextSpan(g, s) \/ StartWithoutContextSpan(g, s)
    PROVE  Abstract!Start(g, s) \/ AbstractStutter
<1>1. TypeOK
    BY DEF RInv, IInv
<1>2. PICK a \in {"add", "startTail"} : pc' = [pc EXCEPT ![g] = a]
    BY DEF StartWithContextSpan, StartWithoutContextSpan
<1>3. /\ pc[g] = "run" /\ phase[s] = "unborn" /\ phase' = [phase EXCEPT ![s] = "creating"]
      /\ arg' = [arg EXCEPT ![g] = s]
      /\ UNCHANGED <<hasTC, stack, ended, states, birth, crowded>>
    BY DEF StartWithContextSpan, StartWithoutContextSpan, tcVars, sharedVars, historyVars
<1>4. g \in Alive /\ Alive' = Alive
    BY <1>1, <1>2, <1>3, StillAlive DEF Alive
<1>5. Candidates' = Candidates
    BY <1>3, <1>4, LiveUnchanged, CandidatesKept
<1>6. /\ pc'[g] = a /\ arg'[g] = s
      /\ \A h \in Goroutines : h # g => pc'[h] = pc[h] /\ arg'[h] = arg[h]
    BY <1>1, <1>2, <1>3 DEF TypeOK
<1>7. ~Choosing(s) /\ \A t \in Spans : t # s => (Choosing(t)' <=> Choosing(t))
  <2>1. ~Choosing(s)
    BY <1>3 DEF Choosing, RInv, IInv, ArgInv, CreatingPc
  <2>2. \A t \in Spans : t # s => (Choosing(t)' <=> Choosing(t))
    BY <1>3, <1>6 DEF Choosing
  <2>3. QED
    BY <2>1, <2>2
<1>8. phase'[s] = "creating" /\ \A t \in Spans : t # s => phase'[t] = phase[t]
    BY <1>1, <1>3 DEF TypeOK
<1>9. AbstractPhase[s] = "unborn"
    BY <1>3 DEF AbstractPhase
<1>10. CASE a = "add"
  <2>1. ~Choosing(s)'
    BY <1>3, <1>6, <1>7, <1>10 DEF Choosing
  <2>2. AbstractPhase' = [AbstractPhase EXCEPT ![s] = "started"]
    BY <1>1, <1>7, <1>8, <2>1, PhaseSet
  <2>3. Pending[g] = NoSpan /\ Pending' = [Pending EXCEPT ![g] = s]
    BY <1>3, <1>6, <1>10, PendingOf, PendingSet
  <2>4. PICK p \in {CtxSpan, Abstract!Current(g)} : found' = [found EXCEPT ![s] = p]
    <3>1. CASE StartWithContextSpan(g, s)
      BY <3>1 DEF StartWithContextSpan
    <3>2. CASE StartWithoutContextSpan(g, s)
      <4>1. found' = found /\ ~hasTC[g]
        <5>1. "add" # "startTail"
          OBVIOUS
        <5>2. found' = found /\ pc'[g] = IF hasTC[g] THEN "startTail" ELSE "add"
          BY <1>1, <3>2 DEF StartWithoutContextSpan, TypeOK
        <5>3. QED
          BY <1>6, <1>10, <5>1, <5>2
      <4>2. Abstract!Current(g) = NoSpan
        BY <4>1, CurrentWithoutContext
      <4>3. found[s] = NoSpan
        BY <1>3 DEF RInv, HistoryInv, ContextInv
      <4>4. found' = [found EXCEPT ![s] = NoSpan]
        BY <1>1, <4>1, <4>3 DEF TypeOK
      <4>5. QED
        BY <4>2, <4>4
    <3>3. QED
      BY <3>1, <3>2
  <2>5. Abstract!Start(g, s)
    BY <1>1, <1>3, <1>4, <1>5, <1>9, <2>2, <2>3, <2>4, Started
  <2>6. QED
    BY <2>5
<1>11. CASE a = "startTail"
  <2>1. Choosing(s)'
    BY <1>6, <1>11 DEF Choosing
  <2>2. AbstractPhase' = AbstractPhase
    <3>1. \A t \in Spans : t # s => AbstractPhase'[t] = AbstractPhase[t]
      BY <1>7, <1>8 DEF AbstractPhase
    <3>2. AbstractPhase'[s] = "unborn"
      BY <1>8, <2>1 DEF AbstractPhase
    <3>3. QED
      BY <1>9, <3>1, <3>2 DEF AbstractPhase
  <2>3. Pending' = Pending
    BY <1>3, <1>6, <1>11, PendingKept
  <2>4. found' = found
    <3>1. ~StartWithContextSpan(g, s)
      <4>1. SUFFICES ASSUME StartWithContextSpan(g, s) PROVE FALSE
        OBVIOUS
      <4>2. pc' = [pc EXCEPT ![g] = "add"]
        BY <4>1 DEF StartWithContextSpan
      <4>3. pc'[g] = "add" /\ "add" # "startTail"
        BY <1>1, <4>2 DEF TypeOK
      <4>4. QED
        BY <1>6, <1>11, <4>3
    <3>2. QED
      BY <3>1 DEF StartWithoutContextSpan
  <2>5. QED
    BY <1>3, <1>4, <1>5, <2>2, <2>3, <2>4, Hidden
<1>12. QED
    BY <1>10, <1>11

\* A span whose parent had to be looked up starts when tail() returns it.
LEMMA StartTailReturnSteps ==
    ASSUME RInv, NEW g \in Goroutines, StartTailReturn(g)
    PROVE  \E s \in Spans : Abstract!Start(g, s)
<1>1. TypeOK /\ ArgInv
    BY DEF RInv, IInv
<1>2. PICK s : s = arg[g]
    OBVIOUS
<1>3. /\ pc[g] = "startTail" /\ pc' = [pc EXCEPT ![g] = "startUse"] /\ TailStops(g)
      /\ found' = [found EXCEPT ![s] = TailResult(g)]
      /\ UNCHANGED <<arg, stack, ended, states, phase, birth, crowded>>
    BY <1>2 DEF StartTailReturn, sharedVars, historyVars
<1>4. s \in Spans /\ phase[s] = "creating" /\ Choosing(s)
    BY <1>1, <1>2, <1>3 DEF ArgInv, CreatingPc, Choosing
<1>5. g \in Alive /\ Alive' = Alive
    BY <1>1, <1>3, StillAlive DEF Alive
<1>6. Candidates' = Candidates
    BY <1>3, <1>5, LiveUnchanged, CandidatesKept
<1>7. pc'[g] = "startUse" /\ \A h \in Goroutines : h # g => pc'[h] = pc[h]
    BY <1>1, <1>3 DEF TypeOK
<1>8. ~Choosing(s)' /\ \A t \in Spans : t # s => (Choosing(t)' <=> Choosing(t))
  <2>1. ASSUME NEW h \in Goroutines, pc'[h] = "startTail", arg'[h] = s PROVE FALSE
    <3>1. h # g /\ pc[h] = "startTail" /\ arg[h] = s
      BY <1>3, <1>7, <2>1
    <3>2. QED
      BY <1>1, <1>2, <1>3, <3>1 DEF ArgInv, CreatingPc
  <2>2. \A t \in Spans : t # s => (Choosing(t)' <=> Choosing(t))
    BY <1>2, <1>3, <1>7 DEF Choosing
  <2>3. QED
    BY <2>1, <2>2 DEF Choosing
<1>9. AbstractPhase[s] = "unborn"
    BY <1>4 DEF AbstractPhase
<1>10. AbstractPhase' = [AbstractPhase EXCEPT ![s] = "started"]
    BY <1>1, <1>3, <1>4, <1>8, PhaseSet
<1>11. Pending[g] = NoSpan /\ Pending' = [Pending EXCEPT ![g] = s]
    BY <1>2, <1>3, <1>7, PendingOf, PendingSet
<1>12. Abstract!Current(g) = TailResult(g)
    BY <1>3, <1>5, CurrentIsTail
<1>13. Abstract!Start(g, s)
    BY <1>1, <1>3, <1>4, <1>5, <1>6, <1>9, <1>10, <1>11, <1>12, Started
<1>14. QED
    BY <1>4, <1>13

\* add() turns a span away.
LEMMA RefuseSteps ==
    ASSUME RInv, NEW g \in Goroutines, AddRefused(g)
    PROVE  Abstract!Refuse(g)
<1>1. TypeOK /\ ArgInv /\ CompactInv
    BY DEF RInv, IInv
<1>2. PICK s : s = arg[g]
    OBVIOUS
<1>3. /\ pc[g] = "compact" /\ cursor[g] = 0 /\ n[g] >= MaxSpans
      /\ pc' = [pc EXCEPT ![g] = "run"] /\ arg' = [arg EXCEPT ![g] = NoSpan]
      /\ phase' = [phase EXCEPT ![s] = "live"] /\ crowded' = [crowded EXCEPT ![g] = FALSE]
      /\ UNCHANGED <<stack, ended, states, found, birth>>
    BY <1>2 DEF AddRefused, sharedVars
<1>4. s \in Spans /\ phase[s] = "creating" /\ Pending[g] = s /\ s # NoSpan
    BY <1>1, <1>2, <1>3, PendingOf, GLSAssumption DEF ArgInv, CreatingPc
<1>5. crowded[g]
  <2>1. ~(n[g] < MaxSpans)
    BY <1>1, <1>3, GLSAssumption DEF TypeOK
  <2>2. ~\E i \in 1..cursor[g] : stack[g][i] \in ended
    BY <1>3
  <2>3. QED
    BY <1>1, <1>3, <2>1, <2>2 DEF CompactInv
<1>6. g \in Alive /\ Alive' = Alive
    BY <1>1, <1>3, StillAlive DEF Alive
<1>7. Candidates' = Candidates
    BY <1>3, <1>6, LiveUnchanged, CandidatesKept
<1>8. /\ pc'[g] = "run"
      /\ \A h \in Goroutines : h # g => pc'[h] = pc[h] /\ arg'[h] = arg[h]
    BY <1>1, <1>3 DEF TypeOK
<1>9. Pending' = [Pending EXCEPT ![g] = NoSpan]
    BY <1>8, PendingSet
<1>10. \A t : Choosing(t)' <=> Choosing(t)
    BY <1>3, <1>8 DEF Choosing
<1>11. ~Choosing(s)
    BY <1>1, <1>2, <1>3 DEF Choosing, ArgInv, CreatingPc
<1>12. AbstractPhase' = [AbstractPhase EXCEPT ![s] = "live"]
  <2>1. phase'[s] = "live" /\ \A t \in Spans : t # s => phase'[t] = phase[t]
    BY <1>1, <1>3, <1>4 DEF TypeOK
  <2>2. QED
    BY <1>1, <1>4, <1>10, <1>11, <2>1, PhaseSet
<1>13. QED
    BY <1>3, <1>4, <1>5, <1>6, <1>7, <1>9, <1>12 DEF Abstract!Refuse

\* End, on whichever goroutine.
LEMMA EndSteps ==
    ASSUME RInv, NEW g \in Goroutines, NEW s \in Spans, MarkSpanEnded(g, s)
    PROVE  Abstract!End(s)
<1>1. TypeOK /\ ArgInv
    BY DEF RInv, IInv
<1>2. /\ pc[g] = "run" /\ phase[s] \in {"live", "done"} /\ phase' = [phase EXCEPT ![s] = "done"]
      /\ \/ pc' = pc /\ arg' = arg
         \/ pc' = [pc EXCEPT ![g] = "del"] /\ arg' = [arg EXCEPT ![g] = s]
      /\ UNCHANGED <<stack, found, birth, crowded>>
    BY DEF MarkSpanEnded, tcVars, historyVars
<1>3. states' = states \ {s} /\ ended' = IF s \in states THEN ended \cup {s} ELSE ended
    BY DEF MarkSpanEnded, sharedVars
<1>4. g \in Alive /\ Alive' = Alive
    BY <1>1, <1>2, StillAlive DEF Alive
<1>5. ASSUME NEW h \in Goroutines PROVE LiveEntries(h)' = LiveEntries(h) \ {s}
  <2>1. LiveEntries(h) \subseteq states
    BY LiveIsTracked DEF RInv
  <2>2. LiveEntries(h)' = {x \in Range(stack[h]) : x \notin ended'}
    BY <1>2 DEF LiveEntries
  <2>3. QED
    BY <1>3, <2>1, <2>2 DEF LiveEntries
<1>6. Candidates' = [h \in Goroutines |-> Candidates[h] \ {s}]
    BY <1>4, <1>5 DEF Candidates
<1>7. /\ pc'[g] \in {"run", "del"}
      /\ \A h \in Goroutines : h # g => pc'[h] = pc[h] /\ arg'[h] = arg[h]
    BY <1>1, <1>2 DEF TypeOK
<1>8. Pending' = Pending
    BY <1>2, <1>7, PendingKept
<1>9. \A t : Choosing(t)' <=> Choosing(t)
    BY <1>2, <1>7 DEF Choosing
<1>10. ~Choosing(s)
    BY <1>1, <1>2 DEF Choosing, ArgInv, CreatingPc
<1>11. AbstractPhase' = [AbstractPhase EXCEPT ![s] = "done"]
  <2>1. phase'[s] = "done" /\ \A t \in Spans : t # s => phase'[t] = phase[t]
    BY <1>1, <1>2 DEF TypeOK
  <2>2. QED
    BY <1>1, <1>9, <1>10, <2>1, PhaseSet
<1>12. AbstractPhase[s] \in {"live", "done"}
    BY <1>2 DEF AbstractPhase
<1>13. QED
    BY <1>2, <1>3, <1>4, <1>6, <1>8, <1>11, <1>12 DEF Abstract!End

\* The head of the eviction list is the span tracked for longest.
LEMMA HeadIsOldest ==
    ASSUME RInv, order # <<>>
    PROVE  {v \in states : \A t \in states : birth[v] <= birth[t]} = {Head(order)}
<1>1. /\ order \in Seq(Spans) /\ states = Range(order) /\ states \subseteq Spans
      /\ Ascending(birth, order) /\ birth \in [Spans -> Nat]
    BY DEF RInv, IInv, TypeOK, OrderInv, HistoryInv, AgeInv
<1>2. PICK N, h : N \in Nat /\ N = Len(order) /\ h = Head(order)
    BY <1>1, LenProperties
<1>3. 1 \in 1..N /\ h = order[1] /\ states = {order[i] : i \in 1..N}
    BY <1>1, <1>2, LenProperties, HeadTailProperties DEF Range
<1>4. h \in states /\ h \in Spans
    BY <1>1, <1>3
<1>5. ASSUME NEW t \in states, t # h PROVE birth[h] < birth[t]
  <2>1. PICK i \in 1..N : t = order[i]
    BY <1>3
  <2>2. 1 < i
    BY <1>2, <1>3, <1>5, <2>1
  <2>3. QED
    BY <1>1, <1>2, <1>3, <2>1, <2>2 DEF Ascending
<1>6. \A t \in states : birth[t] \in Nat
    BY <1>1
<1>7. \A t \in states : birth[h] <= birth[t]
    BY <1>4, <1>5, <1>6
<1>8. \A v \in states : v # h => ~(birth[v] <= birth[h])
    BY <1>4, <1>5, <1>6
<1>9. QED
    BY <1>2, <1>4, <1>7, <1>8

\* Eviction, as the code decides on it and as it is promised.
LEMMA Evicted ==
    ASSUME RInv
    PROVE  (IF Cardinality(states) < MaxSpanStates THEN {}
            ELSE {v \in states : \A t \in states : birth[v] <= birth[t]})
           = IF MustEvict THEN {Head(order)} ELSE {}
<1>1. /\ order \in Seq(Spans) /\ states = Range(order) /\ IsInjective(order)
    BY DEF RInv, IInv, TypeOK, OrderInv
<1>2. Cardinality(states) = Len(order) /\ Len(order) \in Nat
    BY <1>1, InjectiveLen, LenProperties
<1>3. Cardinality(states) < MaxSpanStates \/ order # <<>>
  <2>1. order = <<>> => Len(order) = 0
    OBVIOUS
  <2>2. QED
    BY <1>2, <2>1, GLSAssumption
<1>4. MustEvict <=> ~(Cardinality(states) < MaxSpanStates)
    BY <1>2, <1>3, GLSAssumption DEF MustEvict, Empty
<1>5. QED
    BY <1>3, <1>4, HeadIsOldest

\* Below the limit of the stack there are fewer candidates than that.
LEMMA RoomForOne ==
    ASSUME RInv, NEW g \in Goroutines, pc[g] = "track"
    PROVE  Cardinality(LiveEntries(g)) < MaxSpans
<1>1. stack[g] \in Seq(Spans) /\ Len(stack[g]) \in Nat /\ Len(stack[g]) < MaxSpans
    BY LenProperties DEF RInv, IInv, TypeOK, CountInv
<1>2. birth \in [Spans -> Nat] /\ Ascending(birth, stack[g])
    BY DEF RInv, IInv, TypeOK, HistoryInv, AgeInv
<1>3. IsInjective(stack[g])
  <2>1. ASSUME NEW i \in 1..Len(stack[g]), NEW j \in 1..Len(stack[g]), stack[g][i] = stack[g][j]
        PROVE  i = j
    <3>1. ~(i < j) /\ ~(j < i)
      BY <1>1, <1>2, <2>1 DEF Ascending
    <3>2. QED
      BY <1>1, <3>1
  <2>2. QED
    BY <1>1, <2>1 DEF IsInjective
<1>4. IsFiniteSet(Range(stack[g])) /\ Cardinality(Range(stack[g])) = Len(stack[g])
    BY <1>1, <1>3, InjectiveLen
<1>5. LiveEntries(g) \subseteq Range(stack[g])
    BY DEF LiveEntries
<1>6. /\ IsFiniteSet(LiveEntries(g)) /\ Cardinality(LiveEntries(g)) <= Len(stack[g])
      /\ Cardinality(LiveEntries(g)) \in Nat
    BY <1>4, <1>5, FS_Subset, FS_CardinalityType
<1>7. QED
    BY <1>1, <1>6, GLSAssumption

\* stateForSpan() and the push: the span is published.
LEMMA PublishSteps ==
    ASSUME RInv, NEW g \in Goroutines, AddTracked(g)
    PROVE  Abstract!Publish(g)
<1>1. TypeOK /\ IInv /\ HistoryInv /\ ArgInv
    BY DEF RInv, IInv
<1>2. PICK s, V : s = arg[g] /\ V = IF MustEvict THEN {Head(order)} ELSE {}
    OBVIOUS
<1>3. /\ s \in Spans /\ s \notin ended
      /\ ended' = ended \cup V /\ states' = (states \ V) \cup {s}
      /\ birth' = [birth EXCEPT ![s] = Cardinality(Born) + 1]
      /\ s \notin states /\ V \subseteq states
    BY <1>1, <1>2, Tracked
<1>4. /\ pc[g] = "track" /\ pc' = [pc EXCEPT ![g] = "run"]
      /\ stack' = [stack EXCEPT ![g] = Append(stack[g], s)]
      /\ phase' = [phase EXCEPT ![s] = "live"]
      /\ arg' = [arg EXCEPT ![g] = NoSpan] /\ crowded' = [crowded EXCEPT ![g] = FALSE]
      /\ found' = found
    BY <1>2 DEF AddTracked
<1>5. g \in Alive /\ Alive' = Alive
    BY <1>1, <1>4, StillAlive DEF Alive
<1>6. Pending[g] = s /\ s # NoSpan
    BY <1>2, <1>3, <1>4, PendingOf, GLSAssumption
<1>7. ASSUME NEW h \in Goroutines
      PROVE  LiveEntries(h)' = IF h = g THEN (LiveEntries(h) \ V) \cup {s} ELSE LiveEntries(h) \ V
  <2>1. CASE h # g
    <3>1. stack'[h] = stack[h]
      BY <1>1, <1>4, <2>1 DEF TypeOK
    <3>2. QED
      BY <1>3, <2>1, <3>1 DEF LiveEntries
  <2>2. CASE h = g
    <3>1. PICK a : a = Append(stack[g], s)
      OBVIOUS
    <3>2. stack[g] \in Seq(Spans) /\ stack'[h] = a
      BY <1>1, <1>4, <2>2, <3>1 DEF TypeOK
    <3>3. /\ DOMAIN a = 1..(Len(stack[g]) + 1) /\ Len(stack[g]) \in Nat
          /\ \A i \in 1..Len(stack[g]) : a[i] = stack[g][i]
          /\ a[Len(stack[g]) + 1] = s
          /\ DOMAIN stack[g] = 1..Len(stack[g])
      BY <1>3, <3>1, <3>2, AppendProperties, LenProperties
    <3>4. Range(a) = Range(stack[g]) \cup {s}
      <4>1. \A i \in 1..(Len(stack[g]) + 1) : i \in 1..Len(stack[g]) \/ i = Len(stack[g]) + 1
        BY <3>3
      <4>2. Len(stack[g]) + 1 \in 1..(Len(stack[g]) + 1)
            /\ \A i \in 1..Len(stack[g]) : i \in 1..(Len(stack[g]) + 1)
        BY <3>3
      <4>3. QED
        BY <3>3, <4>1, <4>2 DEF Range
    <3>5. s \notin V
      BY <1>3
    <3>6. LiveEntries(h)' = {x \in Range(a) : x \notin ended'}
      BY <3>2 DEF LiveEntries
    <3>7. QED
      BY <1>3, <2>2, <3>4, <3>5, <3>6 DEF LiveEntries
  <2>3. QED
    BY <2>1, <2>2
<1>8. Candidates' = [h \in Goroutines |->
                        IF h = g THEN (Candidates[h] \ V) \cup {s} ELSE Candidates[h] \ V]
  <2>1. Candidates' = [h \in Goroutines |-> IF h \in Alive THEN LiveEntries(h)' ELSE {}]
    BY <1>5 DEF Candidates
  <2>2. \A h \in Goroutines : Candidates[h] = IF h \in Alive THEN LiveEntries(h) ELSE {}
    BY CandidatesOf
  <2>3. QED
    BY <1>5, <1>7, <2>1, <2>2
<1>9. Abstract!Cardinality(Candidates[g]) < MaxSpans
    BY <1>1, <1>4, <1>5, RoomForOne, CandidatesOf, SameCardinality
<1>10. V = IF Abstract!Cardinality(states) < MaxSpanStates THEN {}
           ELSE {v \in states : \A t \in states : birth[v] <= birth[t]}
    BY <1>2, Evicted, SameCardinality
<1>11. birth' = [birth EXCEPT ![s] = Abstract!Cardinality({t \in Spans : birth[t] > 0}) + 1]
    BY <1>3, SameCardinality DEF Born
<1>12. /\ pc'[g] = "run" /\ arg'[g] = NoSpan
       /\ \A h \in Goroutines : h # g => pc'[h] = pc[h] /\ arg'[h] = arg[h]
    BY <1>1, <1>4 DEF TypeOK
<1>13. Pending' = [Pending EXCEPT ![g] = NoSpan]
    BY <1>12, PendingSet
<1>14. AbstractPhase' = [AbstractPhase EXCEPT ![s] = "live"]
  <2>1. \A t : Choosing(t)' <=> Choosing(t)
    BY <1>4, <1>12 DEF Choosing
  <2>2. ~Choosing(s)
    BY <1>1, <1>2, <1>4 DEF Choosing, ArgInv, CreatingPc
  <2>3. phase'[s] = "live" /\ \A t \in Spans : t # s => phase'[t] = phase[t]
    BY <1>1, <1>3, <1>4 DEF TypeOK
  <2>4. QED
    BY <1>1, <1>3, <2>1, <2>2, <2>3, PhaseSet
<1>15. QED
    BY <1>3, <1>4, <1>5, <1>6, <1>8, <1>9, <1>10, <1>11, <1>13, <1>14 DEF Abstract!Publish

\* A goroutine begins to exist, with the given candidates.
LEMMA NewGoroutine ==
    ASSUME TypeOK, NEW g \in Goroutines, NEW h \in Goroutines, g # h, g \in Alive, h \notin Alive,
           NEW a, a \in {"absent", "spawning"}, pc[h] = a,
           pc' = [pc EXCEPT ![g] = "run", ![h] = "run"],
           pc[g] \notin {"startUse", "add", "compact", "track", "startTail"},
           NEW c, c = {Abstract!Current(g)} \ {NoSpan}, LiveEntries(h)' = c,
           \A k \in Goroutines : k # h => LiveEntries(k)' = LiveEntries(k),
           UNCHANGED <<arg, states, phase, found, birth, crowded>>
    PROVE  Abstract!Go(g, h)
<1>1. /\ pc'[g] = "run" /\ pc'[h] = "run"
      /\ \A k \in Goroutines : k \notin {g, h} => pc'[k] = pc[k]
    BY DEF TypeOK
<1>2. Alive' = Alive \cup {h}
    BY <1>1 DEF Alive
<1>3. Candidates' = [Candidates EXCEPT ![h] = c]
  <2>1. \A k \in Goroutines : Candidates'[k] = IF k \in Alive' THEN LiveEntries(k)' ELSE {}
    BY DEF Candidates
  <2>2. \A k \in Goroutines : Candidates'[k] = IF k = h THEN c ELSE Candidates[k]
    BY <1>2, <2>1, CandidatesOf
  <2>3. QED
    BY <2>2 DEF Candidates
<1>4. Pending' = Pending
    BY <1>1, PendingKept
<1>5. AbstractPhase' = AbstractPhase
  <2>1. \A t : Choosing(t)' <=> Choosing(t)
    BY <1>1 DEF Choosing
  <2>2. QED
    BY <2>1, PhaseKept
<1>6. QED
    BY <1>2, <1>3, <1>4, <1>5 DEF Abstract!Go

\* A goroutine without a context starts another.
LEMMA GoSteps ==
    ASSUME RInv, NEW g \in Goroutines, NEW h \in Goroutines, GoWithoutContext(g, h)
    PROVE  Abstract!Go(g, h)
<1>1. TypeOK
    BY DEF RInv, IInv
<1>2. /\ pc[g] = "run" /\ pc[h] = "absent" /\ ~hasTC[g] /\ pc' = [pc EXCEPT ![h] = "run"]
      /\ stack' = [stack EXCEPT ![h] = <<>>]
      /\ UNCHANGED <<arg, ended, states, phase, found, birth, crowded>>
    BY DEF GoWithoutContext, sharedVars, historyVars, Empty
<1>3. g # h /\ g \in Alive /\ h \notin Alive
    BY <1>2 DEF Alive
<1>4. pc' = [pc EXCEPT ![g] = "run", ![h] = "run"]
    BY <1>1, <1>2, <1>3 DEF TypeOK
<1>5. Abstract!Current(g) = NoSpan
    BY <1>2, CurrentWithoutContext
<1>6. stack'[h] = <<>> /\ \A k \in Goroutines : k # h => stack'[k] = stack[k]
    BY <1>1, <1>2 DEF TypeOK
<1>7. LiveEntries(h)' = {Abstract!Current(g)} \ {NoSpan}
    BY <1>5, <1>6 DEF LiveEntries, Range
<1>8. \A k \in Goroutines : k # h => LiveEntries(k)' = LiveEntries(k)
    BY <1>2, <1>6 DEF LiveEntries
<1>9. QED
    BY <1>1, <1>2, <1>3, <1>4, <1>7, <1>8, NewGoroutine

\* So does one with a context, when Clone has copied its live top.
LEMMA CloneSteps ==
    ASSUME RInv, NEW g \in Goroutines, CloneReturn(g)
    PROVE  \E h \in Goroutines : Abstract!Go(g, h)
<1>1. TypeOK /\ IInv
    BY DEF RInv, IInv
<1>2. PICK h : h = child[g]
    OBVIOUS
<1>3. PICK c : c = IF stack[g] = <<>> THEN <<>> ELSE <<Last(stack[g])>>
    OBVIOUS
<1>4. /\ c \in Seq(Spans)
      /\ \/ stack[g] = <<>> /\ c = <<>>
         \/ stack[g] # <<>> /\ Len(c) = 1 /\ c[1] = Last(stack[g]) /\ c[1] \notin ended
      /\ stack' = [stack EXCEPT ![h] = c]
    BY <1>1, <1>2, <1>3, Cloned
<1>5. /\ pc[g] = "forkTail" /\ TailStops(g) /\ pc' = [pc EXCEPT ![g] = "run", ![h] = "run"]
      /\ UNCHANGED <<arg, ended, states, phase, found, birth, crowded>>
    BY <1>2 DEF CloneReturn, sharedVars, historyVars
<1>6. h \in Goroutines /\ pc[h] = "spawning"
    BY <1>1, <1>2, <1>5 DEF TypeOK, IInv, ForkInv
<1>7. g # h /\ g \in Alive /\ h \notin Alive
    BY <1>5, <1>6 DEF Alive
<1>8. Abstract!Current(g) = TailResult(g)
    BY <1>5, <1>7, CurrentIsTail
<1>9. stack'[h] = c /\ \A k \in Goroutines : k # h => stack'[k] = stack[k]
    BY <1>1, <1>4, <1>6 DEF TypeOK
<1>10. LiveEntries(h)' = {Abstract!Current(g)} \ {NoSpan}
  <2>1. LiveEntries(h)' = {x \in {c[i] : i \in 1..Len(c)} : x \notin ended}
    BY <1>4, <1>5, <1>9, LenProperties DEF LiveEntries, Range
  <2>2. CASE stack[g] = <<>> /\ c = <<>>
    BY <1>8, <2>1, <2>2 DEF TailResult, Empty
  <2>3. CASE stack[g] # <<>> /\ Len(c) = 1 /\ c[1] = Last(stack[g]) /\ c[1] \notin ended
    <3>1. c[1] \in Spans /\ c[1] # NoSpan
      BY <1>4, <2>3, GLSAssumption
    <3>2. LiveEntries(h)' = {c[1]}
      BY <2>1, <2>3
    <3>3. Abstract!Current(g) = c[1]
      BY <1>8, <2>3 DEF TailResult, Empty
    <3>4. QED
      BY <3>1, <3>2, <3>3
  <2>4. QED
    BY <1>4, <2>2, <2>3
<1>11. \A k \in Goroutines : k # h => LiveEntries(k)' = LiveEntries(k)
    BY <1>5, <1>9 DEF LiveEntries
<1>12. Abstract!Go(g, h)
    BY <1>1, <1>5, <1>6, <1>7, <1>10, <1>11, NewGoroutine
<1>13. QED
    BY <1>6, <1>12

\* A goroutine returns.
LEMMA ExitSteps ==
    ASSUME RInv, NEW g \in Goroutines, Exit(g)
    PROVE  Abstract!Exit(g)
<1>1. TypeOK
    BY DEF RInv, IInv
<1>2. /\ pc[g] = "run" /\ pc' = [pc EXCEPT ![g] = "absent"]
      /\ UNCHANGED <<arg, stack, ended, states, phase, found, birth, crowded>>
    BY DEF Exit, tcVars, sharedVars, historyVars
<1>3. pc'[g] = "absent" /\ \A k \in Goroutines : k # g => pc'[k] = pc[k]
    BY <1>1, <1>2 DEF TypeOK
<1>4. g \in Alive /\ Alive' = Alive \ {g}
    BY <1>2, <1>3 DEF Alive
<1>5. Candidates' = [Candidates EXCEPT ![g] = {}]
  <2>1. \A k \in Goroutines : Candidates'[k] = IF k \in Alive' THEN LiveEntries(k)' ELSE {}
    BY DEF Candidates
  <2>2. \A k \in Goroutines : Candidates'[k] = IF k = g THEN {} ELSE Candidates[k]
    BY <1>2, <1>4, <2>1, CandidatesOf, LiveUnchanged
  <2>3. QED
    BY <2>2 DEF Candidates
<1>6. Pending[g] = NoSpan /\ Pending' = Pending
    BY <1>2, <1>3, PendingOf, PendingKept
<1>7. AbstractPhase' = AbstractPhase
  <2>1. \A t : Choosing(t)' <=> Choosing(t)
    BY <1>2, <1>3 DEF Choosing
  <2>2. QED
    BY <1>2, <2>1, PhaseKept
<1>8. QED
    BY <1>2, <1>4, <1>5, <1>6, <1>7 DEF Abstract!Exit

\* ClearTraceContext.
LEMMA ClearSteps ==
    ASSUME RInv, NEW g \in Goroutines, ClearTraceContext(g)
    PROVE  Abstract!Clear(g)
<1>1. TypeOK
    BY DEF RInv, IInv
<1>2. /\ stack' = [stack EXCEPT ![g] = <<>>]
      /\ UNCHANGED <<pc, arg, ended, states, phase, found, birth, crowded>>
    BY DEF ClearTraceContext, sharedVars, historyVars, Empty
<1>3. stack'[g] = <<>> /\ \A k \in Goroutines : k # g => stack'[k] = stack[k]
    BY <1>1, <1>2 DEF TypeOK
<1>4. Alive' = Alive /\ Pending' = Pending
    BY <1>2 DEF Alive, Pending
<1>5. Candidates' = [Candidates EXCEPT ![g] = {}]
  <2>1. \A k \in Goroutines : Candidates'[k] = IF k \in Alive THEN LiveEntries(k)' ELSE {}
    BY <1>4 DEF Candidates
  <2>2. LiveEntries(g)' = {} /\ \A k \in Goroutines : k # g => LiveEntries(k)' = LiveEntries(k)
    BY <1>2, <1>3 DEF LiveEntries, Range
  <2>3. \A k \in Goroutines : Candidates'[k] = IF k = g THEN {} ELSE Candidates[k]
    BY <2>1, <2>2, CandidatesOf
  <2>4. QED
    BY <2>3 DEF Candidates
<1>6. AbstractPhase' = AbstractPhase
  <2>1. \A t : Choosing(t)' <=> Choosing(t)
    BY <1>2 DEF Choosing
  <2>2. QED
    BY <1>2, <2>1, PhaseKept
<1>7. QED
    BY <1>2, <1>4, <1>5, <1>6 DEF Abstract!Clear

LEMMA InitRefines == Init => Abstract!Init
<1> SUFFICES ASSUME Init PROVE Abstract!Init
    OBVIOUS
<1>1. /\ \A g \in Goroutines : pc[g] = (IF g = Main THEN "run" ELSE "absent") /\ stack[g] = <<>>
      /\ \A s \in Spans : phase[s] = "unborn"
      /\ states = {} /\ Main \in Goroutines
    BY GLSAssumption DEF Init, Empty
<1>2. Alive = {Main}
    BY <1>1 DEF Alive
<1>3. Pending = [g \in Goroutines |-> NoSpan]
    BY <1>1 DEF Pending
<1>4. \A g \in Goroutines : LiveEntries(g) = {}
    BY <1>1 DEF LiveEntries, Range
<1>5. Candidates = [g \in Goroutines |-> {}]
    BY <1>4 DEF Candidates
<1>6. AbstractPhase = [s \in Spans |-> "unborn"]
    BY <1>1 DEF AbstractPhase
<1>7. QED
    BY <1>1, <1>2, <1>3, <1>5, <1>6 DEF Init, Abstract!Init

\* Every step is a step of the promise, or one that it does not show.
LEMMA NextRefines ==
    ASSUME RInv, RInv', [Next]_vars
    PROVE  [Abstract!Next]_(Abstract!vars)
<1>1. TypeOK'
    BY DEF RInv, IInv
<1>2. ASSUME NEW g \in Goroutines, HookStep(g) PROVE Abstract!Next \/ AbstractStutter
  <2>1. CASE TailPop(g) \/ CompactStep(g) \/ Del(g)
    BY <1>1, <2>1, UnlinkingIsHidden
  <2>2. CASE StartWithParent(g) \/ CompactMadeRoom(g) \/ ReadReturn(g)
    BY <1>1, <2>2, MovesAreHidden
  <2>3. CASE StartTailReturn(g)
    BY <2>3, StartTailReturnSteps DEF Abstract!Next
  <2>4. CASE AddBegin(g)
    BY <1>1, <2>4, AddBeginSteps DEF Abstract!Next
  <2>5. CASE AddRefused(g)
    BY <2>5, RefuseSteps DEF Abstract!Next
  <2>6. CASE AddTracked(g)
    BY <2>6, PublishSteps DEF Abstract!Next
  <2>7. CASE CloneReturn(g)
    BY <2>7, CloneSteps DEF Abstract!Next
  <2>8. QED
    BY <1>2, <2>1, <2>2, <2>3, <2>4, <2>5, <2>6, <2>7 DEF HookStep
<1>3. ASSUME NEW g \in Goroutines, AppStep(g) PROVE Abstract!Next \/ AbstractStutter
  <2>1. ASSUME NEW s \in Spans, StartWithContextSpan(g, s) \/ StartWithoutContextSpan(g, s)
        PROVE  Abstract!Next \/ AbstractStutter
    BY <2>1, StartSteps DEF Abstract!Next
  <2>2. ASSUME NEW s \in Spans, MarkSpanEnded(g, s) PROVE Abstract!Next
    BY <2>2, EndSteps DEF Abstract!Next
  <2>3. ASSUME NEW h \in Goroutines, GoWithoutContext(g, h) PROVE Abstract!Next
    BY <2>3, GoSteps DEF Abstract!Next
  <2>4. ASSUME NEW h \in Goroutines, GoWithContext(g, h) PROVE AbstractStutter
    BY <2>4, GoIsHidden
  <2>5. CASE SpanFromGLS(g) \/ GetTraceContext(g)
    BY <1>1, <2>5, MovesAreHidden
  <2>6. CASE Exit(g)
    BY <2>6, ExitSteps DEF Abstract!Next
  <2>7. CASE ClearTraceContext(g)
    BY <2>7, ClearSteps DEF Abstract!Next
  <2>8. QED
    BY <1>3, <2>1, <2>2, <2>3, <2>4, <2>5, <2>6, <2>7 DEF AppStep
<1>4. CASE UNCHANGED vars
  <2>1. UNCHANGED <<pc, arg, stack, ended, states, phase, found, birth, crowded>>
    BY <1>4 DEF vars, tcVars, sharedVars, historyVars
  <2>2. Alive' = Alive /\ Pending' = Pending
    BY <2>1 DEF Alive, Pending
  <2>3. Candidates' = Candidates
    BY <2>1, <2>2, LiveUnchanged, CandidatesKept
  <2>4. \A t : Choosing(t)' <=> Choosing(t)
    BY <2>1 DEF Choosing
  <2>5. AbstractStutter
    BY <2>1, <2>2, <2>3, <2>4, PhaseKept, Hidden
  <2>6. QED
    BY <2>5 DEF AbstractStutter
<1>5. QED
    BY <1>2, <1>3, <1>4 DEF Next, AbstractStutter

\* Lazy unlinking, shared flags and eviction behave as if every goroutine kept a set
\* of candidates that End and eviction reach at once.
THEOREM RefinesImplicitParent == Spec => ImplementsImplicitParent
<1>1. Init => Abstract!Init
    BY InitRefines
<1>2. RInv /\ RInv' /\ [Next]_vars => [Abstract!Next]_(Abstract!vars)
    BY NextRefines
<1>3. QED
    BY <1>1, <1>2, HistoryHolds, PTL DEF Spec, Abstract!Spec, ImplementsImplicitParent

=============================================================================
