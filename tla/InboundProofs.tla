---------------------------- MODULE InboundProofs ----------------------------
(***************************************************************************)
(* Safety of the hooks on incoming requests, for any number of requests,     *)
(* calls, goroutines and changes of the environment.  The three models share *)
(* no state: a behaviour of InboundSpec is one of each of them, and each has *)
(* an inductive invariant of its own.                                        *)
(***************************************************************************)
EXTENDS MCInbound, FiniteSetTheorems, SequenceTheorems, TLAPS

-----------------------------------------------------------------------------
(* net/http's server and the response writer wrapper.                       *)

Responses == [info : Seq(Int), final : Int, body : BOOLEAN, hijacked : BOOLEAN,
              panicked : BOOLEAN]

ServerTypeOK ==
    /\ at \in {"idle", "handler", "panicking", "returned", "closed"}
    /\ w \in [status : Server!Codes, wrote : BOOLEAN]
    /\ inner \in Responses /\ plain \in Responses
    /\ misled \in BOOLEAN /\ flushed \in BOOLEAN

\* The header the wrapper believes to have written has been written, so that a
\* second one changes neither response.
HeaderInv ==
    ~misled =>
        /\ inner = plain
        /\ w.wrote => inner.hijacked \/ inner.final # 0

\* While the handler runs, the wrapper knows the status unless Flush hid it.
StatusInv ==
    (at \in {"handler", "panicking"} /\ ~misled /\ ~flushed /\ ~inner.hijacked) =>
        IF w.wrote THEN Server!ValidCode(w.status) /\ inner.final = w.status
        ELSE w.status = Server!StatusOK /\ inner.final = 0

ServerInv ==
    /\ ServerTypeOK /\ HeaderInv /\ StatusInv
    /\ WrapperIsFaithfulUnlessMisled
    /\ SpanEndedBetweenRequests

\* Writing a header keeps a response a response, and once more makes no difference.
LEMMA RespWriteHeaderType ==
    ASSUME NEW r \in Responses, NEW c \in Int
    PROVE  Server!RespWriteHeader(r, c) \in Responses
<1>1. Append(r.info, c) \in Seq(Int)
    BY DEF Responses
<1>2. QED
    BY <1>1 DEF Responses, Server!RespWriteHeader

LEMMA RespWriteHeaderOK ==
    ASSUME NEW r \in Responses
    PROVE  Server!RespWriteHeader(r, Server!StatusOK) =
             IF r.hijacked \/ r.final # 0 THEN r ELSE [r EXCEPT !.final = 200]
BY DEF Responses, Server!RespWriteHeader, Server!StatusOK, Server!ValidCode,
       Server!Informational

LEMMA RespWriteIs ==
    ASSUME NEW r \in Responses
    PROVE  /\ Server!RespWrite(r) \in Responses
           /\ Server!RespWrite(r).hijacked = r.hijacked
           /\ Server!RespWrite(r).final = IF r.hijacked \/ r.final # 0 THEN r.final ELSE 200
<1>1. CASE r.hijacked
    <2>1. Server!RespWrite(r) = r
        BY <1>1 DEF Server!RespWrite
    <2>2. QED
        BY <1>1, <2>1
<1>2. CASE ~r.hijacked
    <2>1. Server!RespWrite(r) = [Server!RespWriteHeader(r, Server!StatusOK) EXCEPT !.body = TRUE]
        BY <1>2 DEF Server!RespWrite
    <2>2. ASSUME NEW q \in Responses
          PROVE  /\ [q EXCEPT !.body = TRUE] \in Responses
                 /\ [q EXCEPT !.body = TRUE].hijacked = q.hijacked
                 /\ [q EXCEPT !.body = TRUE].final = q.final
        BY DEF Responses
    <2>3. /\ Server!RespWriteHeader(r, Server!StatusOK) \in Responses
          /\ Server!RespWriteHeader(r, Server!StatusOK).hijacked = r.hijacked
          /\ Server!RespWriteHeader(r, Server!StatusOK).final =
               IF r.final # 0 THEN r.final ELSE 200
        BY <1>2, RespWriteHeaderOK DEF Responses
    <2>4. QED
        BY <1>2, <2>1, <2>2, <2>3
<1>3. QED
    BY <1>1, <1>2

LEMMA NewResponseType == Server!NewResponse \in Responses
BY DEF Responses, Server!NewResponse

LEMMA ServerInitInv == Server!Init => ServerInv
<1> SUFFICES ASSUME Server!Init PROVE ServerInv
    OBVIOUS
<1>1. ServerTypeOK
    BY NewResponseType DEF Server!Init, ServerTypeOK, Server!StatusOK, Server!Codes
<1>2. QED
    BY <1>1 DEF Server!Init, ServerInv, HeaderInv, StatusInv,
       WrapperIsFaithfulUnlessMisled, Server!WrapperIsFaithfulUnlessMisled,
       Server!RecordedIsSentUnlessMisled, Server!TransparentUnlessMisled,
       Server!Finished, SpanEndedBetweenRequests, Server!SpanEndedBetweenRequests

LEMMA ServerNextInv == ServerInv /\ [Server!Next]_(Server!vars) => ServerInv'
<1> SUFFICES ASSUME ServerInv, [Server!Next]_(Server!vars) PROVE ServerInv'
    OBVIOUS
<1> USE DEF ServerInv, HeaderInv, StatusInv, WrapperIsFaithfulUnlessMisled,
        Server!WrapperIsFaithfulUnlessMisled, Server!RecordedIsSentUnlessMisled,
        Server!TransparentUnlessMisled, Server!Finished, SpanEndedBetweenRequests,
        Server!SpanEndedBetweenRequests, Server!historyVars
<1>1. CASE Server!ServeHTTP
    <2>1. ServerTypeOK'
        <3>1. /\ at' = "handler" /\ w' = [status |-> 200, wrote |-> FALSE]
              /\ inner' = Server!NewResponse /\ plain' = Server!NewResponse
              /\ misled' = FALSE /\ flushed' = FALSE
            BY <1>1 DEF Server!ServeHTTP, Server!StatusOK
        <3>2. 200 \in Server!Codes
            BY DEF Server!Codes
        <3>3. QED
            BY <3>1, <3>2, NewResponseType DEF ServerTypeOK
    <2>2. QED
        BY <1>1, <2>1 DEF Server!ServeHTTP, Server!NewResponse
<1>2. ASSUME NEW c \in Server!Codes, Server!WriteHeader(c) PROVE ServerInv'
    <2>1. c \in Int
        BY DEF Server!Codes
    <2>2. ServerTypeOK'
        <3>1. w' \in [status : Server!Codes, wrote : BOOLEAN] /\ inner' \in Responses
            <4>1. CASE w.wrote
                BY <1>2, <4>1 DEF Server!WriteHeader, Server!WrapperWriteHeader, ServerTypeOK
            <4>2. CASE ~w.wrote
                <5>1. w' = [status |-> c, wrote |-> TRUE] /\ inner' = Server!RespWriteHeader(inner, c)
                    BY <1>2, <4>2 DEF Server!WriteHeader, Server!WrapperWriteHeader
                <5>2. inner' \in Responses
                    BY <2>1, <5>1, RespWriteHeaderType DEF ServerTypeOK
                <5>3. QED
                    BY <5>1, <5>2
            <4>3. QED
                BY <4>1, <4>2
        <3>2. plain' \in Responses
            BY <1>2, <2>1, RespWriteHeaderType DEF Server!WriteHeader, ServerTypeOK
        <3>3. at' \in {"handler", "panicking"} /\ misled' \in BOOLEAN /\ flushed' = flushed
            BY <1>2 DEF Server!WriteHeader, Server!HandlerCalls, Server!Returns
        <3>4. QED
            BY <3>1, <3>2, <3>3 DEF ServerTypeOK
    <2>3. CASE w.wrote
        <3>1. UNCHANGED <<w, inner, misled, flushed>> /\ at = "handler" /\ at' = "handler"
            BY <1>2, <2>3 DEF Server!WriteHeader, Server!WrapperWriteHeader,
               Server!HandlerCalls, Server!Returns, ServerTypeOK, Responses
        <3>2. ~misled => plain' = plain
            BY <1>2, <2>3 DEF Server!WriteHeader, Server!RespWriteHeader
        <3>3. QED
            BY <2>2, <3>1, <3>2
    <2>4. CASE ~w.wrote /\ (Server!Informational(c) \/ ~Server!ValidCode(c))
        <3>1. misled' /\ at' \in {"handler", "panicking"}
            BY <1>2, <2>4 DEF Server!WriteHeader, Server!HandlerCalls, Server!Returns
        <3>2. QED
            BY <2>2, <3>1
    <2>5. CASE ~w.wrote /\ ~Server!Informational(c) /\ Server!ValidCode(c)
        <3>1. /\ w' = [status |-> c, wrote |-> TRUE]
              /\ inner' = Server!RespWriteHeader(inner, c)
              /\ plain' = Server!RespWriteHeader(plain, c)
              /\ misled' = misled /\ flushed' = flushed /\ at = "handler"
              /\ at' \in {"handler", "panicking"}
            BY <1>2, <2>5 DEF Server!WriteHeader, Server!WrapperWriteHeader,
               Server!HandlerCalls, Server!Returns, ServerTypeOK
        <3>2. Server!RespWriteHeader(inner, c) =
                IF inner.hijacked \/ inner.final # 0 THEN inner ELSE [inner EXCEPT !.final = c]
            BY <2>5 DEF Server!RespWriteHeader
        <3>3. c # 0
            BY <2>5 DEF Server!ValidCode
        <3>4. QED
            BY <2>2, <2>5, <3>1, <3>2, <3>3 DEF ServerTypeOK, Responses
    <2>6. QED
        BY <2>3, <2>4, <2>5
<1>3. CASE Server!Write
    <2>1. ServerTypeOK'
        BY <1>3, RespWriteIs, RespWriteHeaderType DEF Server!Write, Server!WithHeader,
           Server!WroteOK, ServerTypeOK, Server!StatusOK, Server!Codes, Server!HandlerCalls
    <2>2. Server!RespWrite(Server!WithHeader) = Server!RespWrite(inner)
        <3>1. CASE w.wrote
            BY <3>1 DEF Server!WithHeader
        <3>2. CASE ~w.wrote
            <4>1. Server!WithHeader = Server!RespWriteHeader(inner, Server!StatusOK)
                BY <3>2 DEF Server!WithHeader
            <4>2. CASE inner.hijacked \/ inner.final # 0
                BY <4>1, <4>2, RespWriteHeaderOK DEF ServerTypeOK
            <4>3. CASE ~inner.hijacked /\ inner.final = 0
                <5>1. /\ Server!WithHeader = [inner EXCEPT !.final = 200]
                      /\ Server!WithHeader \in Responses
                    <6>1. inner \in Responses
                        BY DEF ServerTypeOK
                    <6>2. Server!WithHeader = [inner EXCEPT !.final = 200]
                        BY <4>1, <4>3, <6>1, RespWriteHeaderOK
                    <6>3. [inner EXCEPT !.final = 200] \in Responses
                        BY <6>1, SMTT(30) DEF Responses
                    <6>4. QED
                        BY <6>2, <6>3
                <5>2. Server!RespWriteHeader(Server!WithHeader, Server!StatusOK) = Server!WithHeader
                    BY <5>1, RespWriteHeaderOK DEF ServerTypeOK, Responses
                <5>3. Server!RespWriteHeader(inner, Server!StatusOK) = Server!WithHeader
                    BY <4>1
                <5>4. ~Server!WithHeader.hijacked
                    BY <4>3, <5>1 DEF ServerTypeOK, Responses
                <5>5. QED
                    BY <4>3, <5>2, <5>3, <5>4 DEF Server!RespWrite
            <4>4. QED
                BY <4>2, <4>3
        <3>3. QED
            BY <3>1, <3>2
    <2>3. HeaderInv'
        BY <1>3, <2>2, RespWriteIs DEF Server!Write, Server!WroteOK, ServerTypeOK
    <2>4. StatusInv'
        <3>1. inner.hijacked => inner'.hijacked \/ misled'
            BY <1>3, <2>2, RespWriteIs DEF Server!Write, ServerTypeOK
        <3>2. ~misled' /\ ~inner.hijacked =>
                 inner'.final = IF inner.final # 0 THEN inner.final ELSE 200
            BY <1>3, <2>2, RespWriteIs DEF Server!Write, ServerTypeOK
        <3>3. QED
            BY <1>3, <3>1, <3>2 DEF Server!Write, Server!WroteOK, Server!HandlerCalls,
               ServerTypeOK, Server!StatusOK, Server!ValidCode
    <2>5. at' = "handler"
        BY <1>3 DEF Server!Write, Server!HandlerCalls
    <2>6. QED
        BY <2>1, <2>3, <2>4, <2>5
<1>4. CASE Server!ReadFromEmpty
    <2>1. ServerTypeOK'
        BY <1>4, RespWriteHeaderType DEF Server!ReadFromEmpty, Server!WithHeader,
           Server!WroteOK, ServerTypeOK, Server!StatusOK, Server!Codes, Server!HandlerCalls
    <2>2. at' = "handler" /\ (~misled' => w.wrote /\ ~misled /\ UNCHANGED <<inner, plain, w, flushed>>)
        BY <1>4 DEF Server!ReadFromEmpty, Server!WithHeader, Server!WroteOK,
           Server!HandlerCalls, ServerTypeOK
    <2>3. QED
        BY <1>4, <2>1, <2>2 DEF Server!ReadFromEmpty, Server!HandlerCalls
<1>5. CASE Server!Flush
    <2>1. ServerTypeOK'
        BY <1>5, RespWriteHeaderType DEF Server!Flush, Server!RespFlush, Server!StatusOK,
           ServerTypeOK, Server!HandlerCalls
    <2>2. QED
        BY <1>5, <2>1, RespWriteHeaderOK, ZenonT(30) DEF Server!Flush, Server!RespFlush,
           Server!HandlerCalls, ServerTypeOK, Responses
<1>6. CASE Server!Hijack
    BY <1>6 DEF Server!Hijack, Server!RespHijack, Server!HandlerCalls, ServerTypeOK, Responses
<1>7. CASE Server!Panic
    BY <1>7 DEF Server!Panic, ServerTypeOK
<1>8. CASE Server!Recover
    BY <1>8 DEF Server!Recover, ServerTypeOK
<1>9. CASE Server!Return
    <2>1. ServerTypeOK'
        BY <1>9, RespWriteHeaderType DEF Server!Return, Server!RespFinish, Server!StatusOK,
           ServerTypeOK
    <2>2. HeaderInv' /\ StatusInv' /\ SpanEndedBetweenRequests'
        BY <1>9, RespWriteHeaderOK DEF Server!Return, Server!RespFinish,
           Server!EndServerSpan, ServerTypeOK, Responses
    <2>3. (Server!Finished /\ ~misled /\ ~flushed)' =>
             w.status = inner'.final /\ Server!ValidCode(w.status)
        BY <1>9, RespWriteHeaderOK DEF Server!Return, Server!RespFinish, ServerTypeOK,
           Responses, Server!StatusOK, Server!ValidCode
    <2>4. (Server!ServerStatusIsError(w.status) <=> w.status >= 500)
             \/ ~Server!ValidCode(w.status)
        BY DEF Server!ServerStatusIsError, Server!ValidCode, ServerTypeOK, Server!Codes
    <2>5. QED
        BY <1>9, <2>1, <2>2, <2>3, <2>4 DEF Server!Return, Server!EndServerSpan
<1>10. CASE Server!Escape
    BY <1>10 DEF Server!Escape, Server!EndServerSpan, ServerTypeOK
<1>11. CASE Server!NextRequest
    BY <1>11 DEF Server!NextRequest, ServerTypeOK
<1>12. CASE UNCHANGED Server!vars
    BY <1>12 DEF Server!vars, ServerTypeOK
<1>13. QED
    BY <1>1, <1>2, <1>3, <1>4, <1>5, <1>6, <1>7, <1>8, <1>9, <1>10, <1>11, <1>12
       DEF Server!Next

LEMMA InboundIsServer == InboundSpec => Server!Spec
<1>1. InboundInit => Server!Init
    BY DEF InboundInit
<1>2. [InboundNext]_<<hooks, vars, serverVars, ginVars>> => [Server!Next]_(Server!vars)
    BY DEF InboundNext, Server!vars, Server!historyVars, serverVars
<1>3. QED
    BY <1>1, <1>2, PTL DEF InboundSpec, Server!Spec

LEMMA ServerInvariance == InboundSpec => []ServerInv
BY ServerInitInv, ServerNextInv, InboundIsServer, PTL DEF Server!Spec

\* Whatever the handler calls in whatever order, the client gets the response it
\* would have got, and the span the status sent, unless the wrapper was misled:
\* otelcWriterWrapper.
THEOREM WrapperIsFaithful == InboundSpec => []WrapperIsFaithfulUnlessMisled
<1>1. ServerInv => WrapperIsFaithfulUnlessMisled
    BY DEF ServerInv
<1>2. QED
    BY <1>1, ServerInvariance, PTL

\* However the handler leaves, the request's span is ended before the
\* connection's goroutine goes on: the deferred function of ServeHTTP.
THEOREM ServerSpansEnd == InboundSpec => []SpanEndedBetweenRequests
<1>1. ServerInv => SpanEndedBetweenRequests
    BY DEF ServerInv
<1>2. QED
    BY <1>1, ServerInvariance, PTL

-----------------------------------------------------------------------------
(* The gate: Instrumented, asked by any number of goroutines.                *)

Reading == {"enabled", "disabled", "load", "store", "decide"}

\* Setenv has changed one variable: two of the three are the same.
AtMostOneDiffers(d, e) ==
    \/ d.sdkDisabled = e.sdkDisabled /\ d.enabled = e.enabled
    \/ d.sdkDisabled = e.sdkDisabled /\ d.disabled = e.disabled
    \/ d.enabled = e.enabled /\ d.disabled = e.disabled

GateTypeOK ==
    /\ env \in Environments
    /\ pc \in [Goroutines -> {"idle", "done"} \cup Reading]
    /\ read \in [Goroutines -> Environments]
    /\ seen \in [Goroutines -> Seq(Environments)]
    /\ DOMAIN cached = Goroutines
    /\ answer \in [Goroutines -> BOOLEAN]

\* Whoever stored it last, the shared cache was made from some environment.
CacheInv == cache = None \/ \E e \in Environments : cache = buildConfigCache(e)

\* The environments of a call: the last is today's.
SeenInv(g) ==
    /\ pc[g] # "idle" => Len(seen[g]) >= 1
    /\ pc[g] \in Reading => seen[g][Len(seen[g])] = env
    /\ (pc[g] # "idle" /\ Len(seen[g]) = 2) => AtMostOneDiffers(seen[g][1], seen[g][2])

\* What a call has read, each variable of an environment it has seen.
ReadInv(g) ==
    /\ pc[g] \in Reading =>
           \E i \in DOMAIN seen[g] : read[g].sdkDisabled = seen[g][i].sdkDisabled
    /\ pc[g] \in Reading \ {"enabled"} =>
           \E i \in DOMAIN seen[g] : read[g].enabled = seen[g][i].enabled
    /\ pc[g] \in Reading \ {"enabled", "disabled"} =>
           \E i \in DOMAIN seen[g] : read[g].disabled = seen[g][i].disabled
    /\ pc[g] \in {"store", "decide"} => cached[g] = buildConfigCache(read[g])

AnswerInv(g) ==
    (pc[g] = "done" /\ Len(seen[g]) <= 2) =>
        \E i \in DOMAIN seen[g] : answer[g] <=> Documented(seen[g][i])

GateInv ==
    /\ GateTypeOK /\ CacheInv
    /\ \A g \in Goroutines : SeenInv(g) /\ ReadInv(g) /\ AnswerInv(g)

\* One Setenv, one variable.
LEMMA SetenvChangesOne ==
    ASSUME NEW d \in Environments, NEW e \in Environments,
           Cardinality({f \in DOMAIN e : e[f] # d[f]}) = 1
    PROVE  AtMostOneDiffers(d, e)
<1> DEFINE S == {f \in DOMAIN e : e[f] # d[f]}
<1>1. DOMAIN e = {"sdkDisabled", "enabled", "disabled"}
    BY DEF Environments
<1>2. IsFiniteSet({"sdkDisabled", "enabled", "disabled"})
    <2>1. IsFiniteSet({"sdkDisabled"})
        BY FS_Singleton
    <2>2. IsFiniteSet({"sdkDisabled"} \cup {"enabled"})
        BY <2>1, FS_AddElement
    <2>3. IsFiniteSet(({"sdkDisabled"} \cup {"enabled"}) \cup {"disabled"})
        BY <2>2, FS_AddElement
    <2>4. ({"sdkDisabled"} \cup {"enabled"}) \cup {"disabled"}
              = {"sdkDisabled", "enabled", "disabled"}
        OBVIOUS
    <2>5. QED
        BY <2>3, <2>4
<1>3. S \in SUBSET {"sdkDisabled", "enabled", "disabled"}
    BY <1>1
<1>4. IsFiniteSet(S)
    BY <1>2, <1>3, FS_Subset
<1>5. PICK x : S = {x}
    BY <1>4, FS_Singleton
<1>6. \A f \in {"sdkDisabled", "enabled", "disabled"} : f # x => e[f] = d[f]
    BY <1>1, <1>5
<1>7. QED
    BY <1>6 DEF AtMostOneDiffers, Environments

\* An environment put together from two that differ in one variable is one of them.
LEMMA MixIsOne ==
    ASSUME NEW s \in Seq(Environments), Len(s) \in {1, 2},
           Len(s) = 2 => AtMostOneDiffers(s[1], s[2]),
           NEW e \in Environments,
           \E i \in DOMAIN s : e.sdkDisabled = s[i].sdkDisabled,
           \E i \in DOMAIN s : e.enabled = s[i].enabled,
           \E i \in DOMAIN s : e.disabled = s[i].disabled
    PROVE  \E i \in DOMAIN s : e = s[i]
<1>1. DOMAIN s = 1..Len(s)
    OBVIOUS
<1>2. \A i \in DOMAIN s : s[i] \in Environments
    OBVIOUS
<1>3. ASSUME NEW i \in DOMAIN s, e.sdkDisabled = s[i].sdkDisabled,
             e.enabled = s[i].enabled, e.disabled = s[i].disabled
      PROVE  e = s[i]
    BY <1>2, <1>3 DEF Environments
<1>4. CASE Len(s) = 1
    BY <1>1, <1>3, <1>4
<1>5. CASE Len(s) = 2
    <2>1. DOMAIN s = {1, 2}
        BY <1>1, <1>5
    <2>2. AtMostOneDiffers(s[1], s[2])
        BY <1>5
    <2>3. QED
        BY <1>3, <2>1, <2>2 DEF AtMostOneDiffers
<1>6. QED
    BY <1>4, <1>5

\* Decide follows the documented rules for the environment its cache was made from.
LEMMA DecisionIsDocumented ==
    ASSUME NEW e \in Environments, NEW c, c = buildConfigCache(e)
    PROVE  (/\ ~c.isSdkDisabled
            /\ c.hasEnabled => Name \in c.enabledMap
            /\ Name \notin c.disabledMap) <=> Documented(e)
<1>1. /\ c.isSdkDisabled = e.sdkDisabled
      /\ c.hasEnabled = (parseInstrumentationList(e.enabled) # {})
      /\ c.enabledMap = parseInstrumentationList(e.enabled)
      /\ c.disabledMap = parseInstrumentationList(e.disabled)
    BY DEF buildConfigCache
<1>2. e.enabled \in Lists /\ e.disabled \in Lists
    BY DEF Environments
<1>3. \A l \in Lists : /\ parseInstrumentationList(l) # {} <=> l \in {"name", "other"}
                       /\ Name \in parseInstrumentationList(l) <=> l = "name"
    BY GateAssumption DEF Lists, parseInstrumentationList
<1>4. QED
    BY <1>1, <1>2, <1>3 DEF Documented

LEMMA CacheIsItsOwn ==
    ASSUME NEW d \in Environments, CacheInv, ~IsStale(cache, d)
    PROVE  cache = buildConfigCache(d)
<1>1. PICK e \in Environments : cache = buildConfigCache(e)
    BY DEF CacheInv, IsStale
<1>2. cache.raw = e
    BY <1>1 DEF buildConfigCache
<1>3. QED
    BY <1>1, <1>2 DEF IsStale

LEMMA GateInitInv == Init => GateInv
<1> SUFFICES ASSUME Init PROVE GateInv
    OBVIOUS
<1>1. GateTypeOK
    BY DEF Init, GateTypeOK
<1>2. QED
    BY <1>1 DEF Init, GateInv, CacheInv, SeenInv, ReadInv, AnswerInv, Reading

LEMMA GateNextInv == GateInv /\ [Next]_vars => GateInv'
<1> SUFFICES ASSUME GateInv, [Next]_vars PROVE GateInv'
    OBVIOUS
<1> USE DEF GateInv
<1>1. ASSUME NEW e \in Environments, Setenv(e) PROVE GateInv'
    <2>1. GateTypeOK' /\ CacheInv'
        BY <1>1 DEF Setenv, GateTypeOK, CacheInv, Reading
    <2>2. AtMostOneDiffers(env, e)
        BY <1>1, SetenvChangesOne DEF Setenv, GateTypeOK
    <2>3. ASSUME NEW g \in Goroutines PROVE (SeenInv(g) /\ ReadInv(g) /\ AnswerInv(g))'
        <3>1. CASE pc[g] \notin Reading
            <4>1. pc'[g] = pc[g] /\ seen'[g] = seen[g] /\ answer'[g] = answer[g]
                BY <1>1, <3>1 DEF Setenv, GateTypeOK
            <4>2. QED
                BY <3>1, <4>1 DEF SeenInv, ReadInv, AnswerInv, Reading
        <3>2. CASE pc[g] \in Reading
            <4>1. /\ pc'[g] = pc[g] /\ read'[g] = read[g] /\ cached'[g] = cached[g]
                  /\ env' = e /\ seen'[g] = Append(seen[g], e)
                BY <1>1, <3>2 DEF Setenv, GateTypeOK, Reading
            <4>2. /\ seen[g] \in Seq(Environments)
                  /\ Len(seen[g]) \in Nat /\ Len(seen[g]) >= 1
                BY <3>2 DEF GateTypeOK, SeenInv, Reading
            <4>3. /\ Len(seen'[g]) = Len(seen[g]) + 1
                  /\ seen'[g][Len(seen[g]) + 1] = e
                  /\ \A i \in DOMAIN seen[g] : i \in DOMAIN seen'[g] /\ seen'[g][i] = seen[g][i]
                BY <4>1, <4>2
            <4>4. SeenInv(g)'
                <5>1. Len(seen'[g]) >= 1 /\ seen'[g][Len(seen'[g])] = env'
                    BY <4>1, <4>2, <4>3
                <5>2. ASSUME Len(seen'[g]) = 2
                      PROVE  AtMostOneDiffers(seen'[g][1], seen'[g][2])
                    <6>1. Len(seen[g]) = 1
                        <7>1. \A n \in Nat : n + 1 = 2 => n = 1
                            OBVIOUS
                        <7>2. QED
                            BY <4>2, <4>3, <5>2, <7>1
                    <6>2. seen[g][1] = env /\ 1 \in DOMAIN seen[g]
                        BY <3>2, <4>2, <6>1, SMTT(30) DEF SeenInv
                    <6>3. seen'[g][1] = env /\ seen'[g][2] = e
                        BY <4>3, <6>1, <6>2
                    <6>4. QED
                        BY <2>2, <6>3
                <5>3. QED
                    BY <5>1, <5>2 DEF SeenInv
            <4>5. ReadInv(g)'
                BY <4>1, <4>3 DEF ReadInv
            <4>6. QED
                BY <3>2, <4>1, <4>4, <4>5 DEF AnswerInv, Reading
        <3>3. QED
            BY <3>1, <3>2
    <2>4. QED
        BY <2>1, <2>3
<1>2. ASSUME NEW h \in Goroutines, GetSdkDisabled(h) PROVE GateInv'
    <2>1. GateTypeOK'
        <3>1. <<env>> \in Seq(Environments)
            BY DEF GateTypeOK
        <3>2. read' \in [Goroutines -> Environments]
            BY <1>2 DEF GetSdkDisabled, GateTypeOK, Environments
        <3>3. QED
            BY <1>2, <3>1, <3>2 DEF GetSdkDisabled, GateTypeOK, Reading
    <2>2. CacheInv'
        BY <1>2 DEF GetSdkDisabled, CacheInv
    <2>3. ASSUME NEW g \in Goroutines, g # h
          PROVE  (SeenInv(g) /\ ReadInv(g) /\ AnswerInv(g))'
        BY <1>2, <2>3 DEF GetSdkDisabled, GateTypeOK, SeenInv, ReadInv, AnswerInv
    <2>4. (SeenInv(h) /\ ReadInv(h) /\ AnswerInv(h))'
        <3>1. /\ pc'[h] = "enabled" /\ seen'[h] = <<env>> /\ env' = env
              /\ read'[h].sdkDisabled = env.sdkDisabled
            BY <1>2 DEF GetSdkDisabled, GateTypeOK, Environments
        <3>2. QED
            BY <3>1 DEF SeenInv, ReadInv, AnswerInv, Reading
    <2>5. QED
        BY <2>1, <2>2, <2>3, <2>4
<1>3. ASSUME NEW h \in Goroutines, GetEnabled(h) PROVE GateInv'
    <2>1. GateTypeOK'
        BY <1>3 DEF GetEnabled, Goto, GateTypeOK, Environments, Reading
    <2>2. CacheInv'
        BY <1>3 DEF GetEnabled, CacheInv
    <2>3. ASSUME NEW g \in Goroutines, g # h
          PROVE  (SeenInv(g) /\ ReadInv(g) /\ AnswerInv(g))'
        BY <1>3, <2>3 DEF GetEnabled, Goto, GateTypeOK, SeenInv, ReadInv, AnswerInv
    <2>4. (SeenInv(h) /\ ReadInv(h) /\ AnswerInv(h))'
        <3>1. /\ pc[h] = "enabled" /\ pc'[h] = "disabled" /\ seen' = seen /\ env' = env
              /\ read'[h].sdkDisabled = read[h].sdkDisabled
              /\ read'[h].enabled = env.enabled
            BY <1>3 DEF GetEnabled, Goto, GateTypeOK, Environments
        <3>2. Len(seen[h]) \in DOMAIN seen[h] /\ seen[h][Len(seen[h])] = env
            <4>1. Len(seen[h]) >= 1 /\ seen[h][Len(seen[h])] = env
                BY <3>1 DEF SeenInv, Reading
            <4>2. seen[h] \in Seq(Environments)
                BY DEF GateTypeOK
            <4>3. QED
                BY <4>1, <4>2
        <3>3. QED
            BY <3>1, <3>2 DEF SeenInv, ReadInv, AnswerInv, Reading
    <2>5. QED
        BY <2>1, <2>2, <2>3, <2>4
<1>4. ASSUME NEW h \in Goroutines, GetDisabled(h) PROVE GateInv'
    <2>1. GateTypeOK'
        BY <1>4 DEF GetDisabled, Goto, GateTypeOK, Environments, Reading
    <2>2. CacheInv'
        BY <1>4 DEF GetDisabled, CacheInv
    <2>3. ASSUME NEW g \in Goroutines, g # h
          PROVE  (SeenInv(g) /\ ReadInv(g) /\ AnswerInv(g))'
        BY <1>4, <2>3 DEF GetDisabled, Goto, GateTypeOK, SeenInv, ReadInv, AnswerInv
    <2>4. (SeenInv(h) /\ ReadInv(h) /\ AnswerInv(h))'
        <3>1. /\ pc[h] = "disabled" /\ pc'[h] = "load" /\ seen' = seen /\ env' = env
              /\ read'[h].sdkDisabled = read[h].sdkDisabled
              /\ read'[h].enabled = read[h].enabled
              /\ read'[h].disabled = env.disabled
            BY <1>4 DEF GetDisabled, Goto, GateTypeOK, Environments
        <3>2. Len(seen[h]) \in DOMAIN seen[h] /\ seen[h][Len(seen[h])] = env
            <4>1. Len(seen[h]) >= 1 /\ seen[h][Len(seen[h])] = env
                BY <3>1 DEF SeenInv, Reading
            <4>2. seen[h] \in Seq(Environments)
                BY DEF GateTypeOK
            <4>3. QED
                BY <4>1, <4>2
        <3>3. QED
            BY <3>1, <3>2 DEF SeenInv, ReadInv, AnswerInv, Reading
    <2>5. QED
        BY <2>1, <2>2, <2>3, <2>4
<1>5. ASSUME NEW h \in Goroutines, Load(h) PROVE GateInv'
    <2>1. GateTypeOK'
        BY <1>5 DEF Load, Goto, GateTypeOK, Reading
    <2>2. CacheInv'
        BY <1>5 DEF Load, CacheInv
    <2>3. ASSUME NEW g \in Goroutines, g # h
          PROVE  (SeenInv(g) /\ ReadInv(g) /\ AnswerInv(g))'
        BY <1>5, <2>3 DEF Load, Goto, GateTypeOK, SeenInv, ReadInv, AnswerInv
    <2>4. (SeenInv(h) /\ ReadInv(h) /\ AnswerInv(h))'
        <3>1. /\ pc[h] = "load" /\ pc'[h] \in {"store", "decide"}
              /\ UNCHANGED <<seen, env, read>>
            BY <1>5 DEF Load, Goto, GateTypeOK
        <3>2. cached'[h] = buildConfigCache(read[h])
            BY <1>5, CacheIsItsOwn DEF Load, GateTypeOK
        <3>3. QED
            BY <3>1, <3>2 DEF SeenInv, ReadInv, AnswerInv, Reading
    <2>5. QED
        BY <2>1, <2>2, <2>3, <2>4
<1>6. ASSUME NEW h \in Goroutines, Store(h) PROVE GateInv'
    <2>1. GateTypeOK'
        BY <1>6 DEF Store, Goto, GateTypeOK, Reading
    <2>2. CacheInv'
        BY <1>6 DEF Store, Goto, CacheInv, ReadInv, GateTypeOK
    <2>3. ASSUME NEW g \in Goroutines PROVE (SeenInv(g) /\ ReadInv(g) /\ AnswerInv(g))'
        <3>1. /\ g = h => pc[g] = "store" /\ pc'[g] = "decide"
              /\ g # h => pc'[g] = pc[g]
              /\ UNCHANGED <<env, read, cached, answer, seen>>
            BY <1>6 DEF Store, Goto, GateTypeOK
        <3>2. QED
            BY <3>1 DEF SeenInv, ReadInv, AnswerInv, Reading
    <2>4. QED
        BY <2>1, <2>2, <2>3
<1>7. ASSUME NEW h \in Goroutines, Decide(h) PROVE GateInv'
    <2>1. GateTypeOK'
        BY <1>7, Zenon DEF Decide, Goto, GateTypeOK, Reading
    <2>2. CacheInv'
        BY <1>7 DEF Decide, CacheInv
    <2>3. ASSUME NEW g \in Goroutines, g # h
          PROVE  (SeenInv(g) /\ ReadInv(g) /\ AnswerInv(g))'
        BY <1>7, <2>3 DEF Decide, Goto, GateTypeOK, SeenInv, ReadInv, AnswerInv
    <2>4. (SeenInv(h) /\ ReadInv(h) /\ AnswerInv(h))'
        <3>1. /\ pc[h] = "decide" /\ pc'[h] = "done" /\ seen' = seen
              /\ cached[h] = buildConfigCache(read[h]) /\ read[h] \in Environments
            BY <1>7 DEF Decide, Goto, GateTypeOK, ReadInv
        <3>2. answer'[h] <=> Documented(read[h])
            BY <1>7, <3>1, DecisionIsDocumented DEF Decide, Used, GateTypeOK
        <3>3. SeenInv(h)' /\ ReadInv(h)'
            BY <3>1 DEF SeenInv, ReadInv, Reading
        <3>4. ASSUME Len(seen[h]) <= 2
              PROVE  \E i \in DOMAIN seen[h] : read[h] = seen[h][i]
            <4>1. seen[h] \in Seq(Environments) /\ Len(seen[h]) \in {1, 2}
                <5>1. seen[h] \in Seq(Environments) /\ Len(seen[h]) >= 1
                    BY <3>1 DEF GateTypeOK, SeenInv
                <5>2. Len(seen[h]) \in Nat
                    BY <5>1
                <5>3. \A n \in Nat : n >= 1 /\ n <= 2 => n \in {1, 2}
                    OBVIOUS
                <5>4. QED
                    BY <3>4, <5>1, <5>2, <5>3
            <4>2. Len(seen[h]) = 2 => AtMostOneDiffers(seen[h][1], seen[h][2])
                BY <3>1 DEF SeenInv
            <4>3. /\ \E i \in DOMAIN seen[h] : read[h].sdkDisabled = seen[h][i].sdkDisabled
                  /\ \E i \in DOMAIN seen[h] : read[h].enabled = seen[h][i].enabled
                  /\ \E i \in DOMAIN seen[h] : read[h].disabled = seen[h][i].disabled
                BY <3>1 DEF ReadInv, Reading
            <4>4. QED
                BY <3>1, <4>1, <4>2, <4>3, MixIsOne
        <3>5. AnswerInv(h)'
            BY <3>1, <3>2, <3>4 DEF AnswerInv
        <3>6. QED
            BY <3>3, <3>5
    <2>5. QED
        BY <2>1, <2>2, <2>3, <2>4
<1>8. CASE UNCHANGED vars
    BY <1>8 DEF vars, GateTypeOK, CacheInv, SeenInv, ReadInv, AnswerInv
<1>9. QED
    BY <1>1, <1>2, <1>3, <1>4, <1>5, <1>6, <1>7, <1>8 DEF Next

\* However goroutines replace the shared cache under each other, an answer given
\* while the environment changed at most once is the documented one for the
\* environment before or after: hooksupport.Instrumented.
THEOREM AnswersAreCurrent == InboundSpec => []AnswerIsCurrent
<1>1. InboundInit => GateInv
    BY GateInitInv DEF InboundInit
<1>2. GateInv /\ [InboundNext]_<<hooks, vars, serverVars, ginVars>> => GateInv'
    <2>1. [InboundNext]_<<hooks, vars, serverVars, ginVars>> => [Next]_vars
        BY DEF InboundNext
    <2>2. QED
        BY <2>1, GateNextInv
<1>3. GateInv => AnswerIsCurrent
    BY DEF GateInv, AnswerInv, AnswerIsCurrent
<1>4. QED
    BY <1>1, <1>2, <1>3, PTL DEF InboundSpec

-----------------------------------------------------------------------------
(* gin's Context.Next, nested to any depth.                                  *)

Frames == [kind : {"next", "handle", "span"}, ctx : Nat, span : Nat]

Spans == [sampled : BOOLEAN, ended : BOOLEAN, name : Gin!Routes,
          recorded : [1..MaxErrors -> 0..Gin!Many]]

GinTypeOK ==
    /\ stack \in Seq(Frames)
    /\ depth \in Int
    /\ routeSet \in BOOLEAN /\ route \in Gin!Routes
    /\ made \in 0..MaxErrors /\ errors \in Seq(1..MaxErrors)
    /\ spans \in Seq(Spans) /\ ctx \in 1..Len(spans)
    /\ \A i \in 1..Len(stack) : /\ stack[i].ctx \in 1..Len(spans)
                                /\ stack[i].kind = "span" => stack[i].span \in 2..Len(spans)
    /\ finished \in BOOLEAN /\ rerouted \in BOOLEAN

\* No middleware ends the server's span.
ServerSpanInv == Len(spans) >= 1 /\ ~spans[Gin!Server].ended

\* The gate is set when a span has been given the route.
RouteInv == routeSet => \E s \in 1..Len(spans) : spans[s].name = route

\* The calls of Next under way.
NextCount(calls) == Cardinality({i \in 1..Len(calls) : calls[i].kind = "next"})

\* The depth as the hook reads it: no key counts as zero.
Level == IF depth = Gin!NoKey THEN 0 ELSE depth

\* The depth is the number of calls of Next, or less if HandleContext reset it.
DepthInv ==
    /\ Level <= NextCount(stack)
    /\ ~rerouted => Level = NextCount(stack)

\* The outermost call is one of Next; when it returns everything is over.
BottomInv ==
    /\ stack # <<>> => stack[1].kind = "next"
    /\ finished => stack = <<>>

\* Until then, nothing has been recorded on the server span.
OnceInv ==
    ~rerouted => /\ Len(errors) = made
                 /\ \A i \in 1..made : errors[i] = i
                 /\ ~finished => \A e \in 1..MaxErrors : spans[Gin!Server].recorded[e] = 0

GinInv ==
    /\ GinTypeOK /\ ServerSpanInv /\ RouteInv /\ DepthInv /\ BottomInv /\ OnceInv
    /\ ErrorsReachServerSpan

\* A call more, and a call less.
LEMMA CallsCounted ==
    ASSUME NEW calls \in Seq(Frames), NEW call \in Frames
    PROVE  /\ NextCount(calls) \in Nat
           /\ NextCount(Append(calls, call)) =
                IF call.kind = "next" THEN NextCount(calls) + 1 ELSE NextCount(calls)
<1> DEFINE S == {i \in 1..Len(calls) : calls[i].kind = "next"}
           T == {i \in 1..Len(Append(calls, call)) : Append(calls, call)[i].kind = "next"}
<1>1. /\ Len(calls) \in Nat
      /\ Len(Append(calls, call)) = Len(calls) + 1
      /\ Append(calls, call)[Len(calls) + 1] = call
      /\ \A i \in 1..Len(calls) : Append(calls, call)[i] = calls[i]
    OBVIOUS
<1>2. IsFiniteSet(S)
    <2>1. IsFiniteSet(1..Len(calls))
        BY <1>1, FS_Interval
    <2>2. QED
        BY <2>1, FS_Subset
<1>3. T = IF call.kind = "next" THEN S \cup {Len(calls) + 1} ELSE S
    BY <1>1
<1>4. Len(calls) + 1 \notin S
    BY <1>1
<1>5. Cardinality(S) \in Nat /\ Cardinality(S \cup {Len(calls) + 1}) = Cardinality(S) + 1
    BY <1>2, <1>4, FS_CardinalityType, FS_AddElement
<1>6. NextCount(calls) = Cardinality(S) /\ NextCount(Append(calls, call)) = Cardinality(T)
    BY DEF NextCount
<1> HIDE DEF S, T
<1>7. QED
    BY <1>3, <1>5, <1>6

LEMMA CallReturns ==
    ASSUME NEW calls \in Seq(Frames), calls # <<>>
    PROVE  LET rest == SubSeq(calls, 1, Len(calls) - 1)
           IN  /\ rest \in Seq(Frames)
               /\ Len(rest) = Len(calls) - 1
               /\ \A i \in 1..Len(rest) : rest[i] = calls[i]
               /\ calls[Len(calls)] \in Frames
               /\ NextCount(calls) = IF calls[Len(calls)].kind = "next"
                                     THEN NextCount(rest) + 1 ELSE NextCount(rest)
<1> DEFINE rest == SubSeq(calls, 1, Len(calls) - 1)
<1>1. Len(calls) \in Nat /\ Len(calls) >= 1 /\ calls[Len(calls)] \in Frames
    OBVIOUS
<1>2. /\ rest \in Seq(Frames)
      /\ Len(rest) = Len(calls) - 1
      /\ \A i \in 1..Len(rest) : rest[i] = calls[i]
    <2>1. 1 \in Int /\ Len(calls) - 1 \in Nat /\ \A i \in 1..(Len(calls) - 1) : calls[i] \in Frames
        BY <1>1
    <2>2. /\ rest \in Seq(Frames)
          /\ Len(rest) = IF 1 <= Len(calls) - 1 THEN Len(calls) - 1 - 1 + 1 ELSE 0
          /\ \A i \in 1..(Len(calls) - 1 - 1 + 1) : rest[i] = calls[1 + i - 1]
        BY <2>1, SubSeqProperties
    <2> HIDE DEF rest
    <2>3. Len(rest) = Len(calls) - 1
        <3>1. \A n \in Nat : n >= 1 => (IF 1 <= n - 1 THEN n - 1 - 1 + 1 ELSE 0) = n - 1
            OBVIOUS
        <3>2. QED
            BY <1>1, <2>2, <3>1
    <2>4. \A i \in 1..Len(rest) : i \in 1..(Len(calls) - 1 - 1 + 1) /\ 1 + i - 1 = i
        BY <1>1, <2>3
    <2>5. QED
        BY <2>2, <2>3, <2>4
<1>3. calls = Append(rest, calls[Len(calls)])
    BY <1>1, <1>2
<1>4. QED
    BY <1>1, <1>2, <1>3, CallsCounted

\* A stack without a call of Next is empty, and so is an empty one.
LEMMA CountAtBottom ==
    ASSUME NEW calls \in Seq(Frames)
    PROVE  /\ calls = <<>> => NextCount(calls) = 0
           /\ (calls # <<>> /\ calls[1].kind = "next") => NextCount(calls) >= 1
<1> DEFINE S == {i \in 1..Len(calls) : calls[i].kind = "next"}
<1>1. Len(calls) \in Nat
    OBVIOUS
<1>2. IsFiniteSet(S)
    <2>1. IsFiniteSet(1..Len(calls))
        BY <1>1, FS_Interval
    <2>2. QED
        BY <2>1, FS_Subset
<1>3. Cardinality(S) \in Nat /\ (Cardinality(S) = 0 <=> S = {})
    BY <1>2, FS_CardinalityType, FS_EmptySet
<1>4. calls = <<>> => S = {}
    OBVIOUS
<1>5. (calls # <<>> /\ calls[1].kind = "next") => 1 \in S
    BY <1>1
<1>6. NextCount(calls) = Cardinality(S)
    BY DEF NextCount
<1> HIDE DEF S
<1>7. QED
    BY <1>3, <1>4, <1>5, <1>6

\* The route goes to the current span or nowhere.
LEMMA SetRouteDoes ==
    ASSUME spans \in Seq(Spans), ctx \in 1..Len(spans), NEW r \in Gin!Routes,
           NEW gate \in BOOLEAN, Gin!SetRoute(r, gate)
    PROVE  /\ spans' \in Seq(Spans) /\ Len(spans') = Len(spans)
           /\ \A s \in 1..Len(spans) : /\ spans'[s].ended = spans[s].ended
                                       /\ spans'[s].recorded = spans[s].recorded
                                       /\ spans'[s].sampled = spans[s].sampled
           /\ routeSet' \in BOOLEAN
           /\ gate => routeSet' /\ spans' = spans
           /\ (routeSet' /\ ~gate) => spans'[ctx].name = r
           /\ (r # Gin!NoRoute /\ ~gate /\ Gin!IsRecording(ctx)) => spans'[ctx].name = r
<1>1. CASE r # Gin!NoRoute /\ ~gate /\ Gin!IsRecording(ctx)
    <2>1. routeSet' = TRUE /\ spans' = [spans EXCEPT ![ctx].name = r]
        BY <1>1 DEF Gin!SetRoute
    <2>2. spans[ctx] \in Spans
        OBVIOUS
    <2>3. [spans[ctx] EXCEPT !.name = r] \in Spans
        BY <2>2 DEF Spans
    <2>4. spans' = [spans EXCEPT ![ctx] = [spans[ctx] EXCEPT !.name = r]]
        BY <2>1
    <2>5. spans' \in Seq(Spans) /\ Len(spans') = Len(spans)
        BY <2>3, <2>4
    <2>6. \A s \in 1..Len(spans) : spans'[s] = IF s = ctx THEN [spans[ctx] EXCEPT !.name = r]
                                               ELSE spans[s]
        BY <2>4
    <2>7. /\ [spans[ctx] EXCEPT !.name = r].name = r
          /\ [spans[ctx] EXCEPT !.name = r].ended = spans[ctx].ended
          /\ [spans[ctx] EXCEPT !.name = r].recorded = spans[ctx].recorded
          /\ [spans[ctx] EXCEPT !.name = r].sampled = spans[ctx].sampled
        BY <2>2 DEF Spans
    <2>8. QED
        BY <1>1, <2>1, <2>5, <2>6, <2>7
<1>2. CASE ~(r # Gin!NoRoute /\ ~gate /\ Gin!IsRecording(ctx))
    <2>1. routeSet' = gate /\ spans' = spans
        BY <1>2, Zenon DEF Gin!SetRoute
    <2>2. QED
        BY <1>2, <2>1
<1>3. QED
    BY <1>1, <1>2

LEMMA ElementsInRange ==
    ASSUME NEW S, NEW seq \in Seq(S)
    PROVE  \A i \in 1..Len(seq) : seq[i] \in Gin!Range(seq) /\ seq[i] \in S
<1>1. DOMAIN seq = 1..Len(seq)
    OBVIOUS
<1>2. \A i \in 1..Len(seq) : seq[i] \in S
    OBVIOUS
<1>3. QED
    BY <1>1, <1>2 DEF Gin!Range

\* The errors go to the current span, from depth zero down.
LEMMA RecordErrorsDoes ==
    ASSUME spans \in Seq(Spans), ctx \in 1..Len(spans), errors \in Seq(1..MaxErrors),
           NEW d \in Int, spans' = Gin!RecordErrors(d)
    PROVE  /\ spans' \in Seq(Spans) /\ Len(spans') = Len(spans)
           /\ \A s \in 1..Len(spans) : /\ spans'[s].ended = spans[s].ended
                                       /\ spans'[s].name = spans[s].name
                                       /\ spans'[s].sampled = spans[s].sampled
           /\ d > 0 => spans' = spans
           /\ (d <= 0 /\ Gin!IsRecording(ctx)) =>
                \A i \in 1..Len(errors) :
                   spans'[ctx].recorded[errors[i]] =
                      IF spans[ctx].recorded[errors[i]] < Gin!Many
                      THEN spans[ctx].recorded[errors[i]] + 1
                      ELSE spans[ctx].recorded[errors[i]]
<1>1. CASE d <= 0 /\ Len(errors) > 0 /\ Gin!IsRecording(ctx)
    <2> DEFINE counts == spans[ctx].recorded
    <2>1. spans[ctx] \in Spans /\ counts \in [1..MaxErrors -> 0..2] /\ Gin!Many = 2
        <3>1. spans[ctx] \in Spans
            OBVIOUS
        <3>2. QED
            BY <3>1 DEF Spans, Gin!Many
    <2>2. spans' = [spans EXCEPT ![ctx].recorded = Gin!Recorded(counts)]
        BY <1>1 DEF Gin!RecordErrors
    <2>3. Gin!Recorded(counts) = [e \in 1..MaxErrors |->
              IF e \in Gin!Range(errors) /\ counts[e] < Gin!Many THEN counts[e] + 1 ELSE counts[e]]
        BY <2>1 DEF Gin!Recorded
    <2>4. Gin!Recorded(counts) \in [1..MaxErrors -> 0..Gin!Many]
        <3>1. ASSUME NEW e \in 1..MaxErrors
              PROVE  (IF e \in Gin!Range(errors) /\ counts[e] < Gin!Many
                      THEN counts[e] + 1 ELSE counts[e]) \in 0..Gin!Many
            <4>1. counts[e] \in 0..2
                BY <2>1
            <4> HIDE DEF counts
            <4>2. QED
                BY <2>1, <4>1
        <3> HIDE DEF counts
        <3>2. QED
            BY <2>3, <3>1
    <2>5. \A i \in 1..Len(errors) : errors[i] \in Gin!Range(errors) /\ errors[i] \in 1..MaxErrors
        BY ElementsInRange
    <2>6. \A i \in 1..Len(errors) : Gin!Recorded(counts)[errors[i]] =
              IF counts[errors[i]] < Gin!Many THEN counts[errors[i]] + 1 ELSE counts[errors[i]]
        BY <2>3, <2>5
    <2> DEFINE new == [spans[ctx] EXCEPT !.recorded = Gin!Recorded(counts)]
    <2>7. /\ new \in Spans /\ new.ended = spans[ctx].ended /\ new.name = spans[ctx].name
          /\ new.sampled = spans[ctx].sampled /\ new.recorded = Gin!Recorded(counts)
        BY <2>1, <2>4 DEF Spans
    <2>8. spans' = [spans EXCEPT ![ctx] = new]
        BY <2>2
    <2> HIDE DEF new
    <2>9. spans' \in Seq(Spans) /\ Len(spans') = Len(spans)
        BY <2>7, <2>8
    <2>10. \A s \in 1..Len(spans) : spans'[s] = IF s = ctx THEN new ELSE spans[s]
        BY <2>8
    <2> HIDE DEF counts
    <2>11. QED
        BY <1>1, <2>6, <2>7, <2>9, <2>10 DEF counts
<1>2. CASE ~(d <= 0 /\ Len(errors) > 0 /\ Gin!IsRecording(ctx))
    <2>1. spans' = spans
        BY <1>2 DEF Gin!RecordErrors
    <2>2. d > 0 \/ Len(errors) = 0 \/ ~Gin!IsRecording(ctx)
        BY <1>2
    <2>3. QED
        BY <2>1, <2>2
<1>3. QED
    BY <1>1, <1>2

LEMMA GinInitInv == Gin!Init => GinInv
<1> SUFFICES ASSUME Gin!Init PROVE GinInv
    OBVIOUS
<1>1. PICK sampled \in BOOLEAN : spans = <<Gin!NewSpan(sampled)>>
    BY DEF Gin!Init
<1>2. Gin!NewSpan(sampled) \in Spans /\ ~Gin!NewSpan(sampled).ended
      /\ Gin!NewSpan(sampled).recorded = [e \in 1..MaxErrors |-> 0]
    BY DEF Gin!NewSpan, Spans, Gin!Routes, Gin!NoRoute, Gin!Many
<1>3. /\ spans \in Seq(Spans) /\ Len(spans) = 1 /\ spans[1] = Gin!NewSpan(sampled)
    BY <1>1, <1>2
<1>4. stack = <<>> /\ stack \in Seq(Frames) /\ Len(stack) = 0
    BY DEF Gin!Init
<1>5. /\ depth = Gin!NoKey /\ routeSet = FALSE /\ route \in Gin!Routes /\ errors = <<>>
      /\ made = 0 /\ ctx = 1 /\ finished = FALSE /\ rerouted = FALSE
    BY DEF Gin!Init, Gin!Server
<1>6. GinTypeOK
    <2>1. made \in 0..MaxErrors
        BY <1>5, ErrorBound
    <2>2. errors \in Seq(1..MaxErrors) /\ depth \in Int
        BY <1>5 DEF Gin!NoKey
    <2>3. ctx \in 1..Len(spans)
        BY <1>3, <1>5
    <2>4. \A i \in 1..Len(stack) : /\ stack[i].ctx \in 1..Len(spans)
                                   /\ stack[i].kind = "span" => stack[i].span \in 2..Len(spans)
        BY <1>4
    <2>5. QED
        BY <1>3, <1>4, <1>5, <2>1, <2>2, <2>3, <2>4 DEF GinTypeOK
<1>7. DepthInv /\ ServerSpanInv /\ RouteInv /\ BottomInv /\ OnceInv
    <2>1. DepthInv
        <3>1. NextCount(stack) = 0 /\ Level = 0
            BY <1>4, <1>5, CountAtBottom DEF Level
        <3>2. QED
            BY <3>1 DEF DepthInv
    <2>2. ServerSpanInv
        BY <1>2, <1>3 DEF ServerSpanInv, Gin!Server
    <2>3. RouteInv /\ BottomInv
        BY <1>4, <1>5 DEF RouteInv, BottomInv
    <2>4. OnceInv
        <3>1. Len(errors) = made /\ \A i \in 1..made : errors[i] = i
            BY <1>5
        <3>2. spans[Gin!Server].recorded = [e \in 1..MaxErrors |-> 0]
            BY <1>2, <1>3 DEF Gin!Server
        <3>3. QED
            BY <3>1, <3>2 DEF OnceInv
    <2>5. QED
        BY <2>1, <2>2, <2>3, <2>4
<1>8. ErrorsReachServerSpan
    BY DEF Gin!Init, ErrorsReachServerSpan, Gin!ErrorsReachServerSpan, Gin!EachErrorOnce,
       Gin!NoErrorIsLost, Gin!Unwound
<1>9. QED
    BY <1>6, <1>7, <1>8 DEF GinInv

LEMMA CallBegins ==
    ASSUME NEW calls \in Seq(Frames), NEW call \in Frames
    PROVE  /\ Append(calls, call) \in Seq(Frames)
           /\ Len(calls) \in Nat /\ Len(Append(calls, call)) = Len(calls) + 1
           /\ \A i \in 1..Len(calls) : Append(calls, call)[i] = calls[i]
           /\ Append(calls, call)[Len(calls) + 1] = call
           /\ Append(calls, call) # <<>>
           /\ Append(calls, call)[1] = IF calls = <<>> THEN call ELSE calls[1]
OBVIOUS

\* A new span of the request, and a change of one.
LEMMA SpanStarts ==
    ASSUME NEW old \in Seq(Spans), NEW sp \in Spans
    PROVE  /\ Append(old, sp) \in Seq(Spans)
           /\ Len(old) \in Nat /\ Len(Append(old, sp)) = Len(old) + 1
           /\ \A s \in 1..Len(old) : Append(old, sp)[s] = old[s]
OBVIOUS

LEMMA NextKeepsGinInv == GinInv /\ Gin!Next_ => GinInv'
<1> SUFFICES ASSUME GinInv, Gin!Next_ PROVE GinInv'
    OBVIOUS
<1> DEFINE call == Gin!Call("next", Gin!None)
<1>1. GinTypeOK /\ ServerSpanInv /\ RouteInv /\ DepthInv /\ BottomInv /\ OnceInv
    BY DEF GinInv
<1>2. /\ ~finished /\ stack' = Append(stack, call)
      /\ depth' = IF depth = Gin!NoKey THEN 1 ELSE depth + 1
      /\ UNCHANGED <<route, errors, made, ctx, finished, rerouted>>
    BY DEF Gin!Next_, Gin!Push, Gin!Deeper
<1>3. /\ spans' \in Seq(Spans) /\ Len(spans') = Len(spans)
      /\ \A s \in 1..Len(spans) : /\ spans'[s].ended = spans[s].ended
                                  /\ spans'[s].recorded = spans[s].recorded
                                  /\ spans'[s].sampled = spans[s].sampled
      /\ routeSet' \in BOOLEAN
      /\ routeSet => routeSet' /\ spans' = spans
      /\ (routeSet' /\ ~routeSet) => spans'[ctx].name = route
    BY <1>1, SetRouteDoes DEF Gin!Next_, GinTypeOK
<1>4. call \in Frames /\ call.kind = "next" /\ call.ctx = ctx
    BY <1>1 DEF Gin!Call, Gin!None, Frames, GinTypeOK
<1> HIDE DEF call
<1>5. /\ stack' \in Seq(Frames) /\ Len(stack) \in Nat /\ Len(stack') = Len(stack) + 1
      /\ \A i \in 1..Len(stack) : stack'[i] = stack[i]
      /\ stack'[Len(stack) + 1] = call /\ stack' # <<>>
      /\ stack'[1] = IF stack = <<>> THEN call ELSE stack[1]
    BY <1>1, <1>2, <1>4, CallBegins DEF GinTypeOK
<1>6. GinTypeOK'
    <2>1. \A i \in 1..Len(stack') :
             /\ stack'[i].ctx \in 1..Len(spans')
             /\ stack'[i].kind = "span" => stack'[i].span \in 2..Len(spans')
        <3>1. \A i \in 1..Len(stack') : i \in 1..Len(stack) \/ i = Len(stack) + 1
            BY <1>5
        <3>2. QED
            BY <1>1, <1>3, <1>4, <1>5, <3>1 DEF GinTypeOK
    <2>2. depth' \in Int
        BY <1>1, <1>2 DEF GinTypeOK
    <2>3. QED
        BY <1>1, <1>2, <1>3, <1>5, <2>1, <2>2 DEF GinTypeOK
<1>7. ServerSpanInv'
    BY <1>1, <1>3, SMTT(30) DEF ServerSpanInv, Gin!Server, GinTypeOK
<1>8. RouteInv'
    BY <1>1, <1>2, <1>3 DEF RouteInv, GinTypeOK
<1>9. DepthInv'
    <2>1. NextCount(stack) \in Nat /\ NextCount(stack') = NextCount(stack) + 1
        BY <1>1, <1>2, <1>4, CallsCounted DEF GinTypeOK
    <2>2. QED
        BY <1>1, <1>2, <2>1 DEF DepthInv, Level, Gin!NoKey, GinTypeOK
<1>10. BottomInv'
    BY <1>1, <1>2, <1>4, <1>5 DEF BottomInv
<1>11. OnceInv'
    BY <1>1, <1>2, <1>3, SMTT(30) DEF OnceInv, ServerSpanInv, Gin!Server, GinTypeOK
<1>12. ErrorsReachServerSpan'
    BY <1>2 DEF ErrorsReachServerSpan, Gin!ErrorsReachServerSpan,
       Gin!EachErrorOnce, Gin!NoErrorIsLost, Gin!Unwound
<1>13. QED
    BY <1>6, <1>7, <1>8, <1>9, <1>10, <1>11, <1>12 DEF GinInv

LEMMA NextReturnsKeepsGinInv == GinInv /\ Gin!NextReturns => GinInv'
<1> SUFFICES ASSUME GinInv, Gin!NextReturns PROVE GinInv'
    OBVIOUS
<1>1. /\ GinTypeOK /\ ServerSpanInv /\ RouteInv /\ DepthInv /\ BottomInv /\ OnceInv
      /\ ErrorsReachServerSpan
    BY DEF GinInv
<1>2. /\ stack # <<>> /\ stack[Len(stack)].kind = "next"
      /\ stack' = SubSeq(stack, 1, Len(stack) - 1)
      /\ depth' = Level - 1
      /\ spans' = Gin!RecordErrors(depth')
      /\ finished' = (Len(stack) = 1)
      /\ UNCHANGED <<routeSet, route, errors, made, ctx, rerouted>>
    BY DEF Gin!NextReturns, Gin!Top, Gin!Pop, Level
<1>3. /\ stack' \in Seq(Frames) /\ Len(stack') = Len(stack) - 1
      /\ \A i \in 1..Len(stack') : stack'[i] = stack[i]
      /\ NextCount(stack) = NextCount(stack') + 1
    BY <1>1, <1>2, CallReturns DEF GinTypeOK
<1>4. Len(stack) \in Nat /\ NextCount(stack') \in Nat /\ Level \in Int /\ depth' \in Int
    <2>1. NextCount(stack') \in Nat
        BY <1>1, <1>2, <1>3, CallsCounted, CallReturns DEF GinTypeOK
    <2>2. QED
        BY <1>1, <1>2, <2>1 DEF GinTypeOK, Level
<1>5. /\ spans' \in Seq(Spans) /\ Len(spans') = Len(spans)
      /\ \A s \in 1..Len(spans) : /\ spans'[s].ended = spans[s].ended
                                  /\ spans'[s].name = spans[s].name
                                  /\ spans'[s].sampled = spans[s].sampled
      /\ depth' > 0 => spans' = spans
      /\ (depth' <= 0 /\ Gin!IsRecording(ctx)) =>
            \A i \in 1..Len(errors) :
               spans'[ctx].recorded[errors[i]] =
                  IF spans[ctx].recorded[errors[i]] < Gin!Many
                  THEN spans[ctx].recorded[errors[i]] + 1
                  ELSE spans[ctx].recorded[errors[i]]
    BY <1>1, <1>2, <1>4, RecordErrorsDoes DEF GinTypeOK
<1>6. GinTypeOK'
    <2>1. \A i \in 1..Len(stack') :
             /\ stack'[i].ctx \in 1..Len(spans')
             /\ stack'[i].kind = "span" => stack'[i].span \in 2..Len(spans')
        <3>1. \A i \in 1..Len(stack') : i \in 1..Len(stack)
            BY <1>3, <1>4
        <3>2. QED
            BY <1>1, <1>3, <1>5, <3>1 DEF GinTypeOK
    <2>2. finished' \in BOOLEAN
        BY <1>2
    <2>3. QED
        BY <1>1, <1>2, <1>3, <1>4, <1>5, <2>1, <2>2 DEF GinTypeOK
<1>7. ServerSpanInv' /\ RouteInv'
    <2>1. ServerSpanInv'
        BY <1>1, <1>5 DEF ServerSpanInv, Gin!Server, GinTypeOK
    <2>2. RouteInv'
        BY <1>1, <1>2, <1>5 DEF RouteInv
    <2>3. QED
        BY <2>1, <2>2
<1>8. /\ depth' <= NextCount(stack')
      /\ ~rerouted => depth' = NextCount(stack')
    BY <1>1, <1>2, <1>3, <1>4 DEF DepthInv
<1>9. DepthInv'
    BY <1>2, <1>4, <1>8 DEF DepthInv, Level, Gin!NoKey
<1>10. (finished' <=> stack' = <<>>) /\ (stack' # <<>> => stack'[1] = stack[1])
    <2>1. stack' = <<>> <=> Len(stack') = 0
        BY <1>3
    <2>2. Len(stack') = 0 <=> Len(stack) = 1
        BY <1>3, <1>4
    <2>3. stack' # <<>> => 1 \in 1..Len(stack')
        BY <1>3, <1>4, <2>1
    <2>4. QED
        BY <1>2, <1>3, <2>1, <2>2, <2>3
<1>11. BottomInv'
    BY <1>1, <1>2, <1>10 DEF BottomInv
<1>12. ~finished
    BY <1>1, <1>2 DEF BottomInv
<1>13. finished' => depth' <= 0
    <2>1. stack' = <<>> => NextCount(stack') = 0
        BY <1>3, CountAtBottom
    <2>2. QED
        BY <1>4, <1>8, <1>10, <2>1
<1>14. (~rerouted /\ ~finished') => depth' > 0
    <2>1. stack' # <<>> => NextCount(stack') >= 1
        BY <1>1, <1>2, <1>3, <1>10, CountAtBottom DEF BottomInv
    <2>2. QED
        BY <1>4, <1>8, <1>10, <2>1
<1>15. OnceInv'
    BY <1>1, <1>2, <1>5, <1>12, <1>14 DEF OnceInv
<1>16. ASSUME Gin!Unwound' PROVE /\ Gin!IsRecording(ctx) /\ ctx = Gin!Server /\ depth' <= 0
    BY <1>1, <1>2, <1>5, <1>13, <1>16 DEF Gin!Unwound, Gin!IsRecording, ServerSpanInv,
       Gin!Server, GinTypeOK
<1>17. ASSUME Gin!Unwound', NEW i \in 1..Len(errors)
       PROVE  /\ errors[i] \in 1..MaxErrors
              /\ spans[Gin!Server].recorded[errors[i]] \in 0..2
              /\ spans'[Gin!Server].recorded[errors[i]] =
                    IF spans[Gin!Server].recorded[errors[i]] < 2
                    THEN spans[Gin!Server].recorded[errors[i]] + 1
                    ELSE spans[Gin!Server].recorded[errors[i]]
    <2>1. errors[i] \in 1..MaxErrors /\ spans[ctx] \in Spans
        <3>1. errors \in Seq(1..MaxErrors) /\ spans \in Seq(Spans) /\ ctx \in 1..Len(spans)
            BY <1>1 DEF GinTypeOK
        <3>2. QED
            BY <3>1, ElementsInRange
    <2>2. spans[ctx].recorded \in [1..MaxErrors -> 0..2]
        BY <2>1 DEF Spans, Gin!Many
    <2>3. QED
        <3>1. ctx = Gin!Server /\ depth' <= 0 /\ Gin!IsRecording(ctx)
            BY <1>16, <1>17
        <3>2. spans[ctx].recorded[errors[i]] \in 0..2
            BY <2>1, <2>2
        <3>3. spans'[ctx].recorded[errors[i]] =
                 IF spans[ctx].recorded[errors[i]] < Gin!Many
                 THEN spans[ctx].recorded[errors[i]] + 1
                 ELSE spans[ctx].recorded[errors[i]]
            BY <1>5, <3>1
        <3>4. QED
            BY <2>1, <3>1, <3>2, <3>3 DEF Gin!Many
<1>18. Gin!NoErrorIsLost'
    <2>1. ASSUME Gin!Unwound', NEW i \in 1..Len(errors)
          PROVE  spans'[Gin!Server].recorded[errors[i]] >= 1
        BY <1>17, <2>1
    <2>2. DOMAIN errors = 1..Len(errors)
        BY <1>1 DEF GinTypeOK
    <2>3. QED
        BY <1>2, <2>1, <2>2 DEF Gin!NoErrorIsLost
<1>19. Gin!EachErrorOnce'
    <2>1. ASSUME Gin!Unwound', ~rerouted, NEW e \in 1..made
          PROVE  spans'[Gin!Server].recorded[e] = 1
        <3>1. e \in 1..Len(errors) /\ errors[e] = e
            BY <1>1, <2>1 DEF OnceInv
        <3>2. spans[Gin!Server].recorded[e] = 0
            BY <1>1, <1>12, <1>17, <2>1, <3>1 DEF OnceInv
        <3>3. QED
            BY <1>17, <2>1, <3>1, <3>2
    <2>2. QED
        BY <1>2, <2>1 DEF Gin!EachErrorOnce
<1>20. QED
    BY <1>6, <1>7, <1>9, <1>11, <1>15, <1>18, <1>19
       DEF GinInv, ErrorsReachServerSpan, Gin!ErrorsReachServerSpan

LEMMA AddErrorKeepsGinInv == GinInv /\ Gin!AddError => GinInv'
<1> SUFFICES ASSUME GinInv, Gin!AddError PROVE GinInv'
    OBVIOUS
<1>1. GinTypeOK /\ ServerSpanInv /\ RouteInv /\ DepthInv /\ BottomInv /\ OnceInv
    BY DEF GinInv
<1>2. /\ stack # <<>> /\ made < MaxErrors /\ made' = made + 1
      /\ errors' = Append(errors, made + 1)
      /\ UNCHANGED <<stack, depth, routeSet, route, ctx, spans, finished, rerouted>>
    BY DEF Gin!AddError, Gin!InHandler
<1>3. made' \in 0..MaxErrors /\ made + 1 \in 1..MaxErrors
    BY <1>1, <1>2, ErrorBound DEF GinTypeOK
<1>4. errors' \in Seq(1..MaxErrors) /\ Len(errors') = Len(errors) + 1
      /\ errors'[Len(errors) + 1] = made + 1
      /\ \A i \in 1..Len(errors) : errors'[i] = errors[i]
    BY <1>1, <1>2, <1>3, AppendProperties DEF GinTypeOK
<1>5. GinTypeOK'
    BY <1>1, <1>2, <1>3, <1>4 DEF GinTypeOK
<1>6. ServerSpanInv' /\ RouteInv' /\ DepthInv' /\ BottomInv'
    BY <1>1, <1>2 DEF ServerSpanInv, RouteInv, DepthInv, Level, BottomInv
<1>7. OnceInv'
    <2>1. ASSUME ~rerouted, NEW i \in 1..(made + 1) PROVE errors'[i] = i
        <3>1. Len(errors) = made /\ \A j \in 1..made : errors[j] = j
            BY <1>1, <2>1 DEF OnceInv
        <3>2. i \in 1..made \/ i = made + 1
            BY <1>1 DEF GinTypeOK
        <3>3. QED
            BY <1>4, <3>1, <3>2
    <2>2. QED
        BY <1>1, <1>2, <1>4, <2>1 DEF OnceInv
<1>8. ErrorsReachServerSpan'
    BY <1>1, <1>2 DEF BottomInv, ErrorsReachServerSpan, Gin!ErrorsReachServerSpan,
       Gin!EachErrorOnce, Gin!NoErrorIsLost, Gin!Unwound
<1>9. QED
    BY <1>5, <1>6, <1>7, <1>8 DEF GinInv

LEMMA StartSpanKeepsGinInv ==
    ASSUME GinInv, NEW sampled \in BOOLEAN, Gin!StartSpan(sampled) PROVE GinInv'
<1> DEFINE call == Gin!Call("span", Len(spans) + 1)
           sp == Gin!NewSpan(sampled)
<1>1. GinTypeOK /\ ServerSpanInv /\ RouteInv /\ DepthInv /\ BottomInv /\ OnceInv
    BY DEF GinInv
<1>2. /\ stack # <<>> /\ stack' = Append(stack, call)
      /\ spans' = Append(spans, sp) /\ ctx' = Len(spans) + 1
      /\ UNCHANGED <<depth, routeSet, route, errors, made, finished, rerouted>>
    BY DEF Gin!StartSpan, Gin!InHandler, Gin!Push
<1>3. sp \in Spans
    BY DEF Gin!NewSpan, Spans, Gin!Routes, Gin!NoRoute, Gin!Many
<1>4. call \in Frames /\ call.kind = "span" /\ call.ctx = ctx /\ call.span = Len(spans) + 1
    BY <1>1 DEF Gin!Call, Frames, GinTypeOK
<1> HIDE DEF call, sp
<1>5. /\ stack' \in Seq(Frames) /\ Len(stack) \in Nat /\ Len(stack') = Len(stack) + 1
      /\ \A i \in 1..Len(stack) : stack'[i] = stack[i]
      /\ stack'[Len(stack) + 1] = call /\ stack' # <<>>
      /\ stack'[1] = IF stack = <<>> THEN call ELSE stack[1]
    BY <1>1, <1>2, <1>4, CallBegins DEF GinTypeOK
<1>6. /\ spans' \in Seq(Spans) /\ Len(spans) \in Nat /\ Len(spans') = Len(spans) + 1
      /\ \A s \in 1..Len(spans) : spans'[s] = spans[s]
    BY <1>1, <1>2, <1>3, SpanStarts DEF GinTypeOK
<1>7. GinTypeOK'
    <2>1. \A i \in 1..Len(stack') :
             /\ stack'[i].ctx \in 1..Len(spans')
             /\ stack'[i].kind = "span" => stack'[i].span \in 2..Len(spans')
        <3>1. \A i \in 1..Len(stack') : i \in 1..Len(stack) \/ i = Len(stack) + 1
            BY <1>5
        <3>2. 1..Len(spans) \subseteq 1..Len(spans') /\ 2..Len(spans) \subseteq 2..Len(spans')
            BY <1>6
        <3>3. Len(spans) + 1 \in 2..Len(spans') /\ ctx \in 1..Len(spans)
            BY <1>1, <1>6 DEF GinTypeOK
        <3>4. ASSUME NEW i \in 1..Len(stack)
              PROVE  /\ stack'[i].ctx \in 1..Len(spans')
                     /\ stack'[i].kind = "span" => stack'[i].span \in 2..Len(spans')
            <4>1. /\ stack[i].ctx \in 1..Len(spans)
                  /\ stack[i].kind = "span" => stack[i].span \in 2..Len(spans)
                BY <1>1 DEF GinTypeOK
            <4>2. QED
                BY <1>5, <3>2, <4>1
        <3>5. QED
            BY <1>4, <1>5, <3>1, <3>2, <3>3, <3>4
    <2>2. ctx' \in 1..Len(spans')
        BY <1>2, <1>6
    <2>3. QED
        BY <1>1, <1>2, <1>5, <1>6, <2>1, <2>2 DEF GinTypeOK
<1>8. ServerSpanInv'
    BY <1>1, <1>6 DEF ServerSpanInv, Gin!Server
<1>9. RouteInv'
    BY <1>1, <1>2, <1>6 DEF RouteInv
<1>10. DepthInv'
    <2>1. NextCount(stack') = NextCount(stack)
        BY <1>1, <1>2, <1>4, CallsCounted DEF GinTypeOK
    <2>2. QED
        BY <1>1, <1>2, <2>1 DEF DepthInv, Level
<1>11. BottomInv' /\ ~finished'
    BY <1>1, <1>2, <1>5 DEF BottomInv
<1>12. OnceInv'
    BY <1>1, <1>2, <1>6 DEF OnceInv, ServerSpanInv, Gin!Server
<1>13. ErrorsReachServerSpan'
    BY <1>11 DEF ErrorsReachServerSpan, Gin!ErrorsReachServerSpan, Gin!EachErrorOnce,
       Gin!NoErrorIsLost, Gin!Unwound
<1>14. QED
    BY <1>7, <1>8, <1>9, <1>10, <1>11, <1>12, <1>13 DEF GinInv

LEMMA EndSpanKeepsGinInv ==
    ASSUME GinInv, NEW restores \in BOOLEAN, Gin!EndSpan(restores) PROVE GinInv'
<1> DEFINE own == stack[Len(stack)].span
<1>1. GinTypeOK /\ ServerSpanInv /\ RouteInv /\ DepthInv /\ BottomInv /\ OnceInv
    BY DEF GinInv
<1>2. /\ stack # <<>> /\ stack[Len(stack)].kind = "span"
      /\ spans' = [spans EXCEPT ![own].ended = TRUE]
      /\ ctx' = IF restores THEN stack[Len(stack)].ctx ELSE ctx
      /\ stack' = SubSeq(stack, 1, Len(stack) - 1)
      /\ UNCHANGED <<depth, routeSet, route, errors, made, finished, rerouted>>
    BY DEF Gin!EndSpan, Gin!Top, Gin!Pop
<1>3. /\ stack' \in Seq(Frames) /\ Len(stack') = Len(stack) - 1
      /\ \A i \in 1..Len(stack') : stack'[i] = stack[i]
      /\ NextCount(stack) = NextCount(stack')
    BY <1>1, <1>2, CallReturns DEF GinTypeOK
<1>4. Len(stack) \in Nat /\ Len(stack) \in 1..Len(stack)
    BY <1>1, <1>2 DEF GinTypeOK
<1>5. own \in 2..Len(spans) /\ stack[Len(stack)].ctx \in 1..Len(spans) /\ own # 1
    BY <1>1, <1>2, <1>4 DEF GinTypeOK
<1> HIDE DEF own
<1>6. /\ spans' \in Seq(Spans) /\ Len(spans') = Len(spans)
      /\ \A s \in 1..Len(spans) : spans'[s].name = spans[s].name
      /\ spans'[1] = spans[1]
    <2>1. spans \in Seq(Spans) /\ own \in 1..Len(spans)
        BY <1>1, <1>5 DEF GinTypeOK
    <2>2. spans[own] \in Spans
        BY <2>1
    <2> DEFINE new == [spans[own] EXCEPT !.ended = TRUE]
    <2>3. new \in Spans /\ new.name = spans[own].name
        BY <2>2 DEF Spans
    <2>4. spans' = [spans EXCEPT ![own] = new]
        BY <1>2
    <2> HIDE DEF new
    <2>5. spans' \in Seq(Spans) /\ Len(spans') = Len(spans)
        BY <2>1, <2>3, <2>4
    <2>6. \A s \in 1..Len(spans) : spans'[s] = IF s = own THEN new ELSE spans[s]
        BY <2>1, <2>4
    <2>7. QED
        BY <1>1, <1>5, <2>3, <2>5, <2>6 DEF ServerSpanInv, GinTypeOK
<1>7. GinTypeOK'
    <2>1. \A i \in 1..Len(stack') :
             /\ stack'[i].ctx \in 1..Len(spans')
             /\ stack'[i].kind = "span" => stack'[i].span \in 2..Len(spans')
        <3>1. \A i \in 1..Len(stack') : i \in 1..Len(stack)
            BY <1>3, <1>4
        <3>2. QED
            BY <1>1, <1>3, <1>6, <3>1 DEF GinTypeOK
    <2>2. ctx' \in 1..Len(spans')
        BY <1>1, <1>2, <1>5, <1>6 DEF GinTypeOK
    <2>3. QED
        BY <1>1, <1>2, <1>3, <1>6, <2>1, <2>2 DEF GinTypeOK
<1>8. ServerSpanInv'
    BY <1>1, <1>6 DEF ServerSpanInv, Gin!Server
<1>9. RouteInv'
    BY <1>1, <1>2, <1>6 DEF RouteInv
<1>10. DepthInv'
    BY <1>1, <1>2, <1>3 DEF DepthInv, Level
<1>11. BottomInv' /\ ~finished'
    <2>1. stack' # <<>> => 1 \in 1..Len(stack')
        BY <1>3, <1>4
    <2>2. QED
        BY <1>1, <1>2, <1>3, <2>1 DEF BottomInv
<1>12. OnceInv'
    BY <1>1, <1>2, <1>6 DEF OnceInv, Gin!Server
<1>13. ErrorsReachServerSpan'
    BY <1>11 DEF ErrorsReachServerSpan, Gin!ErrorsReachServerSpan, Gin!EachErrorOnce,
       Gin!NoErrorIsLost, Gin!Unwound
<1>14. QED
    BY <1>7, <1>8, <1>9, <1>10, <1>11, <1>12, <1>13 DEF GinInv

LEMMA HandleContextKeepsGinInv ==
    ASSUME GinInv, NEW r \in Gin!Routes, Gin!HandleContext(r) PROVE GinInv'
<1> DEFINE first == Gin!Call("handle", Gin!None)
           second == Gin!Call("next", Gin!None)
           middle == Append(stack, first)
<1>1. GinTypeOK /\ ServerSpanInv /\ RouteInv /\ DepthInv /\ BottomInv /\ OnceInv
    BY DEF GinInv
<1>2. /\ stack # <<>> /\ stack' = stack \o <<first, second>>
      /\ errors' = <<>> /\ route' = r /\ depth' = 1 /\ rerouted' = TRUE
      /\ Gin!SetRoute(r, FALSE)
      /\ UNCHANGED <<made, ctx, finished>>
    BY DEF Gin!HandleContext, Gin!InHandler, Gin!Deeper
<1>3. /\ spans' \in Seq(Spans) /\ Len(spans') = Len(spans)
      /\ \A s \in 1..Len(spans) : spans'[s].ended = spans[s].ended
      /\ routeSet' \in BOOLEAN
      /\ routeSet' => spans'[ctx].name = r
    BY <1>1, <1>2, SetRouteDoes DEF GinTypeOK
<1>4. /\ first \in Frames /\ first.kind = "handle" /\ first.ctx = ctx
      /\ second \in Frames /\ second.kind = "next" /\ second.ctx = ctx
    BY <1>1 DEF Gin!Call, Gin!None, Frames, GinTypeOK
<1> HIDE DEF first, second
<1>5. /\ middle \in Seq(Frames) /\ Len(stack) \in Nat /\ Len(middle) = Len(stack) + 1
      /\ \A i \in 1..Len(stack) : middle[i] = stack[i]
      /\ middle[Len(stack) + 1] = first /\ middle # <<>> /\ middle[1] = stack[1]
    BY <1>1, <1>2, <1>4, CallBegins, SMTT(30) DEF GinTypeOK
<1>6. stack' = Append(middle, second)
    BY <1>1, <1>2, <1>4 DEF GinTypeOK
<1>7. NextCount(stack) \in Nat /\ NextCount(stack') = NextCount(stack) + 1
    BY <1>1, <1>4, <1>5, <1>6, CallsCounted DEF GinTypeOK
<1> HIDE DEF middle
<1>8. /\ stack' \in Seq(Frames) /\ Len(stack') = Len(stack) + 2
      /\ \A i \in 1..Len(stack) : stack'[i] = stack[i]
      /\ stack'[Len(stack) + 1] = first /\ stack'[Len(stack) + 2] = second
      /\ stack'[1] = stack[1]
    <2>1. /\ stack' \in Seq(Frames) /\ Len(stack') = Len(middle) + 1
          /\ \A i \in 1..Len(middle) : stack'[i] = middle[i]
          /\ stack'[Len(middle) + 1] = second /\ stack'[1] = middle[1]
        BY <1>4, <1>5, <1>6, CallBegins
    <2>2. /\ Len(middle) + 1 = Len(stack) + 2 /\ Len(stack) + 1 \in 1..Len(middle)
          /\ \A i \in 1..Len(stack) : i \in 1..Len(middle)
        BY <1>5
    <2>3. QED
        BY <1>5, <2>1, <2>2
<1>9. GinTypeOK'
    <2>1. \A i \in 1..Len(stack') :
             /\ stack'[i].ctx \in 1..Len(spans')
             /\ stack'[i].kind = "span" => stack'[i].span \in 2..Len(spans')
        <3>1. \A i \in 1..Len(stack') :
                 i \in 1..Len(stack) \/ i = Len(stack) + 1 \/ i = Len(stack) + 2
            BY <1>5, <1>8
        <3>2. QED
            BY <1>1, <1>3, <1>4, <1>8, <3>1 DEF GinTypeOK
    <2>2. QED
        BY <1>1, <1>2, <1>3, <1>8, <2>1, SMTT(30) DEF GinTypeOK
<1>10. ServerSpanInv'
    BY <1>1, <1>3 DEF ServerSpanInv, Gin!Server, GinTypeOK
<1>11. RouteInv'
    BY <1>1, <1>2, <1>3 DEF RouteInv, GinTypeOK
<1>12. DepthInv'
    BY <1>2, <1>7 DEF DepthInv, Level, Gin!NoKey
<1>13. BottomInv' /\ ~finished'
    <2>1. stack' # <<>>
        BY <1>5, <1>8
    <2>2. QED
        BY <1>1, <1>2, <1>8, <2>1 DEF BottomInv
<1>14. OnceInv'
    BY <1>2 DEF OnceInv
<1>15. ErrorsReachServerSpan'
    BY <1>13 DEF ErrorsReachServerSpan, Gin!ErrorsReachServerSpan, Gin!EachErrorOnce,
       Gin!NoErrorIsLost, Gin!Unwound
<1>16. QED
    BY <1>9, <1>10, <1>11, <1>12, <1>13, <1>14, <1>15 DEF GinInv

LEMMA HandleContextReturnsKeepsGinInv == GinInv /\ Gin!HandleContextReturns => GinInv'
<1> SUFFICES ASSUME GinInv, Gin!HandleContextReturns PROVE GinInv'
    OBVIOUS
<1>1. GinTypeOK /\ ServerSpanInv /\ RouteInv /\ DepthInv /\ BottomInv /\ OnceInv
    BY DEF GinInv
<1>2. /\ stack # <<>> /\ stack[Len(stack)].kind = "handle"
      /\ stack' = SubSeq(stack, 1, Len(stack) - 1)
      /\ UNCHANGED <<depth, routeSet, route, errors, made, ctx, spans, finished, rerouted>>
    BY DEF Gin!HandleContextReturns, Gin!Top, Gin!Pop
<1>3. /\ stack' \in Seq(Frames) /\ Len(stack') = Len(stack) - 1
      /\ \A i \in 1..Len(stack') : stack'[i] = stack[i]
      /\ NextCount(stack) = NextCount(stack')
    BY <1>1, <1>2, CallReturns DEF GinTypeOK
<1>4. Len(stack) \in Nat /\ \A i \in 1..Len(stack') : i \in 1..Len(stack)
    BY <1>1, <1>3 DEF GinTypeOK
<1>5. GinTypeOK'
    BY <1>1, <1>2, <1>3, <1>4 DEF GinTypeOK
<1>6. ServerSpanInv' /\ RouteInv' /\ DepthInv' /\ OnceInv'
    BY <1>1, <1>2, <1>3 DEF ServerSpanInv, RouteInv, DepthInv, Level, OnceInv
<1>7. BottomInv' /\ ~finished'
    <2>1. stack' # <<>> => 1 \in 1..Len(stack')
        BY <1>3, <1>4
    <2>2. QED
        BY <1>1, <1>2, <1>3, <2>1 DEF BottomInv
<1>8. ErrorsReachServerSpan'
    BY <1>7 DEF ErrorsReachServerSpan, Gin!ErrorsReachServerSpan, Gin!EachErrorOnce,
       Gin!NoErrorIsLost, Gin!Unwound
<1>9. QED
    BY <1>5, <1>6, <1>7, <1>8 DEF GinInv

LEMMA GinNextInv == GinInv /\ [Gin!Next]_(Gin!vars) => GinInv'
<1> SUFFICES ASSUME GinInv, [Gin!Next]_(Gin!vars) PROVE GinInv'
    OBVIOUS
<1>1. CASE UNCHANGED Gin!vars
    BY <1>1 DEF Gin!vars, GinInv, GinTypeOK, ServerSpanInv, RouteInv, DepthInv, Level,
       BottomInv, OnceInv, ErrorsReachServerSpan, Gin!ErrorsReachServerSpan,
       Gin!EachErrorOnce, Gin!NoErrorIsLost, Gin!Unwound
<1>2. CASE Gin!Next
    BY <1>2, NextKeepsGinInv, NextReturnsKeepsGinInv, AddErrorKeepsGinInv,
       StartSpanKeepsGinInv, EndSpanKeepsGinInv, HandleContextKeepsGinInv,
       HandleContextReturnsKeepsGinInv DEF Gin!Next
<1>3. QED
    BY <1>1, <1>2

LEMMA GinInvariance == InboundSpec => []GinInv /\ [][Gin!Next]_(Gin!vars)
<1>1. InboundInit => GinInv
    BY GinInitInv DEF InboundInit
<1>2. [InboundNext]_<<hooks, vars, serverVars, ginVars>> => [Gin!Next]_(Gin!vars)
    BY DEF InboundNext, Gin!vars, ginVars
<1>3. QED
    BY <1>1, <1>2, GinNextInv, PTL DEF InboundSpec

\* However deep Next nests, the server span has each error once if the request has
\* its context again; and none is lost when HandleContext resets the depth under the
\* calls still running: the deferred function of the gin Next hook.
THEOREM ErrorsAreRecorded == InboundSpec => []ErrorsReachServerSpan
<1>1. GinInv => ErrorsReachServerSpan
    BY DEF GinInv
<1>2. QED
    BY <1>1, GinInvariance, PTL

\* The first call of Next with a recording span puts the route on it, whatever
\* non-recording spans came before: otelcGinRouteSetKey.
THEOREM RouteIsPut == InboundSpec => RouteReachesRecordingSpan
<1> DEFINE reached == Gin!NextIsCalled /\ Gin!IsRecording(ctx) /\ route' # Gin!NoRoute
                        => \E s \in DOMAIN spans' : spans'[s].name = route'
<1>1. GinInv /\ [Gin!Next]_(Gin!vars) => [reached]_(Gin!vars)
    <2> SUFFICES ASSUME GinInv, Gin!Next, Gin!NextIsCalled, Gin!IsRecording(ctx),
                        route' # Gin!NoRoute
                 PROVE  \E s \in DOMAIN spans' : spans'[s].name = route'
        OBVIOUS
    <2>1. GinTypeOK /\ RouteInv /\ GinTypeOK'
        BY GinNextInv DEF GinInv
    <2>2. /\ stack \in Seq(Frames) /\ Len(stack) \in Nat /\ ctx \in 1..Len(spans)
          /\ DOMAIN spans' = 1..Len(spans')
        BY <2>1 DEF GinTypeOK
    <2>3. /\ Len(stack') > Len(stack)
          /\ stack'[Len(stack')].kind = "next"
        BY DEF Gin!NextIsCalled
    <2>4. CASE Gin!Next_
        <3>1. route' = route /\ Gin!SetRoute(route, routeSet)
            BY <2>4 DEF Gin!Next_
        <3>2. /\ Len(spans') = Len(spans)
              /\ routeSet => spans' = spans
              /\ (route # Gin!NoRoute /\ ~routeSet /\ Gin!IsRecording(ctx))
                    => spans'[ctx].name = route
            BY <2>1, <3>1, SetRouteDoes DEF GinTypeOK
        <3>3. CASE routeSet
            BY <2>1, <2>2, <3>1, <3>2, <3>3 DEF RouteInv
        <3>4. CASE ~routeSet
            BY <2>2, <3>1, <3>2, <3>4
        <3>5. QED
            BY <3>3, <3>4
    <2>5. ASSUME NEW r \in Gin!Routes, Gin!HandleContext(r)
          PROVE  \E s \in DOMAIN spans' : spans'[s].name = route'
        <3>1. route' = r /\ Gin!SetRoute(r, FALSE)
            BY <2>5 DEF Gin!HandleContext
        <3>2. Len(spans') = Len(spans) /\ spans'[ctx].name = r
            BY <2>1, <3>1, SetRouteDoes DEF GinTypeOK
        <3>3. QED
            BY <2>2, <3>1, <3>2
    <2>6. CASE Gin!NextReturns \/ (\E restores \in BOOLEAN : Gin!EndSpan(restores))
                \/ Gin!HandleContextReturns
        <3>1. stack # <<>> /\ stack' = SubSeq(stack, 1, Len(stack) - 1)
            BY <2>6 DEF Gin!NextReturns, Gin!EndSpan, Gin!HandleContextReturns, Gin!Pop
        <3>2. Len(stack') = Len(stack) - 1
            BY <2>2, <3>1, CallReturns
        <3>3. QED
            BY <2>2, <2>3, <3>2
    <2>7. CASE Gin!AddError
        BY <2>2, <2>3, <2>7 DEF Gin!AddError
    <2>8. ASSUME NEW sampled \in BOOLEAN, Gin!StartSpan(sampled) PROVE FALSE
        <3> DEFINE call == Gin!Call("span", Len(spans) + 1)
        <3>1. stack' = Append(stack, call)
            BY <2>8 DEF Gin!StartSpan, Gin!Push
        <3>2. call \in Frames /\ call.kind = "span"
            BY <2>1 DEF Gin!Call, Frames, GinTypeOK
        <3> HIDE DEF call
        <3>3. Len(stack') = Len(stack) + 1 /\ stack'[Len(stack) + 1] = call
            BY <2>2, <3>1, <3>2, CallBegins
        <3>4. QED
            BY <2>3, <3>2, <3>3
    <2>9. QED
        BY <2>4, <2>5, <2>6, <2>7, <2>8 DEF Gin!Next
<1>2. InboundSpec => [][reached]_(Gin!vars)
    BY <1>1, GinInvariance, PTL
<1>3. QED
    BY <1>2 DEF RouteReachesRecordingSpan, Gin!RouteReachesRecordingSpan
=============================================================================
