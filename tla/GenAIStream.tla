----------------------------- MODULE GenAIStream -----------------------------
(***************************************************************************)
(* One API call through the GenAI middlewares (otelc/genai) and, for a        *)
(* streaming response, the StreamingReader (otelc/genai/streaming) that the  *)
(* caller reads and closes afterwards, perhaps from two goroutines.          *)
(*                                                                         *)
(* A stream is a sequence of lines.  Each arrives in three units: a part of  *)
(* the text, the rest of it, the newline; the last line may lack its         *)
(* newline.  A Read gets any number of units, so that lines are split        *)
(* anywhere.  Times are left out.                                            *)
(***************************************************************************)
EXTENDS Integers, Sequences, FiniteSets

CONSTANT MaxLines  \* bound: lines of a stream

\* A content chunk, one with a finish reason, one with token usage, [DONE].
LineKinds == {"chunk", "finish", "usage", "done"}
Bodies == UNION {[1..n -> LineKinds] : n \in 0..MaxLines}

\* What the middleware finds in the request: a model; no body; another
\* operation; no model that it can read; more than maxRequestBodySize bytes;
\* "stream": true.
Requests == {"plain", "noBody", "unknown", "noModel", "tooLarge", "streaming"}

VARIABLES
    sdk,       \* "openai" or "anthropic"
    call,      \* "none", "running", "response", "stream", "ended"
    span,      \* the GenAI span
    durations, \* duration metric records
    body, newlineAtEnd, \* the stream
    pos,       \* units the caller has been given
    fed,       \* units processSSELines has seen
    parser,    \* completed, reasons and usage
    rd,        \* the Read under way: "idle", "got", "parsed", "won", with its error
    cl,        \* the Close under way: "none", "won", "closed"
    done,      \* the flag of the StreamingReader
    raced,     \* history: Close ran while a Read was under way
    why        \* history: what ended the stream: "EOF", "hard", "close"

streamVars == <<body, newlineAtEnd, pos, fed, parser, rd, cl, done, raced, why>>
vars == <<sdk, call, span, durations, streamVars>>

NoSpan == [started |-> FALSE, ends |-> 0, error |-> FALSE, reasons |-> 0, usage |-> 0]

Units == 3 * Len(body) - (IF newlineAtEnd \/ body = <<>> THEN 0 ELSE 1)

Init ==
    /\ sdk \in {"openai", "anthropic"}
    /\ call = "none"
    /\ span = NoSpan
    /\ durations = 0
    /\ body = <<>>
    /\ newlineAtEnd = TRUE
    /\ pos = 0
    /\ fed = 0
    /\ parser = [completed |-> FALSE, reasons |-> 0, usage |-> 0]
    /\ rd = [at |-> "idle", err |-> "nil"]
    /\ cl = "none"
    /\ done = FALSE
    /\ raced = FALSE
    /\ why = "none"

-----------------------------------------------------------------------------
(* OpenAIMiddleware and AnthropicMiddleware                                 *)

\* The body of a large request is cut off, so that it does not parse.
Instrumented(q) == q = "plain" \/ (q = "streaming" /\ sdk = "openai")

Request(q) ==
    /\ call = "none"
    /\ span' = IF Instrumented(q) THEN [NoSpan EXCEPT !.started = TRUE] ELSE span
    /\ call' = IF Instrumented(q) THEN "running" ELSE "ended"
    /\ UNCHANGED <<sdk, durations, streamVars>>

\* The span ends and the deferred function records the duration.
EndCall(failed, reasons, usage) ==
    /\ span' = [span EXCEPT !.ends = @ + 1, !.error = failed,
                            !.reasons = reasons, !.usage = usage]
    /\ durations' = durations + 1
    /\ call' = "ended"

\* An error, or a status of 400 and more.
ErrorResponse ==
    /\ call = "running"
    /\ EndCall(TRUE, 0, 0)
    /\ UNCHANGED <<sdk, streamVars>>

\* A response with a JSON body, parsed before it is handed to the caller; what
\* the parsers find in it goes on the span, nothing if it is no JSON.
PlainResponse(reasons, usage) ==
    /\ sdk = "openai"
    /\ call = "running"
    /\ EndCall(FALSE, reasons, usage)
    /\ UNCHANGED <<sdk, streamVars>>

\* The same, with at most one stop reason; or an event stream nobody asked for,
\* of which nothing is parsed.
AnthropicResponse(reasons, usage) ==
    /\ sdk = "anthropic"
    /\ call = "running"
    /\ EndCall(FALSE, reasons, usage)
    /\ UNCHANGED <<sdk, streamVars>>

\* NewStreamingReader
StreamResponse(b, nl) ==
    /\ call = "running"
    /\ sdk = "openai"
    /\ body' = b
    /\ newlineAtEnd' = nl
    /\ call' = "stream"
    /\ UNCHANGED <<sdk, span, durations, pos, fed, parser, rd, cl, done, raced, why>>

-----------------------------------------------------------------------------
(* StreamingReader                                                          *)

\* processChunk, or the [DONE] marker.
ParseLine(p, i) ==
    IF body[i] = "done" THEN [p EXCEPT !.completed = TRUE]
    ELSE IF body[i] = "finish" THEN [p EXCEPT !.reasons = @ + 1]
    ELSE IF body[i] = "usage" THEN [p EXCEPT !.usage = i]
    ELSE p

\* Lines a..b, in order.
ParseLines(p, a, b) ==
    LET upTo[i \in (a - 1)..b] == IF i < a THEN p ELSE ParseLine(upTo[i - 1], i)
    IN  upTo[b]

\* flushRemaining: a whole line is parsed, a part of one is no JSON.
FlushRemaining(p) == IF fed % 3 = 2 THEN ParseLine(p, fed \div 3 + 1) ELSE p

\* Not complete, or complete but ended by a transport error.
Aborted(p, err) == ~(p.completed \/ p.reasons > 0) \/ err \in {"hard", "aborted"}

\* finalize, with the parser's results p; onDone records the duration.
Finalize(p, err) ==
    /\ span' = [span EXCEPT !.ends = @ + 1, !.error = Aborted(p, err),
                            !.reasons = p.reasons, !.usage = p.usage]
    /\ durations' = durations + 1

\* Read gets k more units and perhaps the end of the stream or an error.
Read(k, err) ==
    /\ call = "stream"
    /\ rd.at = "idle"
    /\ why \notin {"EOF", "hard"}
    /\ cl # "closed"
    /\ pos + k <= Units
    /\ k > 0 \/ err # "nil"
    /\ err = "EOF" => pos + k = Units
    /\ pos' = pos + k
    /\ rd' = [at |-> "got", err |-> err]
    /\ raced' = (raced \/ cl # "none")
    /\ UNCHANGED <<sdk, call, span, durations, body, newlineAtEnd, fed, parser,
                   cl, done, why>>

\* Mutant: the unfinished line is dropped instead of kept for the next Read.
ProcessSSELinesDrops ==
    /\ rd.at = "got"
    /\ parser' = LET from == (fed + 2) \div 3 + 1
                     to == pos \div 3
                 IN  IF from > to THEN parser ELSE ParseLines(parser, from, to)
    /\ fed' = pos
    /\ rd' = [rd EXCEPT !.at = "parsed"]
    /\ UNCHANGED <<sdk, call, span, durations, body, newlineAtEnd, pos, cl, done,
                   raced, why>>

\* The lines whose newline has come are parsed, the rest is kept.
ProcessSSELines ==
    /\ rd.at = "got"
    /\ parser' = ParseLines(parser, fed \div 3 + 1, pos \div 3)
    /\ fed' = pos
    /\ rd' = [rd EXCEPT !.at = "parsed"]
    /\ UNCHANGED <<sdk, call, span, durations, body, newlineAtEnd, pos, cl, done,
                   raced, why>>

\* Mutant: Read does not look at the flag.
ReadReturnAlways ==
    /\ rd.at = "parsed"
    /\ rd' = IF rd.err # "nil" THEN [rd EXCEPT !.at = "won"] ELSE [at |-> "idle", err |-> "nil"]
    /\ done' = (done \/ rd.err # "nil")
    /\ UNCHANGED <<sdk, call, span, durations, body, newlineAtEnd, pos, fed, parser, cl,
                   raced, why>>

\* Read meets the end or an error and wins the compare-and-swap, or returns.
ReadReturn ==
    /\ rd.at = "parsed"
    /\ LET wins == rd.err # "nil" /\ ~done
       IN  /\ rd' = IF wins THEN [rd EXCEPT !.at = "won"] ELSE [at |-> "idle", err |-> "nil"]
           /\ done' = (done \/ wins)
    /\ UNCHANGED <<sdk, call, span, durations, body, newlineAtEnd, pos, fed, parser, cl,
                   raced, why>>

\* The winner finalizes; only a clean EOF flushes the last line.
ReadFinalize ==
    /\ rd.at = "won"
    /\ rd' = [at |-> "idle", err |-> "nil"]
    /\ why' = rd.err
    /\ LET p == IF rd.err = "EOF" THEN FlushRemaining(parser) ELSE parser
       IN  /\ parser' = p
           /\ Finalize(p, rd.err)
    /\ UNCHANGED <<sdk, call, body, newlineAtEnd, pos, fed, cl, done, raced>>

\* Close wins the compare-and-swap, or only closes the body.
Close ==
    /\ call = "stream"
    /\ cl # "won"
    /\ cl' = IF done THEN "closed" ELSE "won"
    /\ done' = TRUE
    /\ raced' = (raced \/ (~done /\ rd.at # "idle"))
    /\ UNCHANGED <<sdk, call, span, durations, body, newlineAtEnd, pos, fed,
                   parser, rd, why>>

\* Flush, decide, finalize and close the body.  What a Close that races with a
\* Read makes of the parser's unsynchronised state is anybody's guess.
CloseFinalize ==
    /\ cl = "won"
    /\ cl' = "closed"
    /\ why' = "close"
    /\ LET flushed == FlushRemaining(parser)
       IN  \E p \in IF raced THEN {parser, flushed, ParseLines(parser, fed \div 3 + 1, pos \div 3)}
                             ELSE {flushed} :
               /\ parser' = p
               /\ Finalize(p, IF p.completed \/ p.reasons > 0 THEN "nil" ELSE "aborted")
    /\ UNCHANGED <<sdk, call, body, newlineAtEnd, pos, fed, rd, done, raced>>

-----------------------------------------------------------------------------
Next ==
    \/ \E q \in Requests : Request(q)
    \/ ErrorResponse
    \/ \E reasons \in 0..2, usage \in 0..1 : PlainResponse(reasons, usage)
    \/ \E reasons, usage \in 0..1 : AnthropicResponse(reasons, usage)
    \/ \E b \in Bodies, nl \in BOOLEAN : StreamResponse(b, nl)
    \/ \E k \in 0..(3 * MaxLines), err \in {"nil", "EOF", "hard"} : Read(k, err)
    \/ ProcessSSELines
    \/ ReadReturn
    \/ ReadFinalize
    \/ Close
    \/ CloseFinalize

Spec == Init /\ [][Next]_vars

-----------------------------------------------------------------------------
(* Properties.                                                              *)

\* "the duration metric is recorded when the stream finishes (mirroring the
\* span lifetime)": the span ends at most once, however Read and Close race, and
\* the duration is recorded exactly when it does; and it has ended once the
\* stream was closed or read to its end, unless the call that won the
\* compare-and-swap has yet to finalize: a Close that lost it to a Read may
\* return before.
DurationMirrorsSpan ==
    /\ durations = span.ends
    /\ span.ends <= 1
    /\ (call = "stream" /\ (cl = "closed" \/ done) /\ rd.at # "won" /\ cl # "won")
        => span.ends = 1

\* Lines whose text the caller has been given in full; of a stream that broke,
\* those whose newline has come too.
Delivered ==
    {i \in DOMAIN body : IF why = "hard" THEN pos >= 3 * i ELSE pos >= 3 * i - 1}

\* Unless Close raced with a Read, the span of a finished stream says what the
\* caller was given: failed exactly if the stream broke or neither a finish
\* reason nor [DONE] came, with every finish reason and the last usage, however
\* the lines were split over the Reads.
StreamSpanIsTrue ==
    (why # "none" /\ ~raced) =>
        LET finishes == {i \in Delivered : body[i] = "finish"}
            usages == {i \in Delivered : body[i] = "usage"}
        IN  /\ span.error <=> \/ why = "hard"
                              \/ {i \in Delivered : body[i] \in {"finish", "done"}} = {}
            /\ span.reasons = Cardinality(finishes)
            /\ span.usage = IF usages = {} THEN 0
                            ELSE CHOOSE i \in usages : \A j \in usages : j <= i

=============================================================================
