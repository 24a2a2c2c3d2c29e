--------------------------- MODULE ContentCapture ---------------------------
(***************************************************************************)
(* The bounded capture of completions (otelc/genai/streaming): for each      *)
(* choice of a stream a contentAccumulator to which chunks are appended      *)
(* until the limit is reached.  Content is a sequence of bytes, of which     *)
(* only the kind matters: "a" is a character of one byte, "L" begins a       *)
(* longer character and "C" continues it.                                    *)
(***************************************************************************)
EXTENDS Integers, Sequences, FiniteSets

CONSTANTS ContentCaptureLimit, \* bytes of a captured content, at most
          SuffixLen,           \* length of truncatedContentSuffix
          MaxStreams,          \* choices that are captured, at most
          Indexes,             \* choice indexes the server uses
          MaxFed               \* bound: bytes the server sends for a choice

ASSUME CaptureAssumption ==
    /\ SuffixLen \in Nat
    /\ ContentCaptureLimit \in Nat
    /\ SuffixLen <= ContentCaptureLimit
    /\ MaxStreams \in Nat
    /\ MaxFed \in Nat
    /\ IsFiniteSet(Indexes)

Characters == {<<"a">>, <<"L", "C">>, <<"L", "C", "C">>}

\* A chunk is a JSON string: whole characters, or nothing.
Chunks == {<<>>} \cup Characters \cup {c \o d : c, d \in Characters}

Suffix == [i \in 1..SuffixLen |-> "."]

VARIABLES limit,           \* contentLimit of the reader
          capturedStreams, \* accumulators of the choices captured so far
          fed              \* history: everything sent for each choice

vars == <<limit, capturedStreams, fed>>

clampContentLimit(raw) ==
    IF raw <= 0 \/ raw > ContentCaptureLimit THEN ContentCaptureLimit
    ELSE IF raw < SuffixLen THEN SuffixLen
    ELSE raw

Init ==
    /\ limit \in {clampContentLimit(raw) : raw \in -1..(ContentCaptureLimit + 1)}
    /\ capturedStreams = [i \in {} |-> <<>>]
    /\ fed = [i \in Indexes |-> <<>>]

-----------------------------------------------------------------------------
\* Mutant: the boundary is moved on the last byte kept instead of the first one
\* cut off.
truncateToUTF8BoundaryLate(content, n) ==
    LET boundaries == {k \in 0..n : k = 0 \/ content[k] # "C"}
    IN  SubSeq(content, 1, CHOOSE k \in boundaries : \A j \in boundaries : j <= k)

\* The loop moves n back while the byte after it continues a character.
truncateToUTF8Boundary(content, n) ==
    IF Len(content) <= n THEN content
    ELSE LET boundaries == {k \in 0..n : k = 0 \/ content[k + 1] # "C"}
         IN  SubSeq(content, 1, CHOOSE k \in boundaries : \A j \in boundaries : j <= k)

\* contentAccumulator.Append
AppendContent(acc, content) ==
    LET remaining == limit - SuffixLen - Len(acc.content)
    IN  IF content = <<>> \/ acc.truncated THEN acc
        ELSE IF remaining >= Len(content)
        THEN [acc EXCEPT !.content = @ \o content]
        ELSE [content |-> acc.content
                          \o (IF remaining > 0 THEN truncateToUTF8Boundary(content, remaining)
                                               ELSE <<>>)
                          \o Suffix,
              truncated |-> TRUE]

Captured == DOMAIN capturedStreams

\* A new index gets an accumulator while there are fewer than MaxStreams.
WithStream(index) ==
    IF index \in Captured \/ Cardinality(Captured) >= MaxStreams THEN capturedStreams
    ELSE [i \in Captured \cup {index} |->
             IF i \in Captured THEN capturedStreams[i]
             ELSE [content |-> <<>>, truncated |-> FALSE]]

\* captureChunkContent, which is only called for content that is not empty.
captureChunkContent(index, content) ==
    /\ Len(fed[index]) + Len(content) <= MaxFed
    /\ content # <<>>
    /\ fed' = [fed EXCEPT ![index] = @ \o content]
    /\ LET streams == WithStream(index)
       IN  capturedStreams' =
              IF index \in DOMAIN streams
              THEN [streams EXCEPT ![index] = AppendContent(@, content)]
              ELSE streams
    /\ UNCHANGED limit

Next == \E index \in Indexes, content \in Chunks : captureChunkContent(index, content)

Spec == Init /\ [][Next]_vars

-----------------------------------------------------------------------------
(* Properties.                                                              *)

\* Reference: content as a whole, cut after the last whole character that fits.
OneShot(content) ==
    LET room == limit - SuffixLen
        whole == {k \in 0..room : k = 0 \/ (k < Len(content) /\ content[k + 1] # "C")}
    IN  IF Len(content) <= room THEN content
        ELSE SubSeq(content, 1, CHOOSE k \in whole : \A j \in whole : j <= k) \o Suffix

\* What is recorded of a choice does not depend on how the server split it into
\* chunks: it is what TruncateContent makes of the whole.  In particular it is
\* whole characters and never longer than the limit.
CaptureIsOneShot ==
    \A i \in Captured : capturedStreams[i].content = OneShot(fed[i])

\* "Cap the map so that a stream with many distinct indexes cannot grow memory
\* without bound": what is kept is bounded independently of what is sent.
MemoryIsBounded ==
    /\ Cardinality(Captured) <= MaxStreams
    /\ \A i \in Captured : Len(capturedStreams[i].content) <= limit

\* Both: what is kept of a stream's text is bounded whatever the server sends, and
\* is what cutting off the whole text would leave (contentAccumulator.Append).
CaptureIsBoundedAndExact == MemoryIsBounded /\ CaptureIsOneShot

=============================================================================
