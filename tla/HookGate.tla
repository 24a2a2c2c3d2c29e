------------------------------ MODULE HookGate ------------------------------
(***************************************************************************)
(* hooksupport.Instrumented, which every hook asks on every call whether its *)
(* instrumentation is on (otelc/hooksupport/hooksupport.go).  It reads three *)
(* environment variables one after the other and keeps what it made of them  *)
(* in a cache that all goroutines share without a lock.  The application may *)
(* change the environment at any time.                                      *)
(***************************************************************************)
EXTENDS Naturals, Sequences, FiniteSets

CONSTANTS Goroutines, \* callers of Instrumented
          Name,       \* the instrumentation they ask for
          Other,      \* another one
          MaxChanges  \* bound: environment changes

ASSUME GateAssumption == Name # Other /\ MaxChanges \in Nat

\* Values of the two lists: what is between the commas, in lower case, and
\* whether the variable is empty.  "blank" stands for values such as ", ,".
Lists == {"empty", "blank", "name", "other"}

parseInstrumentationList(list) ==
    IF list = "name" THEN {Name} ELSE IF list = "other" THEN {Other} ELSE {}

Environments == [sdkDisabled : BOOLEAN, enabled : Lists, disabled : Lists]

None == [raw |-> "none"]  \* the nil pointer

VARIABLES env,      \* the process environment
          cache,    \* instConfigCache
          pc,       \* where each goroutine is
          read,     \* the values it has read
          cached,   \* its local pointer
          answer,   \* the last answer it got
          seen,     \* history: the environments during its call
          changes   \* Setenv calls so far

vars == <<env, cache, pc, read, cached, answer, seen, changes>>

Init ==
    /\ env \in Environments
    /\ cache = None
    /\ pc = [g \in Goroutines |-> "idle"]
    /\ read = [g \in Goroutines |-> env]
    /\ cached = [g \in Goroutines |-> None]
    /\ answer = [g \in Goroutines |-> FALSE]
    /\ seen = [g \in Goroutines |-> <<>>]
    /\ changes = 0

buildConfigCache(e) ==
    [raw           |-> e,
     isSdkDisabled |-> e.sdkDisabled,
     hasEnabled    |-> parseInstrumentationList(e.enabled) # {},
     enabledMap    |-> parseInstrumentationList(e.enabled),
     disabledMap   |-> parseInstrumentationList(e.disabled)]

-----------------------------------------------------------------------------
Goto(g, from, to) == pc[g] = from /\ pc' = [pc EXCEPT ![g] = to]

\* The application changes one variable.
Setenv(e) ==
    /\ changes < MaxChanges
    /\ Cardinality({f \in DOMAIN e : e[f] # env[f]}) = 1
    /\ env' = e
    /\ changes' = changes + 1
    /\ seen' = [g \in Goroutines |-> IF pc[g] \in {"idle", "done"} THEN seen[g]
                                     ELSE Append(seen[g], e)]
    /\ UNCHANGED <<cache, pc, read, cached, answer>>

\* os.Getenv for OTEL_SDK_DISABLED, then for each list.
GetSdkDisabled(g) ==
    /\ pc[g] \in {"idle", "done"}
    /\ pc' = [pc EXCEPT ![g] = "enabled"]
    /\ read' = [read EXCEPT ![g].sdkDisabled = env.sdkDisabled]
    /\ seen' = [seen EXCEPT ![g] = <<env>>]
    /\ UNCHANGED <<env, cache, cached, answer, changes>>

GetEnabled(g) ==
    /\ Goto(g, "enabled", "disabled")
    /\ read' = [read EXCEPT ![g].enabled = env.enabled]
    /\ UNCHANGED <<env, cache, cached, answer, seen, changes>>

\* Mutant: the variable is read in the first call only.
GetDisabledOnce(g) ==
    /\ Goto(g, "disabled", "load")
    /\ UNCHANGED <<env, cache, read, cached, answer, seen, changes>>

GetDisabled(g) ==
    /\ Goto(g, "disabled", "load")
    /\ read' = [read EXCEPT ![g].disabled = env.disabled]
    /\ UNCHANGED <<env, cache, cached, answer, seen, changes>>

\* There is no cache, or it was made from other values.
IsStale(c, e) == c = None \/ (c # None /\ c.raw # e)

\* The cache is loaded and, if it is stale, replaced by a new one.
Load(g) ==
    /\ Goto(g, "load", IF IsStale(cache, read[g]) THEN "store" ELSE "decide")
    /\ cached' = [cached EXCEPT ![g] = IF IsStale(cache, read[g])
                                       THEN buildConfigCache(read[g]) ELSE cache]
    /\ UNCHANGED <<env, cache, read, answer, seen, changes>>

Store(g) ==
    /\ Goto(g, "store", "decide")
    /\ cache' = cached[g]
    /\ UNCHANGED <<env, read, cached, answer, seen, changes>>

\* The answer comes from the goroutine's own pointer.
Used(g) == cached[g]

Decide(g) ==
    /\ Goto(g, "decide", "done")
    /\ LET c == Used(g)
       IN  answer' = [answer EXCEPT ![g] = /\ ~c.isSdkDisabled
                                           /\ c.hasEnabled => Name \in c.enabledMap
                                           /\ Name \notin c.disabledMap]
    /\ cached' = [cached EXCEPT ![g] = None]
    /\ UNCHANGED <<env, cache, read, seen, changes>>

Next ==
    \/ \E e \in Environments : Setenv(e)
    \/ \E g \in Goroutines : \/ GetSdkDisabled(g)
                             \/ GetEnabled(g)
                             \/ GetDisabled(g)
                             \/ Load(g)
                             \/ Store(g)
                             \/ Decide(g)

Spec == Init /\ [][Next]_vars

-----------------------------------------------------------------------------
(* Properties.                                                              *)

\* The four rules in the comment of Instrumented.
Documented(e) ==
    /\ ~e.sdkDisabled
    /\ e.enabled \in {"name", "other"} => e.enabled = "name"
    /\ e.disabled # "name"

\* However goroutines replace the shared cache under each other, it never makes an
\* answer wrong or old: if the environment changed at most once during the call, it
\* is what the documented rules say of the environment before or after.
AnswerIsCurrent ==
    \A g \in Goroutines :
        (pc[g] = "done" /\ Len(seen[g]) <= 2) =>
            \E i \in DOMAIN seen[g] : answer[g] <=> Documented(seen[g][i])

=============================================================================
