------------------------------ MODULE SWMetrics ------------------------------
(***************************************************************************)
(* SkyWalking's start and its meters: Init of skywalking/boot, the meters of *)
(* the Go runtime (skywalking/plugins/runtimemetrics) and those of the       *)
(* application (toolkit-activation/metric.go).  New meters and hooks wait in *)
(* two slices without a lock, from which the collector of the tracer, a      *)
(* goroutine of its own, takes them before it collects.                      *)
(***************************************************************************)
EXTENDS SequencesExt, FiniteSetsExt

CONSTANTS Makers,     \* goroutines of the application; each makes one counter
          NBuckets,   \* buckets of the runtime's histogram
          MaxCount    \* bound: observations in a bucket

ASSUME MetricsAssumption == NBuckets \in Nat \ {0} /\ MaxCount \in Nat

\* The two runtime gauges that the combined one adds up, their sum, the histogram.
Parts == {"free", "objects"}
Runtime == Parts \cup {"total", "histogram"}
Main == "main"

VARIABLES boot,      \* how far Init is
          pending,   \* metricsPending
          hooked,    \* metricsHooks: absent, waiting, or taken by the collector
          append,    \* the appends under way: goroutine -> meter and slice read
          made,      \* meters made; a counter made before Init never works
          collector, \* the collector: what it does next, and the slice it read
          collected, \* meters the tracer knows
          layout,    \* whether the boundaries of the histogram begin with -Inf
          meter,     \* the histogram's meterInfo, the gauges, the last read
          raced      \* history: meters whose append overlapped another access

vars == <<boot, pending, hooked, append, made, collector, collected, layout, meter, raced>>

Buckets == 1..NBuckets
NoMeter == [latest |-> <<>>, reported |-> [b \in Buckets |-> 0], shown |-> [b \in Buckets |-> 0],
            gauge |-> [p \in Parts |-> 0], combined |-> 0]

Init ==
    /\ boot = "packages"
    /\ pending = <<>> /\ hooked = "absent"
    /\ append = <<>>
    /\ made = {}
    /\ collector = [pc |-> "off", read |-> <<>>]
    /\ collected = {}
    /\ layout \in {"fromMinusInf", "fromZero"}
    /\ meter = NoMeter
    /\ raced = {}

-----------------------------------------------------------------------------
(* The slice of pending meters.                                             *)

\* An append reads the slice and writes the longer one.
Appending == {append[i].meter : i \in DOMAIN append}

AppendRead(g, m) ==
    /\ append' = Append(append, [by |-> g, meter |-> m, read |-> pending])
    /\ made' = made \cup {m}
    /\ raced' = raced \cup
                (IF append = <<>> /\ collector.pc # "reset" THEN {} ELSE Appending \cup {m})

AppendWrite ==
    \E i \in DOMAIN append :
        /\ pending' = Append(append[i].read, append[i].meter)
        /\ append' = RemoveAt(append, i)
        /\ UNCHANGED <<boot, hooked, made, collector, collected, layout, meter, raced>>

Busy(g) == \E i \in DOMAIN append : append[i].by = g

-----------------------------------------------------------------------------
(* Init.                                                                    *)

\* Init up to the tracer: it may fail, and the collector is started by tracer.Init.
InitTracer(failed) ==
    /\ boot = "packages"
    /\ boot' = IF failed THEN "failed" ELSE "ready"
    /\ collector' = IF failed THEN collector ELSE [collector EXCEPT !.pc = "idle"]
    /\ UNCHANGED <<pending, hooked, append, made, collected, layout, meter, raced>>

\* registerMetrics, called by Init when the tracer is up: the gauges one by one (the
\* histogram cannot be read yet), then the combined one, then the hook.
RegisterGauge(m) ==
    /\ boot = "ready" /\ ~Busy(Main)
    /\ m \in (Parts \cup {"total"}) \ made
    /\ m = "total" => Parts \subseteq made
    /\ AppendRead(Main, m)
    /\ UNCHANGED <<boot, pending, hooked, collector, collected, layout, meter>>

RegisterHook ==
    /\ boot = "ready" /\ ~Busy(Main)
    /\ "total" \in made
    /\ boot' = "done"
    /\ hooked' = "waiting"
    /\ UNCHANGED <<pending, append, made, collector, collected, layout, meter, raced>>

\* NewCounter of the toolkit.  Before Init there is no tracer to make one.
NewCounter(g) ==
    /\ g \notin made /\ ~Busy(g)
    /\ boot # "packages"
    /\ AppendRead(g, g)
    /\ UNCHANGED <<boot, pending, hooked, collector, collected, layout, meter>>

-----------------------------------------------------------------------------
(* A collection.                                                            *)

\* MetricsObtain: the slices are read, then set to nil.
ObtainRead ==
    /\ collector.pc = "idle"
    /\ collector' = [pc |-> "reset", read |-> pending]
    /\ raced' = raced \cup Appending
    /\ UNCHANGED <<boot, pending, hooked, append, made, collected, layout, meter>>

ObtainReset ==
    /\ collector.pc = "reset"
    /\ collected' = collected \cup ToSet(collector.read)
    /\ collector' = [pc |-> "hooks", read |-> <<>>]
    /\ pending' = <<>>
    /\ hooked' = IF hooked = "waiting" THEN "taken" ELSE hooked
    /\ UNCHANGED <<boot, append, made, layout, meter, raced>>

\* initHistogramIfNeeds: the boundaries below zero at the start are not the meter's,
\* and neither is the last, +Inf.
StartInx == IF layout = "fromMinusInf" THEN 1 ELSE 0
InitialLatest == [b \in 1..(NBuckets - StartInx) |-> 0]

\* Mutant: what was reported is not remembered.
UpdatedForgetful(m, counts) ==
    LET latest == IF m.latest = <<>> THEN InitialLatest ELSE m.latest
        adds == [b \in Buckets |-> IF b <= StartInx \/ b > Len(latest) THEN 0
                                   ELSE counts[b] - latest[b]]
    IN  [m EXCEPT !.latest = latest,
                  !.reported = [b \in Buckets |-> @[b] + adds[b]]]

\* updateMetricValue of the histogram.  The index of a count is used for latest as
\* it is, although latest has no entry for the boundaries left out at the start.
Updated(m, counts) ==
    LET latest == IF m.latest = <<>> THEN InitialLatest ELSE m.latest
        adds == [b \in Buckets |-> IF b <= StartInx \/ b > Len(latest) THEN 0
                                   ELSE counts[b] - latest[b]]
    IN  [m EXCEPT !.latest = [b \in DOMAIN latest |-> latest[b] + adds[b]],
                  !.reported = [b \in Buckets |-> @[b] + adds[b]]]

\* updateCombinedMetricValue
Combined(m, parts) == [m EXCEPT !.gauge = parts, !.combined = MapThenSumSet(LAMBDA p : parts[p], Parts)]

\* Mutant: the pending meters are cleared once the hooks have run.
RunHooksThenClear ==
    /\ collector.pc = "hooks"
    /\ collector' = [collector EXCEPT !.pc = "idle"]
    /\ pending' = <<>>
    /\ UNCHANGED <<boot, hooked, append, made, collected, layout, meter, raced>>

\* The hook runs, if the tracer has it: one read of all samples, in which counts only
\* grow.  The first time it makes the histogram, and appends it on the collector's
\* goroutine.
RunHooks ==
    /\ collector.pc = "hooks"
    /\ collector' = [collector EXCEPT !.pc = "idle"]
    /\ IF hooked # "taken" THEN UNCHANGED <<append, made, meter, raced>>
       ELSE /\ \E counts \in [Buckets -> 0..MaxCount], parts \in [Parts -> 0..1] :
                  /\ \A b \in Buckets : counts[b] >= meter.shown[b]
                  /\ meter' = [Combined(Updated(meter, counts), parts) EXCEPT !.shown = counts]
            /\ IF "histogram" \in made THEN UNCHANGED <<append, made, raced>>
               ELSE AppendRead("collector", "histogram")
    /\ UNCHANGED <<boot, pending, hooked, collected, layout>>

Next ==
    \/ AppendWrite
    \/ \E failed \in BOOLEAN : InitTracer(failed)
    \/ \E m \in Parts \cup {"total"} : RegisterGauge(m)
    \/ RegisterHook
    \/ \E g \in Makers : NewCounter(g)
    \/ ~Busy("collector") /\ (ObtainRead \/ ObtainReset \/ RunHooks)

Spec == Init /\ [][Next]_vars

-----------------------------------------------------------------------------
(* Properties.                                                              *)

\* No meter is lost between its constructor and the tracer, whichever goroutine
\* makes it and whenever the collector runs.  Not so if its append overlaps
\* another or MetricsObtain: the slices have no lock.
RegisteredIsCollected ==
    \A m \in made \ (raced \cup Appending) :
        m \in collected \cup ToSet(pending) \cup ToSet(collector.read)

\* Over any number of collections the histogram has got every observation the
\* runtime counted once, in its bucket, and the total gauge is the sum of the
\* gauges of the same read.  Not so for the last bucket if the boundaries begin
\* with -Inf: what falls there is never reported.
MetersShowTheRuntime ==
    /\ \A b \in Buckets :
         meter.reported[b] = IF b <= StartInx \/ (StartInx = 1 /\ b = NBuckets) THEN 0
                             ELSE meter.shown[b]
    /\ meter.combined = MapThenSumSet(LAMBDA p : meter.gauge[p], Parts)

=============================================================================
