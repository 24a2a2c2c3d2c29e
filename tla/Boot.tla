-------------------------------- MODULE Boot --------------------------------
(***************************************************************************)
(* The life of the SDK in an instrumented process: boot and bootinit set it  *)
(* up before main, otelroot guards otel.SetTracerProvider, and a signal      *)
(* handler shuts the providers down.  The application's package initialisers *)
(* run before main's; they and main may set a tracer provider themselves,    *)
(* listen to signals, and exit at any time.                                  *)
(***************************************************************************)
EXTENDS Integers, Sequences

CONSTANTS MaxSignals  \* bound: SIGINT and SIGTERM sent to the process

ASSUME BootAssumption == MaxSignals \in Nat

\* The order of setupOpenTelemetry and of Shutdown.
Providers == <<"traces", "metrics", "logs">>
Kinds == {Providers[i] : i \in DOMAIN Providers}

\* What setting up a provider can come to: installed; its exporter cannot be
\* created; its exporter is "none"; a panic.
Outcomes == {"ok", "error", "none", "panic"}

VARIABLES
    phase,      \* "userInit", "setup", "signals", "metrics", "main", "exited"
    step,       \* next of Providers in setupOpenTelemetry
    disabled,   \* OTEL_SDK_DISABLED
    gate,       \* Instrumented("runtimemetrics")
    provider,   \* tracerProvider, meterProvider, loggerProvider: "nil", "up", "down"
    global,     \* whose tracer provider is the global one
    providerSet,    \* otelcTracerProviderSet
    propagator,     \* the global propagator has been set
    runtimeMetrics, \* runtime metrics have been started
    listening,  \* sigCh is registered for signals
    sigCh,      \* signals in sigCh, of capacity 1
    handler,    \* handleShutdownSignal: "none", "waiting", "received", "shutdown", "done"
    closing,    \* next of Providers in Shutdown
    appListens, \* the application has a signal handler of its own
    signals     \* signals sent so far

bootVars == <<phase, step, disabled, gate, provider, propagator, runtimeMetrics>>
globalVars == <<global, providerSet>>
signalVars == <<listening, sigCh, handler, closing, appListens, signals>>
vars == <<bootVars, globalVars, signalVars>>

Init ==
    /\ phase = "userInit"
    /\ step = 1
    /\ disabled \in BOOLEAN
    /\ gate \in BOOLEAN
    /\ provider = [k \in Kinds |-> "nil"]
    /\ global = "default"
    /\ providerSet = FALSE
    /\ propagator = FALSE
    /\ runtimeMetrics = FALSE
    /\ listening = FALSE
    /\ sigCh = 0
    /\ handler = "none"
    /\ closing = 1
    /\ appListens = FALSE
    /\ signals = 0

Running == phase # "exited"

-----------------------------------------------------------------------------
(* otel.SetTracerProvider with the injected guard.                          *)

\* Only the first call has an effect.
SetTracerProvider(who) ==
    /\ providerSet' = TRUE
    /\ global' = IF providerSet THEN global ELSE who

UserSetsProvider ==
    /\ Running
    /\ SetTracerProvider("user")
    /\ UNCHANGED <<bootVars, signalVars>>

-----------------------------------------------------------------------------
(* main's injected init.                                                    *)

\* SetupOTelSDK
SetupOTelSDK ==
    /\ phase = "userInit"
    /\ phase' = IF disabled THEN "metrics" ELSE "setup"
    /\ UNCHANGED <<step, disabled, gate, provider, propagator, runtimeMetrics,
                   globalVars, signalVars>>

\* An error is logged; a panic leaves setupOpenTelemetry, which recovers.
AfterProvider(o) ==
    IF o = "panic" THEN phase' = "signals" /\ UNCHANGED step
    ELSE UNCHANGED phase /\ step' = step + 1

\* setupTraceProvider, setupMeterProvider, setupLoggerProvider
SetupProvider(o) ==
    /\ phase = "setup"
    /\ step <= Len(Providers)
    /\ LET k == Providers[step]
       IN  /\ provider' = IF o = "ok" THEN [provider EXCEPT ![k] = "up"] ELSE provider
           /\ IF o = "ok" /\ k = "traces" THEN SetTracerProvider("boot")
              ELSE UNCHANGED globalVars
    /\ AfterProvider(o)
    /\ UNCHANGED <<disabled, gate, propagator, runtimeMetrics, signalVars>>

SetPropagator ==
    /\ phase = "setup"
    /\ step > Len(Providers)
    /\ propagator' = TRUE
    /\ phase' = "signals"
    /\ UNCHANGED <<step, disabled, gate, provider, runtimeMetrics, globalVars,
                   signalVars>>

\* Notify, and the goroutine of handleShutdownSignal.
SetupSignalHandler ==
    /\ phase = "signals"
    /\ listening' = TRUE
    /\ handler' = "waiting"
    /\ phase' = "metrics"
    /\ UNCHANGED <<step, disabled, gate, provider, propagator, runtimeMetrics, globalVars,
                   sigCh, closing, appListens, signals>>

\* Instrumented is false of everything if the SDK is disabled.
StartRuntimeMetrics ==
    /\ phase = "metrics"
    /\ runtimeMetrics' = (gate /\ ~disabled)
    /\ phase' = "main"
    /\ UNCHANGED <<step, disabled, gate, provider, propagator, globalVars, signalVars>>

-----------------------------------------------------------------------------
(* Signals.                                                                 *)

AppNotify ==
    /\ Running
    /\ ~appListens
    /\ appListens' = TRUE
    /\ UNCHANGED <<bootVars, globalVars, listening, sigCh, handler, closing, signals>>

\* The runtime offers the signal to every registered channel and drops it where
\* the channel is full; with none registered it terminates the process.
OSSignal ==
    /\ Running
    /\ signals < MaxSignals
    /\ signals' = signals + 1
    /\ sigCh' = IF listening THEN 1 ELSE sigCh
    /\ phase' = IF listening \/ appListens THEN phase ELSE "exited"
    /\ UNCHANGED <<step, disabled, gate, provider, propagator, runtimeMetrics, globalVars,
                   listening, handler, closing, appListens>>

HandlerReceive ==
    /\ Running
    /\ handler = "waiting"
    /\ sigCh = 1
    /\ sigCh' = 0
    /\ handler' = "received"
    /\ UNCHANGED <<bootVars, globalVars, listening, closing, appListens, signals>>

\* Mutant: signal.Stop is left to the end of the handler.
HandlerStopLate ==
    /\ Running
    /\ handler = "received"
    /\ handler' = "shutdown"
    /\ UNCHANGED <<bootVars, globalVars, listening, sigCh, closing, appListens, signals>>

\* signal.Stop
HandlerStop ==
    /\ Running
    /\ handler = "received"
    /\ listening' = FALSE
    /\ handler' = "shutdown"
    /\ UNCHANGED <<bootVars, globalVars, sigCh, closing, appListens, signals>>

\* Mutant: Shutdown returns at the first error.
AfterShutdownGivesUp(failed) == closing' = IF failed THEN Len(Providers) + 1 ELSE closing + 1

\* Shutdown remembers the error and goes on.
AfterShutdown(failed) == closing' = closing + 1

\* Shutdown of the next provider; it fails at the latest when the context's
\* five seconds are over.
ShutdownProvider(failed) ==
    /\ Running
    /\ handler = "shutdown"
    /\ closing <= Len(Providers)
    /\ LET k == Providers[closing]
       IN  /\ failed => provider[k] = "up"
           /\ provider' = IF provider[k] = "up" THEN [provider EXCEPT ![k] = "down"]
                          ELSE provider
    /\ AfterShutdown(failed)
    /\ UNCHANGED <<phase, step, disabled, gate, propagator, runtimeMetrics, globalVars,
                   listening, sigCh, handler, appListens, signals>>

\* Mutant: the goroutine goes back to its channel, which nobody writes to.
HandlerDoneLoops ==
    /\ Running
    /\ handler = "shutdown"
    /\ closing > Len(Providers)
    /\ handler' = "waiting"
    /\ UNCHANGED <<bootVars, globalVars, listening, sigCh, closing, appListens, signals>>

HandlerDone ==
    /\ Running
    /\ handler = "shutdown"
    /\ closing > Len(Providers)
    /\ handler' = "done"
    /\ UNCHANGED <<bootVars, globalVars, listening, sigCh, closing, appListens, signals>>

\* main returns, or some goroutine calls os.Exit.
AppExit ==
    /\ phase = "main"
    /\ phase' = "exited"
    /\ UNCHANGED <<step, disabled, gate, provider, propagator, runtimeMetrics, globalVars,
                   signalVars>>

-----------------------------------------------------------------------------
BootStep ==
    \/ SetupOTelSDK
    \/ \E o \in Outcomes : SetupProvider(o)
    \/ SetPropagator
    \/ SetupSignalHandler
    \/ StartRuntimeMetrics

HandlerStep ==
    \/ HandlerReceive
    \/ HandlerStop
    \/ \E failed \in BOOLEAN : ShutdownProvider(failed)
    \/ HandlerDone

Next == UserSetsProvider \/ BootStep \/ AppNotify \/ OSSignal \/ HandlerStep \/ AppExit

Spec == Init /\ [][Next]_vars

\* The Go scheduler runs main's initialiser and the handler's goroutine.
FairSpec == Spec /\ WF_vars(BootStep) /\ WF_vars(HandlerStep)

-----------------------------------------------------------------------------
(* Properties.                                                              *)

\* When the signal handler is through, every provider has been shut down, even
\* if the shutdown of another one failed or a panic cut the setup short.
ShutdownReachesEveryProvider ==
    handler = "done" => \A k \in Kinds : provider[k] # "up"

\* A signal that the handler was sent is followed by the shutdown of the
\* providers, unless the application exits first.
SignalIsFollowedByShutdown ==
    (listening /\ sigCh = 1) ~> (handler = "done" \/ phase = "exited")

\* "Stop listening now so a repeated signal ... reaches the app or the default
\* disposition, keeping the \"press again to force quit\" behavior": while the
\* providers are being shut down, and afterwards, another signal ends a process
\* that has no handler of its own.
ForceQuitWorks ==
    [][(signals' > signals /\ handler \in {"shutdown", "done"} /\ ~appListens)
        => phase' = "exited"]_vars

=============================================================================
