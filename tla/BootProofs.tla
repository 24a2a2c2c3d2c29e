------------------------------ MODULE BootProofs -----------------------------
(***************************************************************************)
(* Safety of the shutdown of the SDK, for any number of signals.            *)
(***************************************************************************)
EXTENDS Boot, TLAPS

\* The handler's goroutine exists only after the setup is over, and the channel
\* is registered from then until the handler calls signal.Stop.
HandlerInv ==
    /\ signals \in Nat
    /\ handler \in {"none", "waiting", "received", "shutdown", "done"}
    /\ phase \in {"userInit", "setup", "signals"} => handler = "none"
    /\ listening <=> handler \in {"waiting", "received"}

\* The providers that Shutdown has passed are not up any more.
ClosedInv ==
    /\ step \in Nat \ {0}
    /\ closing \in Nat \ {0}
    /\ provider \in [Kinds -> {"nil", "up", "down"}]
    /\ handler \in {"none", "waiting", "received"} => closing = 1
    /\ handler = "done" => closing > Len(Providers)
    /\ \A i \in DOMAIN Providers : i < closing => provider[Providers[i]] # "up"

IInv == HandlerInv /\ ClosedInv

\* There are three providers, one of each kind.
LEMMA ProvidersAre ==
    /\ Len(Providers) = 3 /\ DOMAIN Providers = 1..3
    /\ Providers[1] = "traces" /\ Providers[2] = "metrics" /\ Providers[3] = "logs"
    /\ Kinds = {"traces", "metrics", "logs"}
BY DEF Providers, Kinds

LEMMA InitInv == Init => IInv
BY ProvidersAre DEF Init, IInv, HandlerInv, ClosedInv

LEMMA NextInv == IInv /\ [Next]_vars => IInv'
<1> SUFFICES ASSUME IInv, [Next]_vars PROVE IInv'
    OBVIOUS
<1> USE DEF bootVars, globalVars, signalVars
<1>1. CASE UserSetsProvider
    BY <1>1 DEF UserSetsProvider, SetTracerProvider, IInv, HandlerInv, ClosedInv
<1>2. CASE SetupOTelSDK
    BY <1>2 DEF SetupOTelSDK, IInv, HandlerInv, ClosedInv
<1>3. ASSUME NEW o \in Outcomes, SetupProvider(o) PROVE IInv'
    <2>1. HandlerInv'
        BY <1>3 DEF SetupProvider, AfterProvider, IInv, HandlerInv
    <2>2. handler = "none" /\ closing = 1
        BY <1>3 DEF SetupProvider, IInv, HandlerInv, ClosedInv
    <2>3. provider' \in [Kinds -> {"nil", "up", "down"}]
        BY <1>3 DEF SetupProvider, IInv, ClosedInv
    <2>4. step' \in Nat \ {0}
        BY <1>3 DEF SetupProvider, AfterProvider, IInv, ClosedInv
    <2>5. QED
        BY <1>3, <2>1, <2>2, <2>3, <2>4, ProvidersAre
           DEF SetupProvider, IInv, ClosedInv
<1>4. CASE SetPropagator
    BY <1>4 DEF SetPropagator, IInv, HandlerInv, ClosedInv
<1>5. CASE SetupSignalHandler
    BY <1>5 DEF SetupSignalHandler, IInv, HandlerInv, ClosedInv
<1>6. CASE StartRuntimeMetrics
    BY <1>6 DEF StartRuntimeMetrics, IInv, HandlerInv, ClosedInv
<1>7. CASE AppNotify
    BY <1>7 DEF AppNotify, IInv, HandlerInv, ClosedInv
<1>8. CASE OSSignal
    BY <1>8 DEF OSSignal, IInv, HandlerInv, ClosedInv
<1>9. CASE HandlerReceive
    BY <1>9 DEF HandlerReceive, IInv, HandlerInv, ClosedInv
<1>10. CASE HandlerStop
    BY <1>10 DEF HandlerStop, IInv, HandlerInv, ClosedInv
<1>11. ASSUME NEW failed \in BOOLEAN, ShutdownProvider(failed) PROVE IInv'
    <2>1. HandlerInv'
        BY <1>11 DEF ShutdownProvider, IInv, HandlerInv
    <2>2. provider' \in [Kinds -> {"nil", "up", "down"}]
        BY <1>11 DEF ShutdownProvider, IInv, ClosedInv
    <2>3. provider'[Providers[closing]] # "up"
        BY <1>11, ProvidersAre DEF ShutdownProvider, IInv, ClosedInv
    <2>4. \A k \in Kinds : provider[k] # "up" => provider'[k] # "up"
        BY <1>11, ProvidersAre DEF ShutdownProvider, IInv, ClosedInv
    <2>5. closing' = closing + 1 /\ handler' = "shutdown" /\ step' = step
        BY <1>11 DEF ShutdownProvider, AfterShutdown
    <2>6. QED
        BY <2>1, <2>2, <2>3, <2>4, <2>5, ProvidersAre DEF IInv, ClosedInv
<1>12. CASE HandlerDone
    BY <1>12 DEF HandlerDone, IInv, HandlerInv, ClosedInv
<1>13. CASE AppExit
    BY <1>13 DEF AppExit, IInv, HandlerInv, ClosedInv
<1>14. CASE UNCHANGED vars
    BY <1>14 DEF vars, IInv, HandlerInv, ClosedInv
<1>15. QED
    BY <1>1, <1>2, <1>3, <1>4, <1>5, <1>6, <1>7, <1>8, <1>9, <1>10, <1>11, <1>12,
       <1>13, <1>14 DEF Next, BootStep, HandlerStep

LEMMA Invariance == Spec => []IInv
BY InitInv, NextInv, PTL DEF Spec

\* When the signal handler is through, no provider is up, whatever failed or
\* panicked in setup and shutdown: setupOpenTelemetry, Shutdown.
THEOREM ShutdownComplete == Spec => []ShutdownReachesEveryProvider
<1>1. IInv => ShutdownReachesEveryProvider
    BY ProvidersAre DEF IInv, ClosedInv, ShutdownReachesEveryProvider
<1>2. QED
    BY <1>1, Invariance, PTL

\* Once the handler has stopped listening, a further signal ends a process
\* without a handler of its own: handleShutdownSignal.
THEOREM ForceQuit == Spec => ForceQuitWorks
<1>1. IInv /\ [Next]_vars =>
        [(signals' > signals /\ handler \in {"shutdown", "done"} /\ ~appListens)
            => phase' = "exited"]_vars
    <2> SUFFICES ASSUME IInv, Next, signals' > signals, handler \in {"shutdown", "done"},
                        ~appListens
                 PROVE  phase' = "exited"
        OBVIOUS
    <2>1. signals' # signals => OSSignal
        BY DEF Next, BootStep, HandlerStep, UserSetsProvider, SetupOTelSDK, SetupProvider,
               SetPropagator, SetupSignalHandler, StartRuntimeMetrics, AppNotify,
               HandlerReceive, HandlerStop, ShutdownProvider, HandlerDone, AppExit,
               signalVars
    <2>2. signals' # signals
        BY DEF IInv, HandlerInv
    <2>3. QED
        BY <2>1, <2>2 DEF OSSignal, IInv, HandlerInv
<1>2. QED
    BY <1>1, Invariance, PTL DEF Spec, ForceQuitWorks
=============================================================================
