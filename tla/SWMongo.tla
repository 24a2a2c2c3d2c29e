------------------------------- MODULE SWMongo -------------------------------
(***************************************************************************)
(* SkyWalking's hook on mongo.NewClient (skywalking/plugins/mongo): it wraps *)
(* the monitor of each option with hosts, in place, and the wrapper makes a  *)
(* span per command, which the completion, on whatever goroutine, finishes.  *)
(***************************************************************************)
EXTENDS SWContext, Functions, FiniteSets

CONSTANTS Goroutines, Opts, \* goroutines, and option objects the application keeps
          MaxClients, MaxCommands \* bounds

VARIABLES sw,
          opt,      \* the options: hosts, and the monitor with the hook's layers
          clients,  \* the monitor each client ended up with
          commands, \* commands so far
          syncMap   \* the spans of each NewClient's map, by request

vars == <<sw, opt, clients, commands, syncMap>>

NoMonitor == [user |-> FALSE, layers |-> <<>>]

Init ==
    /\ sw = Empty(Goroutines)
    /\ opt \in [Opts -> [hosts : BOOLEAN, monitor : {NoMonitor, [NoMonitor EXCEPT !.user = TRUE]}]]
    /\ clients = <<>>
    /\ commands = <<>>
    /\ syncMap = {}

AppStart(g) ==
    /\ ActiveSpan(sw, g) = 0 /\ sw.log = <<>>
    /\ sw' = Create(sw, g, "local", "app")
    /\ UNCHANGED <<opt, clients, commands, syncMap>>

\* The monitor of merged options: the last one that is not nil.
Merged(options, list) ==
    LET set == {i \in DOMAIN list : options[list[i]].monitor # NoMonitor}
    IN  IF set = {} THEN NoMonitor
        ELSE options[list[CHOOSE i \in set : \A j \in set : j <= i]].monitor

\* The monitor of an option with hosts becomes a wrapper of what it was, with the
\* map of this call of NewClient, once for each of the n times the option was given.
Wrapped(o, map, n) ==
    IF o.hosts THEN [o EXCEPT !.monitor.layers = @ \o [k \in 1..n |-> map]] ELSE o

\* An application monitor the client is to have, but which the wrapper of a later
\* option without a monitor hides.
Hidden(list) ==
    Merged(opt, list).user
        /\ \E i, j \in DOMAIN list : /\ i < j /\ opt[list[i]].monitor = Merged(opt, list)
                                     /\ opt[list[j]].hosts /\ opt[list[j]].monitor = NoMonitor

NewClient(list) ==
    /\ Len(clients) < MaxClients
    /\ opt' = [o \in Opts |->
                   Wrapped(opt[o], Len(clients) + 1, Cardinality({i \in DOMAIN list : list[i] = o}))]
    /\ clients' = Append(clients, [monitor |-> Merged(opt', list),
                                   wanted |-> Merged(opt, list).user, hidden |-> Hidden(list)])
    /\ UNCHANGED <<sw, commands, syncMap>>

-----------------------------------------------------------------------------
(* The events of a command.                                                 *)

\* The span a layer makes on goroutine g: pushed, made asynchronous, popped.
LayerSpan(t, g) ==
    LET t1 == Create(t, g, "exit", "command")
        i == ActiveSpan(t1, g)
    IN  EndSpan(PrepareAsync(t1, i), g, i)

\* One after the other, the innermost layer first.
LayerSpans(t, g, layers) ==
    LET after[k \in 0..Len(layers)] == IF k = 0 THEN t ELSE LayerSpan(after[k - 1], g)
    IN  after[Len(layers)]

\* A layer whose span a later layer with the same map replaces there by its own.
Replaced(layers, k) == \E j \in DOMAIN layers : k < j /\ layers[j] = layers[k]

\* Started: the application's monitor, then the layers.
Started(g, c) ==
    /\ Len(commands) < MaxCommands
    /\ LET layers == clients[c].monitor.layers
           r == Len(commands) + 1
           first == Len(sw.log)
       IN  /\ sw' = LayerSpans(sw, g, layers)
           /\ syncMap' = syncMap \cup
                {[map |-> layers[k], request |-> r, span |-> first + k] :
                     k \in {k \in DOMAIN layers : ~Replaced(layers, k)}}
           /\ commands' = Append(commands, [client |-> c, state |-> "running",
                                            spans |-> [k \in DOMAIN layers |-> first + k],
                                            errors |-> {}, from |-> sw.act[g],
                                            told |-> clients[c].monitor.user])
    /\ UNCHANGED <<opt, clients>>

\* Mutant: a failed command only gets its error.
FinishedUnlessFailed(r, failed) ==
    LET done == {e \in syncMap : e.request = r /\ e.map \in Range(clients[commands[r].client].monitor.layers)}
    IN  /\ sw' = IF failed THEN sw
                 ELSE [sw EXCEPT !.log = [i \in DOMAIN @ |->
                          IF \E e \in done : e.span = i THEN AsyncFinish(sw, i).log[i] ELSE @[i]]]
        /\ syncMap' = syncMap \ done
        /\ commands' = [commands EXCEPT ![r].state = IF failed THEN "failed" ELSE "succeeded",
                                        ![r].errors = IF failed THEN {e.span : e \in done} ELSE {}]

\* Each layer removes the request's span from its map and finishes it.
Finished(r, failed) ==
    LET done == {e \in syncMap : e.request = r /\ e.map \in Range(clients[commands[r].client].monitor.layers)}
    IN  /\ sw' = [sw EXCEPT !.log = [i \in DOMAIN @ |->
                      IF \E e \in done : e.span = i THEN AsyncFinish(sw, i).log[i] ELSE @[i]]]
        /\ syncMap' = syncMap \ done
        /\ commands' = [commands EXCEPT ![r].state = IF failed THEN "failed" ELSE "succeeded",
                                        ![r].errors = IF failed THEN {e.span : e \in done} ELSE {}]

\* Succeeded and Failed, on any goroutine: they leave its context alone.
Completed(r, failed) ==
    /\ commands[r].state = "running"
    /\ Finished(r, failed)
    /\ UNCHANGED <<opt, clients>>

Lists == {<<o>> : o \in Opts} \cup {<<o, p>> : o, p \in Opts}

Next ==
    \/ \E g \in Goroutines : AppStart(g)
    \/ \E list \in Lists : NewClient(list)
    \/ \E g \in Goroutines, c \in DOMAIN clients : Started(g, c)
    \/ \E r \in DOMAIN commands, failed \in BOOLEAN : Completed(r, failed)

Spec == Init /\ [][Next]_vars

-----------------------------------------------------------------------------
(* Properties.                                                              *)

\* Whichever clients share options and whichever goroutines events come on, a
\* command has one span for every time its client's option was given to a NewClient;
\* the span's parent is what the goroutine was in, the span is reported exactly when
\* the command has completed, and marked exactly if it failed.  Of an option that one
\* NewClient was given twice only the outer layer's span is: the other is never
\* reported.  The application's monitor hears of the command too, unless a later
\* option with hosts hid it.
SpansMatchCommands ==
    \A r \in DOMAIN commands :
        LET k == commands[r]
            c == clients[k.client]
            layers == c.monitor.layers
        IN  /\ \A n \in DOMAIN layers :
                 LET i == k.spans[n]
                 IN  /\ Reported(sw, i) <=> (k.state # "running" /\ ~Replaced(layers, n))
                     /\ i \in k.errors <=> (k.state = "failed" /\ ~Replaced(layers, n))
                     /\ sw.log[i].parent.span = k.from.span
            /\ \A q \in DOMAIN commands \ {r} : Range(commands[q].spans) \cap Range(k.spans) = {}
            /\ k.told <=> (c.wanted /\ ~c.hidden)

=============================================================================
