-------------------------------- MODULE SWSql --------------------------------
(***************************************************************************)
(* SkyWalking's hooks on database/sql (skywalking/plugins/sql): sql.go and   *)
(* the drivers' mysql.go and pgxstdlib.go.  While Open runs, the driver puts *)
(* the address it parsed into the goroutine's runtime context; Open moves it *)
(* to the DB, and every handle made from a handle gets a copy.  Without it a *)
(* call has no span.                                                         *)
(***************************************************************************)
EXTENDS SWContext

CONSTANTS Goroutines, Databases,
          MaxHandles, \* bound: handles of a behaviour
          MaxOpens,   \* bound: calls of Open of a behaviour
          MaxSpans    \* bound: spans of a behaviour

NoInfo == "none"

VARIABLES sw,      \* the tracing context
          runtime, \* the runtime context of each goroutine: need and info
          opens,   \* the Open calls each goroutine is in
          opened,  \* the number of Open calls so far
          handles, \* DB, Conn, Tx and Stmt values so far
          last,    \* the last statement: its handle, and the database its span names
          nested,  \* history: goroutines that called Open inside Open
          raw      \* history: goroutines that called Conn.Raw

vars == <<sw, runtime, opens, opened, handles, last, nested, raw>>

Init ==
    /\ sw = Empty(Goroutines)
    /\ runtime = [g \in Goroutines |-> [need |-> FALSE, info |-> NoInfo]]
    /\ opens = [g \in Goroutines |-> <<>>]
    /\ opened = 0
    /\ handles = <<>>
    /\ last = [handle |-> 0, named |-> NoInfo, by |-> NoInfo]
    /\ nested = {}
    /\ raw = {}

-----------------------------------------------------------------------------
(* Open.                                                                    *)

OpenBegin(g, d) ==
    /\ opened < MaxOpens /\ opened' = opened + 1
    /\ opens' = [opens EXCEPT ![g] = Append(@, [db |-> d, published |-> FALSE])]
    /\ runtime' = [runtime EXCEPT ![g].need = TRUE]
    /\ nested' = IF opens[g] = <<>> THEN nested ELSE nested \cup {g}
    /\ UNCHANGED <<sw, handles, last, raw>>

\* Mutant: the address goes to whoever waits for one.
PublishToAll(g, d) ==
    runtime' = [k \in Goroutines |-> IF runtime[k].need THEN [runtime[k] EXCEPT !.info = d]
                                     ELSE runtime[k]]

\* The address goes to this goroutine's Open, if there is one waiting.
Publish(g, d) ==
    runtime' = IF runtime[g].need THEN [runtime EXCEPT ![g].info = d] ELSE runtime

\* ParseDSN of mysql, OpenConnector of pgx: called by Open of the database, if its
\* driver is one of these and the DSN is good.
ParseDSN(g) ==
    /\ opens[g] # <<>> /\ ~opens[g][Len(opens[g])].published
    /\ Publish(g, opens[g][Len(opens[g])].db)
    /\ opens' = [opens EXCEPT ![g][Len(opens[g])].published = TRUE]
    /\ UNCHANGED <<sw, opened, handles, last, nested, raw>>

\* The application calls ParseDSN by itself.
ParseDSNAlone(g, d) ==
    /\ opens[g] = <<>>
    /\ Publish(g, d)
    /\ UNCHANGED <<sw, opens, opened, handles, last, nested, raw>>

Handle(kind, db, info, told) == [kind |-> kind, db |-> db, info |-> info, told |-> told]

\* The deferred function of Open.
OpenEnd(g, failed) ==
    /\ opens[g] # <<>>
    /\ LET o == opens[g][Len(opens[g])]
       IN  handles' = IF failed THEN handles
                      ELSE Append(handles, Handle("db", o.db, runtime[g].info,
                                                  o.published /\ g \notin nested))
    /\ Len(handles) < MaxHandles
    /\ runtime' = [runtime EXCEPT ![g] = [need |-> FALSE, info |-> NoInfo]]
    /\ opens' = [opens EXCEPT ![g] = SubSeq(@, 1, Len(@) - 1)]
    /\ UNCHANGED <<sw, opened, last, nested, raw>>

-----------------------------------------------------------------------------
(* The calls on handles.                                                    *)

swInstanceInfoOf(h) == handles[h].info

\* swCreateExitSpan; the database the span names is that of the call that made it.
swCreateExitSpan(t, g, info) == IF info = NoInfo THEN t ELSE Create(t, g, "exit", info)

\* A call with an exit span around it: Ping, Exec, Query, Commit, Rollback.
Statement(g, h) ==
    /\ Len(sw.log) < MaxSpans
    /\ LET info == swInstanceInfoOf(h)
           t == swCreateExitSpan(sw, g, info)
           i == ActiveSpan(t, g)
       IN  /\ sw' = IF info = NoInfo THEN sw ELSE EndSpan(t, g, i)
           /\ last' = [handle |-> h, by |-> g,
                       named |-> IF info = NoInfo THEN NoInfo ELSE t.log[i].name]
    /\ UNCHANGED <<runtime, opens, opened, handles, nested, raw>>

\* What a handle made from h carries.
CarriedInfo(h) == swInstanceInfoOf(h)

\* A call with a local span around it that makes a handle: Prepare, BeginTx, Conn.
\* The handle gets h's information; there is a span exactly if there is any.
Derive(g, h, kind) ==
    /\ Len(handles) < MaxHandles
    /\ handles' = Append(handles, [handles[h] EXCEPT !.kind = kind, !.info = CarriedInfo(h)])
    /\ UNCHANGED <<sw, runtime, opens, opened, last, nested, raw>>

DBCalls(g, h) ==
    /\ handles[h].kind = "db"
    /\ Statement(g, h) \/ \E kind \in {"stmt", "tx", "conn"} : Derive(g, h, kind)

\* The exit span of Raw is not ended.
Raw(g, h) ==
    /\ g \notin raw /\ Len(sw.log) < MaxSpans
    /\ sw' = swCreateExitSpan(sw, g, swInstanceInfoOf(h))
    /\ raw' = raw \cup {g}
    /\ UNCHANGED <<runtime, opens, opened, handles, last, nested>>

ConnCalls(g, h) ==
    /\ handles[h].kind = "conn"
    /\ Statement(g, h) \/ Raw(g, h) \/ \E kind \in {"stmt", "tx"} : Derive(g, h, kind)

\* Tx.StmtContext: the statement s for use in the transaction h of its database;
\* what s carried is overwritten, without a span.
StmtContext(h, s) ==
    /\ Len(handles) < MaxHandles
    /\ handles[s].kind = "stmt" /\ handles[s].db = handles[h].db
    /\ handles' = Append(handles, [handles[h] EXCEPT !.kind = "stmt"])
    /\ UNCHANGED <<sw, runtime, opens, opened, last, nested, raw>>

TxCalls(g, h) ==
    /\ handles[h].kind = "tx"
    /\ \/ Statement(g, h)
       \/ Derive(g, h, "stmt")
       \/ \E s \in DOMAIN handles : StmtContext(h, s)

StmtCalls(g, h) == handles[h].kind = "stmt" /\ Statement(g, h)

Next ==
    \E g \in Goroutines :
        \/ \E d \in Databases : OpenBegin(g, d) \/ ParseDSNAlone(g, d)
        \/ ParseDSN(g)
        \/ \E failed \in BOOLEAN : OpenEnd(g, failed)
        \/ /\ opens[g] = <<>>
           /\ \E h \in DOMAIN handles :
                DBCalls(g, h) \/ ConnCalls(g, h) \/ TxCalls(g, h) \/ StmtCalls(g, h)

Spec == Init /\ [][Next]_vars

-----------------------------------------------------------------------------
(* Properties.                                                              *)

\* However Opens of several goroutines overlap, with parse failures and other
\* drivers between them, and along any chain of handles, a statement has a span
\* exactly if the driver told Open its address, and the span names the database
\* the statement ran on.  Not so for a database opened while another Open ran on
\* the same goroutine, which takes the address or the flag away, and on a
\* goroutine where Raw left its span to be reused.
StatementNamesItsDatabase ==
    \/ last.handle = 0
    \/ LET h == handles[last.handle]
       IN  \/ nested # {} \/ last.by \in raw
           \/ last.named = IF h.told THEN h.db ELSE NoInfo

=============================================================================
