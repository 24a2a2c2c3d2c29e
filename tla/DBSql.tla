-------------------------------- MODULE DBSql --------------------------------
(***************************************************************************)
(* The database/sql hooks (otelc/plugins/dbsql/sql.go): every DB, Conn, Tx   *)
(* and Stmt carries fields that say which database it belongs to, copied     *)
(* from the handle it was made from, and every statement gets a span whose   *)
(* attributes come from the handle it was called on.  `conn' stands for      *)
(* endpoint, driver and database name, which are always copied together.     *)
(***************************************************************************)
EXTENDS Integers, Sequences, FiniteSets

CONSTANTS Databases,   \* data sources the application opens
          Queries,     \* texts it prepares or executes
          MaxHandles   \* bound: handles

NoInfo == "none"  \* the empty string of a field nobody has filled

VARIABLES
    enabled, \* hooksupport.Instrumented of DATABASE, read again at each call
    handles, \* all handles made so far
    span     \* the last span, with the handle its statement ran on

vars == <<enabled, handles, span>>

NoSpan == [handle |-> 0]

Init ==
    /\ enabled \in BOOLEAN
    /\ handles = <<>>
    /\ span = NoSpan

\* The application changes the environment variables.
Setenv ==
    /\ enabled' = ~enabled
    /\ UNCHANGED <<handles, span>>

Of(kind) == {h \in DOMAIN handles : handles[h].kind = kind /\ handles[h].open}

\* otelcDBStart and otelcDBEnd for a statement on h that the hook calls sql,
\* and of which the text is really text.
Statement(h, sql, text, failed) ==
    IF ~enabled THEN span
    ELSE [handle |-> h, conn |-> handles[h].conn, error |-> failed,
          sql  |-> sql, text |-> text]

\* The same where the hook is given the text.
Plain(h, q, failed) == Statement(h, q, q, failed)

\* A new handle: its fields, and as history: the database it belongs to, the
\* text it was prepared with, and whether a hook left its fields or text empty.
Make(kind, conn, sql, history) ==
    /\ Len(handles) < MaxHandles
    /\ handles' = Append(handles, [kind |-> kind, conn |-> conn, sql |-> sql, open |-> TRUE,
                                   was |-> history])
    /\ UNCHANGED enabled

Opened(d, bare) == [of |-> d, text |-> NoInfo, bare |-> bare, mute |-> FALSE]

From(h) == handles[h].was

\* sql.Open: OpenDB, which it calls with a connector that tells nothing, fills
\* the fields first; Open's own deferred function overwrites them.
Open(d) == Make("DB", d, NoInfo, Opened(d, FALSE)) /\ UNCHANGED span

\* sql.OpenDB with a connector that has a DSN or DataSourceName method, or not.
OpenDB(d, tells) ==
    /\ Make("DB", IF tells THEN d ELSE NoInfo, NoInfo, Opened(d, ~tells))
    /\ UNCHANGED span

\* Mutant: the fields of the last database opened are used.
CopyInfoLast(h) ==
    LET dbs == Of("DB")
    IN  handles[CHOOSE i \in dbs : \A j \in dbs : j <= i].conn

\* The fields a handle passes on.
CopyInfo(h) == handles[h].conn

\* A statement prepared on h: it has h's fields and its text.
Prepared(h, q) ==
    /\ Make("Stmt", CopyInfo(h), q, [From(h) EXCEPT !.text = q])
    /\ UNCHANGED span

\* DB.PrepareContext, Conn.PrepareContext, Tx.PrepareContext
PrepareContext(h, q) == h \in Of("DB") /\ Prepared(h, q)
ConnPrepareContext(h, q) == h \in Of("Conn") /\ Prepared(h, q)
TxPrepareContext(h, q) == h \in Of("Tx") /\ Prepared(h, q)

\* DB.BeginTx fills the transaction's fields where it ends the span, so that
\* they stay empty if instrumentation is off at that time.
BeginTx(h) ==
    /\ Make("Tx", IF enabled THEN CopyInfo(h) ELSE NoInfo, NoInfo,
            [From(h) EXCEPT !.bare = @ \/ ~enabled])
    /\ span' = Plain(h, "START TRANSACTION", FALSE)

\* DB.Conn
Conn(h) == Make("Conn", CopyInfo(h), NoInfo, From(h)) /\ UNCHANGED span

\* Conn.BeginTx starts and ends a span and leaves the transaction as it is.
ConnBeginTx(h) ==
    /\ Make("Tx", NoInfo, NoInfo, [From(h) EXCEPT !.bare = TRUE])
    /\ span' = Plain(h, "START TRANSACTION", FALSE)

\* BeginTx of either fails: there is a span, but no transaction.
BeginTxFails(h) ==
    /\ span' = Plain(h, "START TRANSACTION", TRUE)
    /\ UNCHANGED <<enabled, handles>>

\* Tx.StmtContext copies the statement's fields, but not its text.
StmtContext(tx, stmt) ==
    /\ handles[tx].was.of = handles[stmt].was.of
    /\ Make("Stmt", CopyInfo(stmt), NoInfo, [From(stmt) EXCEPT !.mute = TRUE])
    /\ UNCHANGED span

\* ExecContext, QueryContext and PingContext of DB, which use its fields.
Execute(h, q, failed) ==
    /\ h \in Of("DB")
    /\ span' = Plain(h, q, failed)
    /\ UNCHANGED <<enabled, handles>>

\* Those of Conn.
ConnExecute(h, q, failed) ==
    /\ h \in Of("Conn")
    /\ span' = Plain(h, q, failed)
    /\ UNCHANGED <<enabled, handles>>

\* ExecContext and QueryContext of Tx.
TxExecute(h, q, failed) ==
    /\ h \in Of("Tx")
    /\ span' = Plain(h, q, failed)
    /\ UNCHANGED <<enabled, handles>>

\* Those of Stmt, which are given no text and take it from Data.
StmtExecute(h, failed) ==
    /\ h \in Of("Stmt")
    /\ span' = Statement(h, handles[h].sql, handles[h].was.text, failed)
    /\ UNCHANGED <<enabled, handles>>

\* Commit and Rollback; the transaction is over if they succeed.
Finish(tx, failed) ==
    /\ span' = Plain(tx, "COMMIT", failed)
    /\ handles' = [handles EXCEPT ![tx].open = failed]
    /\ UNCHANGED enabled

Next ==
    \/ Setenv
    \/ \E d \in Databases : Open(d) \/ (\E tells \in BOOLEAN : OpenDB(d, tells))
    \/ \E h \in Of("DB") : BeginTx(h) \/ Conn(h)
    \/ \E h \in Of("Conn") : ConnBeginTx(h)
    \/ \E h \in Of("DB") \cup Of("Conn") : BeginTxFails(h)
    \/ \E h \in DOMAIN handles, q \in Queries :
          PrepareContext(h, q) \/ ConnPrepareContext(h, q) \/ TxPrepareContext(h, q)
    \/ \E tx \in Of("Tx"), stmt \in Of("Stmt") : StmtContext(tx, stmt)
    \/ \E h \in DOMAIN handles, q \in Queries, failed \in BOOLEAN :
          Execute(h, q, failed) \/ ConnExecute(h, q, failed) \/ TxExecute(h, q, failed)
    \/ \E h \in DOMAIN handles, failed \in BOOLEAN : StmtExecute(h, failed)
    \/ \E tx \in Of("Tx"), failed \in BOOLEAN : Finish(tx, failed)

Spec == Init /\ [][Next]_vars

-----------------------------------------------------------------------------
(* Properties.                                                              *)

\* Along every chain of handles, with several databases open, a span names the
\* database it talks to; it names none at all if the chain passed one of the
\* places that leave the fields empty, and never another database.  It shows the
\* statement that ran, prepared or not, unless Tx.StmtContext made the Stmt.
SpanDescribesItsStatement ==
    span # NoSpan =>
        LET was == handles[span.handle].was
        IN  /\ span.conn = IF was.bare THEN NoInfo ELSE was.of
            /\ span.sql = IF was.mute THEN NoInfo ELSE span.text

=============================================================================
