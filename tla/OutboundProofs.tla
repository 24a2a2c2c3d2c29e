--------------------------- MODULE OutboundProofs ---------------------------
(***************************************************************************)
(* Safety of the hooks on outgoing calls, for any number of spans, calls,    *)
(* handles and chunks.  The models share no state: OutboundSpec has a        *)
(* behaviour of each of them, and each has an inductive invariant of its     *)
(* own.                                                                      *)
(***************************************************************************)
EXTENDS MCOutbound, SequenceLemmas, TLAPS

-----------------------------------------------------------------------------
(* database/sql: the handles and the spans of their statements.             *)

HandleKinds == {"DB", "Conn", "Tx", "Stmt"}
Infos == Databases \cup {SQL!NoInfo}
Texts == Queries \cup {SQL!NoInfo}
Histories == [of : Infos, text : Texts, bare : BOOLEAN, mute : BOOLEAN]
Handles == [kind : HandleKinds, conn : Infos, sql : Texts, open : BOOLEAN, was : Histories]

\* A handle's fields name its database, unless a hook left them empty; it has its
\* text if it was prepared, unless it went through Tx.StmtContext.
Described(e) ==
    /\ e.conn = IF e.was.bare THEN SQL!NoInfo ELSE e.was.of
    /\ e.kind = "Stmt" => e.sql = IF e.was.mute THEN SQL!NoInfo ELSE e.was.text
    /\ e.kind # "Stmt" => ~e.was.mute

HandleInv == handles \in Seq(Handles) /\ \A h \in 1..Len(handles) : Described(handles[h])

\* The last span describes the statement by the handle it was called on.
SpanInv ==
    span # SQL!NoSpan =>
        /\ span.handle \in 1..Len(handles)
        /\ span.conn = handles[span.handle].conn
        /\ span.sql = IF handles[span.handle].was.mute THEN SQL!NoInfo ELSE span.text

SQLInv == HandleInv /\ SpanInv

\* Handles stay, with all their fields but the one that says they are open.
HandlesKept ==
    /\ Len(handles) <= Len(handles')
    /\ \A h \in 1..Len(handles) : /\ handles'[h].conn = handles[h].conn
                                  /\ handles'[h].was = handles[h].was

LEMMA HandleMade ==
    ASSUME SQLInv, NEW e \in Handles, Described(e), handles' = Append(handles, e)
    PROVE  HandleInv' /\ HandlesKept
<1>1. handles \in Seq(Handles) /\ Len(handles) \in Nat
    BY LenProperties DEF SQLInv, HandleInv
<1>2. /\ handles' \in Seq(Handles) /\ Len(handles') = Len(handles) + 1
      /\ handles'[Len(handles) + 1] = e
      /\ \A h \in 1..Len(handles) : handles'[h] = handles[h]
    BY <1>1, AppendProperties
<1>3. \A h \in 1..Len(handles') : h = Len(handles) + 1 \/ h \in 1..Len(handles)
    BY <1>1, <1>2
<1>4. ASSUME NEW h \in 1..Len(handles') PROVE Described(handles'[h])
    <2>1. CASE h = Len(handles) + 1
        BY <1>2, <2>1
    <2>2. CASE h \in 1..Len(handles)
        BY <1>2, <2>2 DEF SQLInv, HandleInv
    <2>3. QED
        BY <1>3, <2>1, <2>2
<1>5. QED
    BY <1>1, <1>2, <1>4 DEF HandleInv, HandlesKept

LEMMA HandlesUnchanged == ASSUME SQLInv, UNCHANGED handles PROVE HandleInv' /\ HandlesKept
<1>1. Len(handles) \in Nat
    BY LenProperties DEF SQLInv, HandleInv
<1>2. QED
    BY <1>1 DEF SQLInv, HandleInv, HandlesKept, Described

LEMMA SpanUnchanged == ASSUME SQLInv, HandlesKept, HandleInv', UNCHANGED span PROVE SpanInv'
<1>1. Len(handles) \in Nat /\ Len(handles') \in Nat
    BY LenProperties DEF SQLInv, HandleInv
<1>2. \A h \in 1..Len(handles) : h \in 1..Len(handles')
    BY <1>1 DEF HandlesKept
<1>3. QED
    BY <1>1, <1>2 DEF SQLInv, SpanInv, HandlesKept

\* otelcDBStart and otelcDBEnd on handle h.
LEMMA SpanMade ==
    ASSUME SQLInv, HandlesKept, HandleInv', NEW h \in 1..Len(handles), NEW sql, NEW text, NEW failed,
           span' = SQL!Statement(h, sql, text, failed),
           sql = IF handles[h].was.mute THEN SQL!NoInfo ELSE text
    PROVE  SpanInv'
<1>1. Len(handles) \in Nat /\ Len(handles') \in Nat
    BY LenProperties DEF SQLInv, HandleInv
<1>2. CASE ~sqlEnabled
    BY <1>2, SpanUnchanged DEF SQL!Statement
<1>3. CASE sqlEnabled
    <2>1. span' = [handle |-> h, conn |-> handles[h].conn, error |-> failed,
                   sql |-> sql, text |-> text]
        BY <1>3 DEF SQL!Statement
    <2>2. /\ span'.handle = h /\ span'.conn = handles[h].conn
          /\ span'.sql = sql /\ span'.text = text
        BY <2>1
    <2>3. h \in 1..Len(handles')
        BY <1>1 DEF HandlesKept
    <2>4. QED
        BY <2>2, <2>3 DEF SpanInv, HandlesKept
<1>4. QED
    BY <1>2, <1>3

LEMMA HandleTypes ==
    ASSUME SQLInv, NEW h \in DOMAIN handles
    PROVE  /\ h \in 1..Len(handles) /\ handles[h] \in Handles /\ Described(handles[h])
           /\ handles[h].was \in Histories /\ handles[h].conn \in Infos
           /\ handles[h].sql \in Texts /\ handles[h].kind \in HandleKinds
<1>1. h \in 1..Len(handles) /\ handles[h] \in Handles
    BY LenProperties, ElementOfSeq DEF SQLInv, HandleInv
<1>2. QED
    BY <1>1 DEF SQLInv, HandleInv, Handles

\* sql.Open, sql.OpenDB.
LEMMA OpenKeeps ==
    ASSUME SQLInv, NEW d \in Databases, NEW conn \in Infos, NEW bare \in BOOLEAN,
           conn = IF bare THEN SQL!NoInfo ELSE d,
           SQL!Make("DB", conn, SQL!NoInfo, SQL!Opened(d, bare)), UNCHANGED span
    PROVE  SQLInv'
<1>1. PICK w : w = [of |-> d, text |-> SQL!NoInfo, bare |-> bare, mute |-> FALSE]
    OBVIOUS
<1>2. w \in Histories /\ w.of = d /\ w.bare = bare /\ ~w.mute
    BY <1>1 DEF Histories, Infos, Texts
<1>3. PICK e : e = [kind |-> "DB", conn |-> conn, sql |-> SQL!NoInfo, open |-> TRUE, was |-> w]
    OBVIOUS
<1>4. e \in Handles /\ e.kind = "DB" /\ e.conn = conn /\ e.was = w
    BY <1>2, <1>3 DEF Handles, HandleKinds, Texts
<1>5. Described(e)
    BY <1>2, <1>4 DEF Described
<1>6. handles' = Append(handles, e)
    BY <1>1, <1>3 DEF SQL!Make, SQL!Opened
<1>7. HandleInv' /\ HandlesKept
    BY <1>4, <1>5, <1>6, HandleMade
<1>8. QED
    BY <1>7, SpanUnchanged DEF SQLInv

\* A statement prepared on a DB, a Conn or a Tx.
LEMMA PreparedKeeps ==
    ASSUME SQLInv, NEW h \in DOMAIN handles, NEW q \in Queries,
           handles[h].kind # "Stmt", SQL!Prepared(h, q)
    PROVE  SQLInv'
<1>1. PICK w : w = [handles[h].was EXCEPT !.text = q]
    OBVIOUS
<1>2. /\ w \in Histories /\ w.text = q /\ w.of = handles[h].was.of
      /\ w.bare = handles[h].was.bare /\ w.mute = handles[h].was.mute
    BY <1>1, HandleTypes DEF Histories, Texts
<1>3. PICK e : e = [kind |-> "Stmt", conn |-> handles[h].conn, sql |-> q, open |-> TRUE, was |-> w]
    OBVIOUS
<1>4. e \in Handles /\ e.kind = "Stmt" /\ e.conn = handles[h].conn /\ e.sql = q /\ e.was = w
    BY <1>2, <1>3, HandleTypes DEF Handles, HandleKinds, Texts
<1>5. Described(e)
    BY <1>2, <1>4, HandleTypes DEF Described
<1>6. handles' = Append(handles, e) /\ span' = span
    BY <1>1, <1>3 DEF SQL!Prepared, SQL!Make, SQL!From, SQL!CopyInfo
<1>7. HandleInv' /\ HandlesKept
    BY <1>4, <1>5, <1>6, HandleMade
<1>8. QED
    BY <1>6, <1>7, SpanUnchanged DEF SQLInv

\* A transaction: its fields are those of h, or empty.
LEMMA TxKeeps ==
    ASSUME SQLInv, NEW h \in DOMAIN handles, handles[h].kind # "Stmt",
           NEW bare \in BOOLEAN, handles[h].was.bare => bare,
           handles' = Append(handles, [kind |-> "Tx",
               conn |-> IF bare THEN SQL!NoInfo ELSE handles[h].conn, sql |-> SQL!NoInfo,
               open |-> TRUE, was |-> [handles[h].was EXCEPT !.bare = bare]]),
           span' = SQL!Plain(h, "START TRANSACTION", FALSE)
    PROVE  SQLInv'
<1>1. PICK w : w = [handles[h].was EXCEPT !.bare = bare]
    OBVIOUS
<1>2. /\ w \in Histories /\ w.of = handles[h].was.of /\ w.bare = bare
      /\ w.mute = handles[h].was.mute
    BY <1>1, HandleTypes DEF Histories
<1>3. PICK e : e = [kind |-> "Tx", conn |-> IF bare THEN SQL!NoInfo ELSE handles[h].conn,
                    sql |-> SQL!NoInfo, open |-> TRUE, was |-> w]
    OBVIOUS
<1>4. /\ e \in Handles /\ e.kind = "Tx" /\ e.was = w
      /\ e.conn = IF bare THEN SQL!NoInfo ELSE handles[h].conn
    BY <1>2, <1>3, HandleTypes DEF Handles, HandleKinds, Texts, Infos
<1>5. Described(e)
    BY <1>2, <1>4, HandleTypes DEF Described
<1>6. handles' = Append(handles, e)
    BY <1>1, <1>3
<1>7. HandleInv' /\ HandlesKept
    BY <1>4, <1>5, <1>6, HandleMade
<1>8. ~handles[h].was.mute
    BY HandleTypes DEF Described
<1>9. SpanInv'
    BY <1>7, <1>8, SpanMade, HandleTypes DEF SQL!Plain
<1>10. QED
    BY <1>7, <1>9 DEF SQLInv

LEMMA BeginTxKeeps ==
    ASSUME SQLInv, NEW h \in DOMAIN handles, sqlEnabled \in BOOLEAN, handles[h].kind # "Stmt",
           SQL!BeginTx(h) \/ SQL!ConnBeginTx(h)
    PROVE  SQLInv'
<1>1. handles[h].was.bare \in BOOLEAN
    BY HandleTypes DEF Histories
<1>2. CASE SQL!BeginTx(h)
    <2>1. PICK bare \in BOOLEAN : bare <=> handles[h].was.bare \/ ~sqlEnabled
        BY <1>1
    <2>2. (IF bare THEN SQL!NoInfo ELSE handles[h].conn)
              = IF sqlEnabled THEN handles[h].conn ELSE SQL!NoInfo
        BY <2>1, HandleTypes DEF Described
    <2>3. bare = (handles[h].was.bare \/ ~sqlEnabled)
        BY <1>1, <2>1
    <2>4. QED
        BY <1>2, <2>1, <2>2, <2>3, TxKeeps DEF SQL!BeginTx, SQL!Make, SQL!From, SQL!CopyInfo
<1>3. CASE SQL!ConnBeginTx(h)
    BY <1>3, TxKeeps DEF SQL!ConnBeginTx, SQL!Make, SQL!From
<1>4. QED
    BY <1>2, <1>3

\* DB.Conn, and Tx.StmtContext, whose statement loses its text.
LEMMA DerivedKeeps ==
    ASSUME SQLInv, NEW h \in DOMAIN handles, UNCHANGED span,
           \/ handles[h].kind # "Stmt" /\ SQL!Conn(h)
           \/ handles[h].kind = "Stmt" /\ \E tx \in DOMAIN handles : SQL!StmtContext(tx, h)
    PROVE  SQLInv'
<1>1. ASSUME NEW e \in Handles, Described(e), handles' = Append(handles, e) PROVE SQLInv'
    BY <1>1, HandleMade, SpanUnchanged DEF SQLInv
<1>2. CASE handles[h].kind # "Stmt" /\ SQL!Conn(h)
    <2>1. PICK e : e = [kind |-> "Conn", conn |-> handles[h].conn, sql |-> SQL!NoInfo,
                        open |-> TRUE, was |-> handles[h].was]
        OBVIOUS
    <2>2. /\ e \in Handles /\ e.kind = "Conn" /\ e.was = handles[h].was
          /\ e.conn = handles[h].conn
        BY <2>1, HandleTypes DEF Handles, HandleKinds, Texts
    <2>3. Described(e)
        BY <1>2, <2>2, HandleTypes DEF Described
    <2>4. handles' = Append(handles, e)
        BY <1>2, <2>1 DEF SQL!Conn, SQL!Make, SQL!From, SQL!CopyInfo
    <2>5. QED
        BY <1>1, <2>2, <2>3, <2>4
<1>3. CASE handles[h].kind = "Stmt" /\ \E tx \in DOMAIN handles : SQL!StmtContext(tx, h)
    <2>1. PICK w : w = [handles[h].was EXCEPT !.mute = TRUE]
        OBVIOUS
    <2>2. /\ w \in Histories /\ w.of = handles[h].was.of /\ w.mute
          /\ w.bare = handles[h].was.bare
        BY <2>1, HandleTypes DEF Histories
    <2>3. PICK e : e = [kind |-> "Stmt", conn |-> handles[h].conn, sql |-> SQL!NoInfo,
                        open |-> TRUE, was |-> w]
        OBVIOUS
    <2>4. /\ e \in Handles /\ e.kind = "Stmt" /\ e.was = w /\ e.sql = SQL!NoInfo
          /\ e.conn = handles[h].conn
        BY <2>2, <2>3, HandleTypes DEF Handles, HandleKinds, Texts
    <2>5. Described(e)
        BY <2>2, <2>4, HandleTypes DEF Described
    <2>6. handles' = Append(handles, e)
        BY <1>3, <2>1, <2>3 DEF SQL!StmtContext, SQL!Make, SQL!From, SQL!CopyInfo
    <2>7. QED
        BY <1>1, <2>4, <2>5, <2>6
<1>4. QED
    BY <1>2, <1>3

\* The statements of DB, Conn and Tx, which are given their text.
LEMMA PlainKeeps ==
    ASSUME SQLInv, HandlesKept, HandleInv', NEW h \in DOMAIN handles, handles[h].kind # "Stmt",
           NEW sql, NEW failed \in BOOLEAN, span' = SQL!Plain(h, sql, failed)
    PROVE  SQLInv'
<1>1. ~handles[h].was.mute /\ h \in 1..Len(handles)
    BY HandleTypes DEF Described
<1>2. SpanInv'
    BY <1>1, SpanMade DEF SQL!Plain
<1>3. QED
    BY <1>2 DEF SQLInv

\* Stmt's, whose text comes from the handle.
LEMMA StmtExecuteKeeps ==
    ASSUME SQLInv, NEW h \in DOMAIN handles, NEW failed \in BOOLEAN, SQL!StmtExecute(h, failed)
    PROVE  SQLInv'
<1>1. HandleInv' /\ HandlesKept
    BY HandlesUnchanged DEF SQL!StmtExecute
<1>2. handles[h].kind = "Stmt" /\ h \in 1..Len(handles)
    BY HandleTypes DEF SQL!StmtExecute, SQL!Of
<1>3. PICK s : s = handles[h].sql
    OBVIOUS
<1>4. PICK t : t = handles[h].was.text
    OBVIOUS
<1>5. s = IF handles[h].was.mute THEN SQL!NoInfo ELSE t
    BY <1>2, <1>3, <1>4, HandleTypes DEF Described
<1>6. span' = SQL!Statement(h, s, t, failed)
    BY <1>3, <1>4 DEF SQL!StmtExecute
<1>7. SpanInv'
    BY <1>1, <1>2, <1>5, <1>6, SpanMade
<1>8. QED
    BY <1>1, <1>7 DEF SQLInv

\* Commit and Rollback.
LEMMA FinishKeeps ==
    ASSUME SQLInv, NEW tx \in DOMAIN handles, handles[tx].kind = "Tx", NEW failed \in BOOLEAN,
           SQL!Finish(tx, failed)
    PROVE  SQLInv'
<1>1. PICK e : e = [handles[tx] EXCEPT !.open = failed]
    OBVIOUS
<1>2. /\ e \in Handles /\ e.kind = handles[tx].kind /\ e.conn = handles[tx].conn
      /\ e.sql = handles[tx].sql /\ e.was = handles[tx].was
    BY <1>1, HandleTypes DEF Handles
<1>3. Described(e)
    BY <1>2, HandleTypes DEF Described
<1>4. handles \in Seq(Handles) /\ Len(handles) \in Nat /\ tx \in 1..Len(handles)
    BY LenProperties, HandleTypes DEF SQLInv, HandleInv
<1>5. handles' = [handles EXCEPT ![tx] = e]
    BY <1>1 DEF SQL!Finish
<1>6. /\ handles' \in Seq(Handles) /\ Len(handles') = Len(handles) /\ handles'[tx] = e
      /\ \A h \in 1..Len(handles) : h # tx => handles'[h] = handles[h]
    BY <1>2, <1>4, <1>5, ExceptSeq
<1>7. HandlesKept
    BY <1>2, <1>4, <1>6 DEF HandlesKept
<1>8. HandleInv'
    BY <1>3, <1>6 DEF SQLInv, HandleInv
<1>9. QED
    BY <1>7, <1>8, PlainKeeps DEF SQL!Finish

SwitchInv == sqlEnabled \in BOOLEAN

LEMMA SQLNext == SQLInv /\ SwitchInv /\ SQL!Next => SQLInv'
<1> SUFFICES ASSUME SQLInv, SwitchInv, SQL!Next PROVE SQLInv'
    OBVIOUS
<1>1. ASSUME UNCHANGED handles PROVE HandleInv' /\ HandlesKept
    BY <1>1, HandlesUnchanged
<1>2. CASE SQL!Setenv
    BY <1>1, <1>2, SpanUnchanged DEF SQL!Setenv, SQLInv
<1>3. ASSUME NEW d \in Databases, SQL!Open(d) \/ \E tells \in BOOLEAN : SQL!OpenDB(d, tells)
      PROVE  SQLInv'
    <2>1. d \in Infos /\ SQL!NoInfo \in Infos
        BY DEF Infos
    <2>2. CASE SQL!Open(d)
        BY <2>1, <2>2, OpenKeeps DEF SQL!Open
    <2>3. ASSUME NEW tells \in BOOLEAN, SQL!OpenDB(d, tells) PROVE SQLInv'
        <3>1. CASE tells
            BY <2>1, <2>3, <3>1, OpenKeeps DEF SQL!OpenDB
        <3>2. CASE ~tells
            BY <2>1, <2>3, <3>2, OpenKeeps DEF SQL!OpenDB
        <3>3. QED
            BY <3>1, <3>2
    <2>4. QED
        BY <1>3, <2>2, <2>3
<1>4. ASSUME NEW h \in DOMAIN handles, handles[h].kind # "Stmt",
             SQL!BeginTx(h) \/ SQL!Conn(h) \/ SQL!ConnBeginTx(h)
      PROVE  SQLInv'
    <2>1. CASE SQL!Conn(h)
        BY <1>4, <2>1, DerivedKeeps DEF SQL!Conn
    <2>2. QED
        BY <1>4, <2>1, BeginTxKeeps DEF SwitchInv
<1>5. ASSUME NEW h \in DOMAIN handles, handles[h].kind # "Stmt", SQL!BeginTxFails(h)
      PROVE  SQLInv'
    BY <1>1, <1>5, PlainKeeps DEF SQL!BeginTxFails
<1>6. ASSUME NEW h \in DOMAIN handles, NEW q \in Queries,
             SQL!PrepareContext(h, q) \/ SQL!ConnPrepareContext(h, q) \/ SQL!TxPrepareContext(h, q)
      PROVE  SQLInv'
    BY <1>6, PreparedKeeps
       DEF SQL!PrepareContext, SQL!ConnPrepareContext, SQL!TxPrepareContext, SQL!Of
<1>7. ASSUME NEW tx \in DOMAIN handles, NEW stmt \in DOMAIN handles,
             handles[stmt].kind = "Stmt", SQL!StmtContext(tx, stmt)
      PROVE  SQLInv'
    BY <1>7, DerivedKeeps DEF SQL!StmtContext
<1>8. ASSUME NEW h \in DOMAIN handles, NEW q \in Queries, NEW failed \in BOOLEAN,
             SQL!Execute(h, q, failed) \/ SQL!ConnExecute(h, q, failed) \/ SQL!TxExecute(h, q, failed)
      PROVE  SQLInv'
    <2>1. handles[h].kind # "Stmt" /\ span' = SQL!Plain(h, q, failed) /\ UNCHANGED handles
        BY <1>8 DEF SQL!Execute, SQL!ConnExecute, SQL!TxExecute, SQL!Of
    <2>2. QED
        BY <1>1, <2>1, PlainKeeps
<1>9. ASSUME NEW h \in DOMAIN handles, NEW failed \in BOOLEAN, SQL!StmtExecute(h, failed)
      PROVE  SQLInv'
    BY <1>9, StmtExecuteKeeps
<1>10. ASSUME NEW tx \in DOMAIN handles, handles[tx].kind = "Tx", NEW failed \in BOOLEAN,
              SQL!Finish(tx, failed)
       PROVE  SQLInv'
    BY <1>10, FinishKeeps
<1>11. QED
    BY <1>2, <1>3, <1>4, <1>5, <1>6, <1>7, <1>8, <1>9, <1>10 DEF SQL!Next, SQL!Of

LEMMA SwitchKept == SwitchInv /\ SQL!Next => SwitchInv'
BY DEF SwitchInv, SQL!Next, SQL!Setenv, SQL!Open, SQL!OpenDB, SQL!Make, SQL!BeginTx, SQL!Conn,
    SQL!ConnBeginTx, SQL!BeginTxFails, SQL!PrepareContext, SQL!ConnPrepareContext,
    SQL!TxPrepareContext, SQL!Prepared, SQL!StmtContext, SQL!Execute, SQL!ConnExecute,
    SQL!TxExecute, SQL!StmtExecute, SQL!Finish

LEMMA SQLInvariance == OutboundSpec => [](SQLInv /\ SwitchInv)
<1>1. OutboundInit => SQLInv /\ SwitchInv
    BY DEF OutboundInit, SQL!Init, SQLInv, HandleInv, SpanInv, SwitchInv
<1>2. SQLInv /\ SwitchInv
          /\ [OutboundNext]_<<hooks, clientVars, rpcVars, sqlVars, readerVars, vars>>
      => (SQLInv /\ SwitchInv)'
    <2> SUFFICES ASSUME SQLInv, SwitchInv, SQL!Next \/ UNCHANGED sqlVars
                 PROVE  SQLInv' /\ SwitchInv'
        BY DEF OutboundNext
    <2>1. CASE SQL!Next
        BY <2>1, SQLNext, SwitchKept DEF SwitchInv
    <2>2. CASE UNCHANGED sqlVars
        BY <2>2, HandlesUnchanged, SpanUnchanged DEF sqlVars, SQLInv, SwitchInv
    <2>3. QED
        BY <2>1, <2>2
<1>3. QED
    BY <1>1, <1>2, PTL DEF OutboundSpec

\* BeginTx, Conn, Prepare and StmtContext, and the calls on what they make: along any
\* chain of handles, with any number of databases open, a span names the database its
\* statement ran on, or none, and shows the text that ran.
THEOREM SpansDescribeStatements == OutboundSpec => []SpanDescribesItsStatement
<1>1. SQLInv => SpanDescribesItsStatement
    <2> SUFFICES ASSUME SQLInv, span # SQL!NoSpan
                 PROVE  LET was == handles[span.handle].was
                        IN  /\ span.conn = IF was.bare THEN SQL!NoInfo ELSE was.of
                            /\ span.sql = IF was.mute THEN SQL!NoInfo ELSE span.text
        BY DEF SpanDescribesItsStatement, SQL!SpanDescribesItsStatement
    <2>1. span.handle \in 1..Len(handles) /\ Described(handles[span.handle])
        BY DEF SQLInv, SpanInv, HandleInv
    <2>2. QED
        BY <2>1 DEF SQLInv, SpanInv, Described
<1>2. QED
    BY <1>1, SQLInvariance, PTL

-----------------------------------------------------------------------------
(* gRPC: the spans of RPCs and the counters in their contexts.              *)

RPCs == [side : {"server", "client"}, span : Nat, gctx : Nat, done : BOOLEAN,
         out : Nat, in : Nat, sentByApp : Nat, gotByApp : Nat, reported : BOOLEAN,
         reportedOut : Nat, reportedIn : Nat]
RPCSpans == [ended : BOOLEAN, sampled : BOOLEAN, error : BOOLEAN, rpc : Nat, parent : Nat]

GRPCTypeOK == rpcs \in Seq(RPCs) /\ rpcSpans \in Seq(RPCSpans)

\* RPC i has a span and a context of its own, or those of the RPC its exporter call
\* was made in, which has its own; or none.
OwnsSpan(i) ==
    /\ rpcs[i].gctx = i /\ rpcs[i].span \in 1..Len(rpcSpans)
    /\ rpcSpans[rpcs[i].span].rpc = i
BorrowsSpan(i) ==
    LET c == rpcs[i].gctx
    IN  /\ rpcs[i].side = "client" /\ c # i
        /\ c # GRPC!NoRPC => /\ c \in 1..Len(rpcs) /\ rpcs[c].gctx = c
                             /\ rpcs[i].span = rpcs[c].span
LinkInv ==
    /\ \A i \in 1..Len(rpcs) : OwnsSpan(i) \/ BorrowsSpan(i)
    /\ \A s \in 1..Len(rpcSpans) :
          rpcSpans[s].rpc \in 1..Len(rpcs) /\ rpcs[rpcSpans[s].rpc].span = s
              /\ rpcs[rpcSpans[s].rpc].gctx = rpcSpans[s].rpc

\* While no exporter call borrows a span, it ends with its RPC if it is sampled, ...
EndInv ==
    \A s \in 1..Len(rpcSpans) :
        ~GRPC!Lent(rpcSpans[s].rpc) =>
            (rpcSpans[s].ended <=> rpcs[rpcSpans[s].rpc].done /\ rpcSpans[s].sampled)

\* ... and the counters are those of its own messages.
CountOK(i) ==
    ~GRPC!Lent(i) =>
        /\ rpcs[i].reported => rpcs[i].gctx = i /\ rpcs[i].done
        /\ rpcs[i].gctx = i => /\ rpcs[i].out = rpcs[i].sentByApp
                               /\ rpcs[i].in = rpcs[i].gotByApp
                               /\ rpcs[i].reported => /\ rpcs[i].reportedOut = rpcs[i].out
                                                      /\ rpcs[i].reportedIn = rpcs[i].in
CountInv == \A i \in 1..Len(rpcs) : CountOK(i)

GRPCInv == GRPCTypeOK /\ LinkInv /\ EndInv /\ CountInv

LEMMA GRPCTypes ==
    ASSUME GRPCTypeOK
    PROVE  /\ Len(rpcs) \in Nat /\ DOMAIN rpcs = 1..Len(rpcs)
           /\ \A i \in 1..Len(rpcs) : rpcs[i] \in RPCs
           /\ Len(rpcSpans) \in Nat /\ DOMAIN rpcSpans = 1..Len(rpcSpans)
           /\ \A s \in 1..Len(rpcSpans) : rpcSpans[s] \in RPCSpans
BY LenProperties, ElementOfSeq DEF GRPCTypeOK

\* RPCs stay linked to their spans and contexts.
SameLinks ==
    /\ Len(rpcs') = Len(rpcs) /\ Len(rpcSpans') = Len(rpcSpans)
    /\ \A i \in 1..Len(rpcs) : /\ rpcs'[i].side = rpcs[i].side /\ rpcs'[i].span = rpcs[i].span
                               /\ rpcs'[i].gctx = rpcs[i].gctx
    /\ \A s \in 1..Len(rpcSpans) : /\ rpcSpans'[s].rpc = rpcSpans[s].rpc
                                   /\ rpcSpans'[s].sampled = rpcSpans[s].sampled

LEMMA LinksKept ==
    ASSUME GRPCInv, SameLinks, GRPCTypeOK'
    PROVE  LinkInv' /\ \A i \in 1..Len(rpcs) : GRPC!Lent(i)' <=> GRPC!Lent(i)
<1>1. DOMAIN rpcs' = DOMAIN rpcs /\ DOMAIN rpcs = 1..Len(rpcs) /\ Len(rpcs) \in Nat
    BY GRPCTypes, LenProperties DEF GRPCInv, GRPCTypeOK, SameLinks
<1>2. ASSUME NEW i \in 1..Len(rpcs) PROVE GRPC!Lent(i)' <=> GRPC!Lent(i)
    BY <1>1 DEF GRPC!Lent, SameLinks
<1>3. ASSUME NEW i \in 1..Len(rpcs) PROVE (OwnsSpan(i) \/ BorrowsSpan(i))'
    <2>1. CASE OwnsSpan(i)
        BY <2>1 DEF OwnsSpan, SameLinks
    <2>2. CASE BorrowsSpan(i)
        BY <2>2 DEF BorrowsSpan, SameLinks
    <2>3. QED
        BY <2>1, <2>2 DEF GRPCInv, LinkInv
<1>4. ASSUME NEW s \in 1..Len(rpcSpans)
      PROVE  /\ rpcSpans'[s].rpc \in 1..Len(rpcs') /\ rpcs'[rpcSpans'[s].rpc].span = s
             /\ rpcs'[rpcSpans'[s].rpc].gctx = rpcSpans'[s].rpc
    BY DEF GRPCInv, LinkInv, SameLinks
<1>5. LinkInv'
    BY <1>3, <1>4 DEF LinkInv, SameLinks
<1>6. QED
    BY <1>2, <1>5

\* The same RPC, in the same state but for its counters.
SameRPC(e, f) ==
    /\ e.side = f.side /\ e.span = f.span /\ e.gctx = f.gctx /\ e.done = f.done
    /\ e.reported = f.reported /\ e.reportedOut = f.reportedOut /\ e.reportedIn = f.reportedIn

LEMMA OutPayloadEffect ==
    ASSUME GRPCInv, NEW i \in 1..Len(rpcs), GRPC!OutPayload(i)
    PROVE  /\ ~rpcs[i].done /\ rpcs' \in Seq(RPCs) /\ Len(rpcs') = Len(rpcs)
           /\ UNCHANGED rpcSpans
           /\ \A j \in 1..Len(rpcs) :
                 /\ SameRPC(rpcs'[j], rpcs[j])
                 /\ rpcs'[j].gotByApp = rpcs[j].gotByApp /\ rpcs'[j].in = rpcs[j].in
                 /\ rpcs'[j].sentByApp = rpcs[j].sentByApp + IF j = i THEN 1 ELSE 0
                 /\ rpcs'[j].out = rpcs[j].out + IF j = rpcs[i].gctx THEN 1 ELSE 0
<1>1. rpcs \in Seq(RPCs) /\ Len(rpcs) \in Nat /\ rpcs[i] \in RPCs
    BY GRPCTypes DEF GRPCInv, GRPCTypeOK
<1>2. PICK e : e = [rpcs[i] EXCEPT !.sentByApp = @ + 1]
    OBVIOUS
<1>3. /\ e \in RPCs /\ SameRPC(e, rpcs[i]) /\ e.sentByApp = rpcs[i].sentByApp + 1
      /\ e.gotByApp = rpcs[i].gotByApp /\ e.out = rpcs[i].out /\ e.in = rpcs[i].in
    <2>1. rpcs[i].sentByApp + 1 \in Nat
        <3>1. rpcs[i].sentByApp \in Nat
            BY <1>1 DEF RPCs
        <3>2. QED
            BY <3>1
    <2>2. e \in RPCs
        BY <1>1, <1>2, <2>1 DEF RPCs
    <2>3. SameRPC(e, rpcs[i])
        BY <1>1, <1>2 DEF RPCs, SameRPC
    <2>4. /\ e.sentByApp = rpcs[i].sentByApp + 1 /\ e.gotByApp = rpcs[i].gotByApp
          /\ e.out = rpcs[i].out /\ e.in = rpcs[i].in
        BY <1>1, <1>2 DEF RPCs
    <2>5. QED
        BY <2>2, <2>3, <2>4
<1>4. PICK r : r = [rpcs EXCEPT ![i] = e]
    OBVIOUS
<1>5. /\ r \in Seq(RPCs) /\ Len(r) = Len(rpcs) /\ r[i] = e
      /\ \A j \in 1..Len(rpcs) : j # i => r[j] = rpcs[j]
    BY <1>1, <1>3, <1>4, ExceptSeq
<1>6. PICK g \in Nat : g = rpcs[i].gctx
    BY <1>1 DEF RPCs
<1>7. r[i].gctx = g
    BY <1>3, <1>5, <1>6 DEF SameRPC
<1>8. ~rpcs[i].done /\ UNCHANGED rpcSpans /\ rpcs' = GRPC!Count(r, i, "out")
    BY <1>2, <1>4 DEF GRPC!OutPayload
<1>9. \A j \in 1..Len(rpcs) : rpcs[j] \in RPCs /\ rpcs[j].sentByApp \in Nat /\ rpcs[j].out \in Nat
    BY GRPCTypes DEF GRPCInv, RPCs
<1>10. CASE g = GRPC!NoRPC
    <2>1. rpcs' = r
        BY <1>7, <1>8, <1>10 DEF GRPC!Count
    <2>2. \A j \in 1..Len(rpcs) : j # g
        BY <1>10 DEF GRPC!NoRPC
    <2>3. QED
        BY <1>3, <1>5, <1>6, <1>8, <1>9, <2>1, <2>2 DEF SameRPC
<1>11. CASE g # GRPC!NoRPC
    <2>1. g \in 1..Len(rpcs)
        BY <1>6, <1>11 DEF GRPCInv, LinkInv, OwnsSpan, BorrowsSpan
    <2>2. r[g] \in RPCs
        BY <1>3, <1>5, <1>9, <2>1
    <2>3. PICK d : d = [r[g] EXCEPT !.out = @ + 1]
        OBVIOUS
    <2>4. /\ d \in RPCs /\ SameRPC(d, r[g]) /\ d.out = r[g].out + 1
          /\ d.gotByApp = r[g].gotByApp /\ d.sentByApp = r[g].sentByApp /\ d.in = r[g].in
        <3>1. r[g].out + 1 \in Nat
            BY <2>2 DEF RPCs
        <3>2. d \in RPCs
            BY <2>2, <2>3, <3>1 DEF RPCs
        <3>3. SameRPC(d, r[g])
            BY <2>2, <2>3 DEF RPCs, SameRPC
        <3>4. /\ d.out = r[g].out + 1 /\ d.gotByApp = r[g].gotByApp
              /\ d.sentByApp = r[g].sentByApp /\ d.in = r[g].in
            BY <2>2, <2>3 DEF RPCs
        <3>5. QED
            BY <3>2, <3>3, <3>4
    <2>5. rpcs' = [r EXCEPT ![g] = d]
        BY <1>7, <1>8, <1>11, <2>3 DEF GRPC!Count
    <2>6. /\ rpcs' \in Seq(RPCs) /\ Len(rpcs') = Len(rpcs) /\ rpcs'[g] = d
          /\ \A j \in 1..Len(rpcs) : j # g => rpcs'[j] = r[j]
        BY <1>5, <2>1, <2>4, <2>5, ExceptSeq
    <2>7. ASSUME NEW j \in 1..Len(rpcs)
          PROVE  /\ SameRPC(rpcs'[j], rpcs[j])
                 /\ rpcs'[j].gotByApp = rpcs[j].gotByApp /\ rpcs'[j].in = rpcs[j].in
                 /\ rpcs'[j].sentByApp = rpcs[j].sentByApp + IF j = i THEN 1 ELSE 0
                 /\ rpcs'[j].out = rpcs[j].out + IF j = g THEN 1 ELSE 0
        BY <1>3, <1>5, <1>9, <2>4, <2>6 DEF SameRPC
    <2>8. QED
        BY <1>6, <1>8, <2>6, <2>7
<1>12. QED
    BY <1>10, <1>11

LEMMA InPayloadEffect ==
    ASSUME GRPCInv, NEW i \in 1..Len(rpcs), GRPC!InPayload(i)
    PROVE  /\ ~rpcs[i].done /\ rpcs' \in Seq(RPCs) /\ Len(rpcs') = Len(rpcs)
           /\ UNCHANGED rpcSpans
           /\ \A j \in 1..Len(rpcs) :
                 /\ SameRPC(rpcs'[j], rpcs[j])
                 /\ rpcs'[j].sentByApp = rpcs[j].sentByApp /\ rpcs'[j].out = rpcs[j].out
                 /\ rpcs'[j].gotByApp = rpcs[j].gotByApp + IF j = i THEN 1 ELSE 0
                 /\ rpcs'[j].in = rpcs[j].in + IF j = rpcs[i].gctx THEN 1 ELSE 0
<1>1. rpcs \in Seq(RPCs) /\ Len(rpcs) \in Nat /\ rpcs[i] \in RPCs
    BY GRPCTypes DEF GRPCInv, GRPCTypeOK
<1>2. PICK e : e = [rpcs[i] EXCEPT !.gotByApp = @ + 1]
    OBVIOUS
<1>3. /\ e \in RPCs /\ SameRPC(e, rpcs[i]) /\ e.gotByApp = rpcs[i].gotByApp + 1
      /\ e.sentByApp = rpcs[i].sentByApp /\ e.in = rpcs[i].in /\ e.out = rpcs[i].out
    <2>1. rpcs[i].gotByApp + 1 \in Nat
        <3>1. rpcs[i].gotByApp \in Nat
            BY <1>1 DEF RPCs
        <3>2. QED
            BY <3>1
    <2>2. e \in RPCs
        BY <1>1, <1>2, <2>1 DEF RPCs
    <2>3. SameRPC(e, rpcs[i])
        BY <1>1, <1>2 DEF RPCs, SameRPC
    <2>4. /\ e.gotByApp = rpcs[i].gotByApp + 1 /\ e.sentByApp = rpcs[i].sentByApp
          /\ e.in = rpcs[i].in /\ e.out = rpcs[i].out
        BY <1>1, <1>2 DEF RPCs
    <2>5. QED
        BY <2>2, <2>3, <2>4
<1>4. PICK r : r = [rpcs EXCEPT ![i] = e]
    OBVIOUS
<1>5. /\ r \in Seq(RPCs) /\ Len(r) = Len(rpcs) /\ r[i] = e
      /\ \A j \in 1..Len(rpcs) : j # i => r[j] = rpcs[j]
    BY <1>1, <1>3, <1>4, ExceptSeq
<1>6. PICK g \in Nat : g = rpcs[i].gctx
    BY <1>1 DEF RPCs
<1>7. r[i].gctx = g
    BY <1>3, <1>5, <1>6 DEF SameRPC
<1>8. ~rpcs[i].done /\ UNCHANGED rpcSpans /\ rpcs' = GRPC!Count(r, i, "in")
    BY <1>2, <1>4 DEF GRPC!InPayload
<1>9. \A j \in 1..Len(rpcs) : rpcs[j] \in RPCs /\ rpcs[j].gotByApp \in Nat /\ rpcs[j].in \in Nat
    BY GRPCTypes DEF GRPCInv, RPCs
<1>10. CASE g = GRPC!NoRPC
    <2>1. rpcs' = r
        BY <1>7, <1>8, <1>10 DEF GRPC!Count
    <2>2. \A j \in 1..Len(rpcs) : j # g
        BY <1>10 DEF GRPC!NoRPC
    <2>3. QED
        BY <1>3, <1>5, <1>6, <1>8, <1>9, <2>1, <2>2 DEF SameRPC
<1>11. CASE g # GRPC!NoRPC
    <2>1. g \in 1..Len(rpcs)
        BY <1>6, <1>11 DEF GRPCInv, LinkInv, OwnsSpan, BorrowsSpan
    <2>2. r[g] \in RPCs
        BY <1>3, <1>5, <1>9, <2>1
    <2>3. PICK d : d = [r[g] EXCEPT !.in = @ + 1]
        OBVIOUS
    <2>4. /\ d \in RPCs /\ SameRPC(d, r[g]) /\ d.in = r[g].in + 1
          /\ d.sentByApp = r[g].sentByApp /\ d.gotByApp = r[g].gotByApp /\ d.out = r[g].out
        <3>1. r[g].in + 1 \in Nat
            BY <2>2 DEF RPCs
        <3>2. d \in RPCs
            BY <2>2, <2>3, <3>1 DEF RPCs
        <3>3. SameRPC(d, r[g])
            BY <2>2, <2>3 DEF RPCs, SameRPC
        <3>4. /\ d.in = r[g].in + 1 /\ d.sentByApp = r[g].sentByApp
              /\ d.gotByApp = r[g].gotByApp /\ d.out = r[g].out
            BY <2>2, <2>3 DEF RPCs
        <3>5. QED
            BY <3>2, <3>3, <3>4
    <2>5. rpcs' = [r EXCEPT ![g] = d]
        BY <1>7, <1>8, <1>11, <2>3 DEF GRPC!Count
    <2>6. /\ rpcs' \in Seq(RPCs) /\ Len(rpcs') = Len(rpcs) /\ rpcs'[g] = d
          /\ \A j \in 1..Len(rpcs) : j # g => rpcs'[j] = r[j]
        BY <1>5, <2>1, <2>4, <2>5, ExceptSeq
    <2>7. ASSUME NEW j \in 1..Len(rpcs)
          PROVE  /\ SameRPC(rpcs'[j], rpcs[j])
                 /\ rpcs'[j].sentByApp = rpcs[j].sentByApp /\ rpcs'[j].out = rpcs[j].out
                 /\ rpcs'[j].gotByApp = rpcs[j].gotByApp + IF j = i THEN 1 ELSE 0
                 /\ rpcs'[j].in = rpcs[j].in + IF j = g THEN 1 ELSE 0
        <3>1. /\ SameRPC(r[j], rpcs[j])
              /\ r[j].sentByApp = rpcs[j].sentByApp /\ r[j].out = rpcs[j].out
              /\ r[j].gotByApp = rpcs[j].gotByApp + IF j = i THEN 1 ELSE 0
              /\ r[j].in = rpcs[j].in
            BY <1>3, <1>5, <1>9 DEF SameRPC
        <3>2. /\ SameRPC(rpcs'[j], r[j])
              /\ rpcs'[j].sentByApp = r[j].sentByApp /\ rpcs'[j].out = r[j].out
              /\ rpcs'[j].gotByApp = r[j].gotByApp
              /\ rpcs'[j].in = r[j].in + IF j = g THEN 1 ELSE 0
            <4>1. CASE j = g
                BY <2>4, <2>6, <4>1
            <4>2. CASE j # g
                <5>1. r[j] \in RPCs /\ rpcs'[j] = r[j]
                    BY <1>3, <1>5, <1>9, <2>6, <4>2
                <5>2. r[j].in \in Nat
                    BY <5>1 DEF RPCs
                <5>3. QED
                    BY <4>2, <5>1, <5>2 DEF SameRPC
            <4>3. QED
                BY <4>1, <4>2
        <3>3. QED
            BY <3>1, <3>2 DEF SameRPC
    <2>8. QED
        BY <1>6, <1>8, <2>6, <2>7
<1>12. QED
    BY <1>10, <1>11

LEMMA PayloadKeeps ==
    ASSUME GRPCInv, NEW i \in 1..Len(rpcs), GRPC!OutPayload(i) \/ GRPC!InPayload(i)
    PROVE  GRPCInv'
<1>1. /\ ~rpcs[i].done /\ rpcs' \in Seq(RPCs) /\ Len(rpcs') = Len(rpcs)
      /\ UNCHANGED rpcSpans
      /\ \A j \in 1..Len(rpcs) : SameRPC(rpcs'[j], rpcs[j])
    BY OutPayloadEffect, InPayloadEffect
<1>2. SameLinks /\ GRPCTypeOK'
    BY <1>1 DEF SameLinks, SameRPC, GRPCInv, GRPCTypeOK
<1>3. LinkInv' /\ \A j \in 1..Len(rpcs) : GRPC!Lent(j)' <=> GRPC!Lent(j)
    BY <1>2, LinksKept
<1>4. EndInv'
    <2>1. \A s \in 1..Len(rpcSpans) : rpcSpans[s].rpc \in 1..Len(rpcs)
        BY DEF GRPCInv, LinkInv
    <2>2. QED
        BY <1>1, <1>3, <2>1 DEF GRPCInv, EndInv, SameRPC
<1>5. ASSUME NEW j \in 1..Len(rpcs), ~GRPC!Lent(j)
      PROVE  j = rpcs[i].gctx => j = i
    BY <1>5, GRPCTypes DEF GRPC!Lent, GRPCInv
<1>6. ASSUME NEW j \in 1..Len(rpcs) PROVE CountOK(j)'
    <2>1. CASE GRPC!Lent(j)
        BY <1>3, <2>1 DEF CountOK
    <2>2. CASE ~GRPC!Lent(j) /\ j # i
        <3>1. /\ SameRPC(rpcs'[j], rpcs[j]) /\ rpcs'[j].out = rpcs[j].out
              /\ rpcs'[j].in = rpcs[j].in /\ rpcs'[j].sentByApp = rpcs[j].sentByApp
              /\ rpcs'[j].gotByApp = rpcs[j].gotByApp
            <4>1. /\ rpcs[j].out \in Nat /\ rpcs[j].in \in Nat
                  /\ rpcs[j].sentByApp \in Nat /\ rpcs[j].gotByApp \in Nat
                BY GRPCTypes DEF GRPCInv, RPCs
            <4>2. QED
                BY <1>5, <2>2, <4>1, OutPayloadEffect, InPayloadEffect
        <3>2. QED
            BY <1>3, <2>2, <3>1 DEF GRPCInv, CountInv, CountOK, SameRPC
    <2>3. CASE ~GRPC!Lent(j) /\ j = i
        <3>1. ~rpcs[i].reported
            BY <1>1, <2>3 DEF GRPCInv, CountInv, CountOK
        <3>2. rpcs[i].gctx = i => /\ rpcs[i].out = rpcs[i].sentByApp
                                  /\ rpcs[i].in = rpcs[i].gotByApp
            BY <2>3 DEF GRPCInv, CountInv, CountOK
        <3>3. rpcs[i].gctx = i => /\ rpcs'[i].out = rpcs'[i].sentByApp
                                  /\ rpcs'[i].in = rpcs'[i].gotByApp
            BY <3>2, OutPayloadEffect, InPayloadEffect
        <3>4. SameRPC(rpcs'[i], rpcs[i])
            BY <1>1
        <3>5. QED
            BY <2>3, <3>1, <3>3, <3>4 DEF CountOK, SameRPC
    <2>4. QED
        BY <2>1, <2>2, <2>3
<1>7. QED
    BY <1>1, <1>2, <1>3, <1>4, <1>6 DEF GRPCInv, CountInv

\* What End of RPC i, with context g, does to RPC j.
EndEffect(i, g, j) ==
    /\ rpcs'[j].side = rpcs[j].side /\ rpcs'[j].span = rpcs[j].span
    /\ rpcs'[j].gctx = rpcs[j].gctx
    /\ rpcs'[j].out = rpcs[j].out /\ rpcs'[j].in = rpcs[j].in
    /\ rpcs'[j].sentByApp = rpcs[j].sentByApp /\ rpcs'[j].gotByApp = rpcs[j].gotByApp
    /\ rpcs'[j].done <=> j = i \/ rpcs[j].done
    /\ rpcs'[j].reported <=> j = g \/ rpcs[j].reported
    /\ rpcs'[j].reportedOut = IF j = g THEN rpcs[j].out ELSE rpcs[j].reportedOut
    /\ rpcs'[j].reportedIn = IF j = g THEN rpcs[j].in ELSE rpcs[j].reportedIn

LEMMA EndRPCEffect ==
    ASSUME GRPCInv, NEW i \in 1..Len(rpcs), NEW failed \in BOOLEAN, GRPC!EndRPC(i, failed)
    PROVE  /\ ~rpcs[i].done /\ rpcs' \in Seq(RPCs) /\ Len(rpcs') = Len(rpcs)
           /\ \A j \in 1..Len(rpcs) : EndEffect(i, rpcs[i].gctx, j)
<1>1. rpcs \in Seq(RPCs) /\ Len(rpcs) \in Nat /\ rpcs[i] \in RPCs
    BY GRPCTypes DEF GRPCInv, GRPCTypeOK
<1>2. PICK e : e = [rpcs[i] EXCEPT !.done = TRUE]
    OBVIOUS
<1>3. e \in RPCs /\ e.done
    BY <1>1, <1>2 DEF RPCs
<1>4. /\ e.side = rpcs[i].side /\ e.span = rpcs[i].span /\ e.gctx = rpcs[i].gctx
      /\ e.out = rpcs[i].out /\ e.in = rpcs[i].in /\ e.sentByApp = rpcs[i].sentByApp
      /\ e.gotByApp = rpcs[i].gotByApp /\ e.reported = rpcs[i].reported
      /\ e.reportedOut = rpcs[i].reportedOut /\ e.reportedIn = rpcs[i].reportedIn
    BY <1>1, <1>2 DEF RPCs
<1>5. PICK r : r = [rpcs EXCEPT ![i] = e]
    OBVIOUS
<1>6. /\ r \in Seq(RPCs) /\ Len(r) = Len(rpcs) /\ r[i] = e
      /\ \A j \in 1..Len(rpcs) : j # i => r[j] = rpcs[j]
    BY <1>1, <1>3, <1>5, ExceptSeq
<1>7. PICK g \in Nat : g = rpcs[i].gctx
    BY <1>1 DEF RPCs
<1>8. /\ ~rpcs[i].done
      /\ rpcs' = IF g = GRPC!NoRPC THEN r
                 ELSE [r EXCEPT ![g].reported = TRUE, ![g].reportedOut = r[g].out,
                                ![g].reportedIn = r[g].in]
    BY <1>2, <1>5, <1>7 DEF GRPC!EndRPC
<1>9. \A j \in 1..Len(rpcs) : rpcs[j] \in RPCs
    BY GRPCTypes DEF GRPCInv
<1>10. CASE g = GRPC!NoRPC
    <2>1. rpcs' = r
        BY <1>8, <1>10
    <2>2. \A j \in 1..Len(rpcs) : j # g
        BY <1>10 DEF GRPC!NoRPC
    <2>3. ASSUME NEW j \in 1..Len(rpcs) PROVE EndEffect(i, g, j)
        <3>1. CASE j = i
            BY <1>3, <1>4, <1>6, <2>1, <2>2, <3>1 DEF EndEffect
        <3>2. CASE j # i
            BY <1>6, <2>1, <2>2, <3>2 DEF EndEffect
        <3>3. QED
            BY <3>1, <3>2
    <2>4. QED
        BY <1>6, <1>7, <1>8, <2>1, <2>3
<1>11. CASE g # GRPC!NoRPC
    <2>1. g \in 1..Len(rpcs)
        BY <1>7, <1>11 DEF GRPCInv, LinkInv, OwnsSpan, BorrowsSpan
    <2>2. r[g] \in RPCs
        BY <1>3, <1>6, <1>9, <2>1
    <2>3. PICK d : d = [r[g] EXCEPT !.reported = TRUE, !.reportedOut = r[g].out,
                                    !.reportedIn = r[g].in]
        OBVIOUS
    <2>4. r[g].out \in Nat /\ r[g].in \in Nat
        BY <2>2 DEF RPCs
    <2>5. d \in RPCs
        BY <2>2, <2>3, <2>4 DEF RPCs
    <2>6. /\ d.side = r[g].side /\ d.span = r[g].span /\ d.gctx = r[g].gctx
          /\ d.out = r[g].out /\ d.in = r[g].in /\ d.sentByApp = r[g].sentByApp
          /\ d.gotByApp = r[g].gotByApp /\ d.done = r[g].done
        BY <2>2, <2>3 DEF RPCs
    <2>7. d.reported /\ d.reportedOut = r[g].out /\ d.reportedIn = r[g].in
        BY <2>2, <2>3 DEF RPCs
    <2>8. rpcs' = [r EXCEPT ![g] = d]
        <3>1. rpcs' = [r EXCEPT ![g].reported = TRUE, ![g].reportedOut = r[g].out,
                                ![g].reportedIn = r[g].in]
            BY <1>8, <1>11
        <3>2. QED
            BY <1>6, <2>1, <2>3, <3>1
    <2>9. /\ rpcs' \in Seq(RPCs) /\ Len(rpcs') = Len(rpcs) /\ rpcs'[g] = d
          /\ \A j \in 1..Len(rpcs) : j # g => rpcs'[j] = r[j]
        BY <1>6, <2>1, <2>5, <2>8, ExceptSeq
    <2>10. ASSUME NEW j \in 1..Len(rpcs) PROVE EndEffect(i, g, j)
        <3>1. CASE j = g
            <4>1. rpcs'[j] = d /\ r[j] = r[g]
                BY <2>9, <3>1
            <4>2. r[j].done <=> j = i \/ rpcs[j].done
                BY <1>3, <1>6
            <4>3. rpcs'[j].done <=> j = i \/ rpcs[j].done
                BY <2>6, <4>1, <4>2
            <4>4. rpcs'[j].reported <=> j = g \/ rpcs[j].reported
                BY <2>7, <3>1, <4>1
            <4>5. /\ rpcs'[j].side = rpcs[j].side /\ rpcs'[j].span = rpcs[j].span
                  /\ rpcs'[j].gctx = rpcs[j].gctx
                  /\ rpcs'[j].out = rpcs[j].out /\ rpcs'[j].in = rpcs[j].in
                  /\ rpcs'[j].sentByApp = rpcs[j].sentByApp
                  /\ rpcs'[j].gotByApp = rpcs[j].gotByApp
                BY <1>4, <1>6, <2>6, <4>1
            <4>6. rpcs'[j].reportedOut = rpcs[j].out /\ rpcs'[j].reportedIn = rpcs[j].in
                BY <1>4, <1>6, <2>7, <4>1
            <4>7. QED
                BY <3>1, <4>3, <4>4, <4>5, <4>6 DEF EndEffect
        <3>2. CASE j # g
            BY <1>3, <1>4, <1>6, <2>9, <3>2 DEF EndEffect
        <3>3. QED
            BY <3>1, <3>2
    <2>11. QED
        BY <1>7, <1>8, <2>9, <2>10
<1>12. QED
    BY <1>10, <1>11

\* The span that the End event reaches ends if it is sampled.
LEMMA EndRecordingEffect ==
    ASSUME GRPCInv, NEW i \in 1..Len(rpcs), NEW failed \in BOOLEAN, GRPC!EndRPC(i, failed)
    PROVE  /\ rpcSpans' \in Seq(RPCSpans) /\ Len(rpcSpans') = Len(rpcSpans)
           /\ \A s \in 1..Len(rpcSpans) :
                 /\ rpcSpans'[s].rpc = rpcSpans[s].rpc
                 /\ rpcSpans'[s].sampled = rpcSpans[s].sampled
                 /\ s = rpcs[i].span /\ rpcs[i].gctx # GRPC!NoRPC
                       => (rpcSpans'[s].ended <=> rpcSpans[s].ended \/ rpcSpans[s].sampled)
                 /\ ~(s = rpcs[i].span /\ rpcs[i].gctx # GRPC!NoRPC)
                       => rpcSpans'[s].ended = rpcSpans[s].ended
<1>1. rpcSpans \in Seq(RPCSpans) /\ Len(rpcSpans) \in Nat
    BY GRPCTypes DEF GRPCInv, GRPCTypeOK
<1>2. CASE rpcs[i].gctx = GRPC!NoRPC
    BY <1>1, <1>2 DEF GRPC!EndRPC
<1>3. CASE rpcs[i].gctx # GRPC!NoRPC
    <2>1. PICK s : s = rpcs[i].span
        OBVIOUS
    <2>2. s \in 1..Len(rpcSpans) /\ s # GRPC!NoParent
        BY <1>3, <2>1, GRPCTypes DEF GRPCInv, LinkInv, OwnsSpan, BorrowsSpan, GRPC!NoParent
    <2>3. rpcSpans' = GRPC!EndRecording(s, failed)
        BY <1>3, <2>1 DEF GRPC!EndRPC
    <2>4. rpcSpans[s] \in RPCSpans
        BY <2>2, GRPCTypes DEF GRPCInv
    <2>5. CASE GRPC!IsRecording(s)
        <3>1. PICK x \in BOOLEAN : x <=> (rpcSpans[s].error \/ ~rpcSpans[s].ended)
            OBVIOUS
        <3>2. x = (rpcSpans[s].error \/ ~rpcSpans[s].ended)
            BY <3>1
        <3>3. PICK e : e = [rpcSpans[s] EXCEPT !.error = x]
            OBVIOUS
        <3>4. /\ e \in RPCSpans /\ e.rpc = rpcSpans[s].rpc /\ e.sampled = rpcSpans[s].sampled
            BY <2>4, <3>1, <3>3 DEF RPCSpans
        <3>5. PICK log : log = IF failed THEN GRPC!SetError(rpcSpans, s) ELSE rpcSpans
            OBVIOUS
        <3>6. log = [rpcSpans EXCEPT ![s] = e] \/ log = rpcSpans
            BY <3>2, <3>3, <3>5 DEF GRPC!SetError
        <3>7. /\ log \in Seq(RPCSpans) /\ Len(log) = Len(rpcSpans)
              /\ log[s] \in RPCSpans
              /\ log[s].rpc = rpcSpans[s].rpc /\ log[s].sampled = rpcSpans[s].sampled
              /\ \A t \in 1..Len(rpcSpans) : t # s => log[t] = rpcSpans[t]
            BY <1>1, <2>2, <2>4, <3>4, <3>6, ExceptSeq
        <3>8. PICK d : d = [log[s] EXCEPT !.ended = TRUE]
            OBVIOUS
        <3>9. /\ d \in RPCSpans /\ d.rpc = rpcSpans[s].rpc /\ d.sampled = rpcSpans[s].sampled
              /\ d.ended
            BY <3>7, <3>8 DEF RPCSpans
        <3>10. rpcSpans' = [log EXCEPT ![s] = d]
            BY <2>2, <2>3, <2>5, <3>5, <3>8 DEF GRPC!EndRecording, GRPC!EndSpan
        <3>11. /\ rpcSpans' \in Seq(RPCSpans) /\ Len(rpcSpans') = Len(rpcSpans)
               /\ rpcSpans'[s] = d
               /\ \A t \in 1..Len(rpcSpans) : t # s => rpcSpans'[t] = rpcSpans[t]
            BY <2>2, <3>7, <3>9, <3>10, ExceptSeq
        <3>12. QED
            <4>1. rpcSpans[s].sampled /\ d.ended
                BY <2>5, <3>9 DEF GRPC!IsRecording
            <4>2. ASSUME NEW t \in 1..Len(rpcSpans)
                  PROVE  /\ rpcSpans'[t].rpc = rpcSpans[t].rpc
                         /\ rpcSpans'[t].sampled = rpcSpans[t].sampled
                         /\ t = s => rpcSpans'[t].ended
                         /\ t # s => rpcSpans'[t].ended = rpcSpans[t].ended
                BY <3>9, <3>11
            <4>3. QED
                BY <2>1, <1>3, <3>11, <4>1, <4>2
    <2>6. CASE ~GRPC!IsRecording(s)
        BY <1>1, <2>1, <2>3, <2>6 DEF GRPC!EndRecording, GRPC!IsRecording
    <2>7. QED
        BY <2>5, <2>6
<1>4. QED
    BY <1>2, <1>3

LEMMA EndRPCKeeps ==
    ASSUME GRPCInv, NEW i \in 1..Len(rpcs), NEW failed \in BOOLEAN, GRPC!EndRPC(i, failed)
    PROVE  GRPCInv'
<1>1. PICK g : g = rpcs[i].gctx
    OBVIOUS
<1>2. SameLinks /\ GRPCTypeOK'
    BY EndRPCEffect, EndRecordingEffect DEF EndEffect, SameLinks, GRPCTypeOK
<1>3. LinkInv' /\ \A j \in 1..Len(rpcs) : GRPC!Lent(j)' <=> GRPC!Lent(j)
    BY <1>2, LinksKept
<1>4. ASSUME NEW j \in 1..Len(rpcs), ~GRPC!Lent(j) PROVE j = g => j = i
    BY <1>1, <1>4, GRPCTypes DEF GRPC!Lent, GRPCInv
<1>5. \A s \in 1..Len(rpcSpans) :
          /\ rpcSpans[s].rpc \in 1..Len(rpcs) /\ rpcs[rpcSpans[s].rpc].span = s
          /\ rpcs[rpcSpans[s].rpc].gctx = rpcSpans[s].rpc
    BY DEF GRPCInv, LinkInv
\* Only its own End reaches the span of an RPC whose context is not lent.
<1>6. ASSUME NEW s \in 1..Len(rpcSpans), ~GRPC!Lent(rpcSpans[s].rpc)
      PROVE  (s = rpcs[i].span /\ g # GRPC!NoRPC) <=> rpcSpans[s].rpc = i
    <2>1. g \in 1..Len(rpcs) \/ g = GRPC!NoRPC
        BY <1>1 DEF GRPCInv, LinkInv, OwnsSpan, BorrowsSpan
    <2>2. rpcSpans[s].rpc = i => s = rpcs[i].span /\ g = i /\ i # GRPC!NoRPC
        BY <1>1, <1>5 DEF GRPC!NoRPC
    <2>3. ASSUME s = rpcs[i].span, g # GRPC!NoRPC PROVE rpcSpans[s].rpc = i
        <3>1. CASE OwnsSpan(i)
            BY <2>3, <3>1 DEF OwnsSpan
        <3>2. CASE BorrowsSpan(i)
            <4>1. g # i /\ rpcs[g].gctx = g /\ rpcs[i].span = rpcs[g].span
                BY <1>1, <2>3, <3>2 DEF BorrowsSpan
            <4>2. OwnsSpan(g)
                BY <2>1, <2>3, <4>1 DEF GRPCInv, LinkInv, BorrowsSpan
            <4>3. rpcSpans[s].rpc = g
                BY <2>3, <4>1, <4>2 DEF OwnsSpan
            <4>4. QED
                BY <1>4, <1>5, <1>6, <4>1, <4>3
        <3>3. QED
            BY <3>1, <3>2 DEF GRPCInv, LinkInv
    <2>4. QED
        BY <2>2, <2>3
<1>7. ASSUME NEW s \in 1..Len(rpcSpans), ~GRPC!Lent(rpcSpans[s].rpc)
      PROVE  rpcSpans'[s].ended <=> rpcs'[rpcSpans[s].rpc].done /\ rpcSpans'[s].sampled
    <2>1. rpcSpans[s].ended <=> rpcs[rpcSpans[s].rpc].done /\ rpcSpans[s].sampled
        BY <1>7 DEF GRPCInv, EndInv
    <2>2. CASE rpcSpans[s].rpc = i
        BY <1>1, <1>5, <1>6, <1>7, <2>1, <2>2, EndRPCEffect, EndRecordingEffect DEF EndEffect
    <2>3. CASE rpcSpans[s].rpc # i
        BY <1>1, <1>5, <1>6, <1>7, <2>1, <2>3, EndRPCEffect, EndRecordingEffect DEF EndEffect
    <2>4. QED
        BY <2>2, <2>3
<1>8. EndInv'
    BY <1>2, <1>3, <1>5, <1>7 DEF EndInv, SameLinks
<1>9. ASSUME NEW j \in 1..Len(rpcs) PROVE CountOK(j)'
    <2>1. CASE GRPC!Lent(j)
        BY <1>3, <2>1 DEF CountOK
    <2>2. CASE ~GRPC!Lent(j) /\ j # g
        BY <1>1, <1>3, <2>2, EndRPCEffect DEF EndEffect, GRPCInv, CountInv, CountOK
    <2>3. CASE ~GRPC!Lent(j) /\ j = g
        BY <1>1, <1>3, <1>4, <2>3, EndRPCEffect DEF EndEffect, GRPCInv, CountInv, CountOK
    <2>4. QED
        BY <2>1, <2>2, <2>3
<1>10. QED
    BY <1>2, <1>3, <1>8, <1>9 DEF GRPCInv, CountInv, SameLinks

\* A new RPC at the end of rpcs.
LEMMA RPCAdded ==
    ASSUME GRPCInv, NEW side \in {"server", "client"}, NEW s \in Nat, NEW g \in Nat,
           rpcs' = Append(rpcs, GRPC!NewRPC(side, s, g))
    PROVE  /\ rpcs' \in Seq(RPCs) /\ Len(rpcs') = Len(rpcs) + 1 /\ Len(rpcs) \in Nat
           /\ \A i \in 1..Len(rpcs) : rpcs'[i] = rpcs[i]
           /\ rpcs'[Len(rpcs) + 1].side = side
           /\ rpcs'[Len(rpcs) + 1].span = s /\ rpcs'[Len(rpcs) + 1].gctx = g
           /\ ~rpcs'[Len(rpcs) + 1].done /\ ~rpcs'[Len(rpcs) + 1].reported
           /\ rpcs'[Len(rpcs) + 1].out = rpcs'[Len(rpcs) + 1].sentByApp
           /\ rpcs'[Len(rpcs) + 1].in = rpcs'[Len(rpcs) + 1].gotByApp
           /\ \A i \in 1..Len(rpcs) : (GRPC!Lent(i)' <=> GRPC!Lent(i) \/ g = i)
           /\ \A i \in 1..Len(rpcs') : i = Len(rpcs) + 1 \/ i \in 1..Len(rpcs)
<1>1. PICK e : e = GRPC!NewRPC(side, s, g)
    OBVIOUS
<1>2. /\ e \in RPCs /\ e.side = side /\ e.span = s /\ e.gctx = g /\ e.done = FALSE
      /\ e.reported = FALSE /\ e.out = 0 /\ e.in = 0 /\ e.sentByApp = 0 /\ e.gotByApp = 0
    BY <1>1 DEF GRPC!NewRPC, RPCs
<1>3. rpcs \in Seq(RPCs) /\ Len(rpcs) \in Nat
    BY GRPCTypes DEF GRPCInv, GRPCTypeOK
<1>4. /\ rpcs' \in Seq(RPCs) /\ Len(rpcs') = Len(rpcs) + 1 /\ rpcs'[Len(rpcs) + 1] = e
      /\ \A i \in 1..Len(rpcs) : rpcs'[i] = rpcs[i]
    BY <1>1, <1>2, <1>3, AppendProperties
<1>5. DOMAIN rpcs = 1..Len(rpcs) /\ DOMAIN rpcs' = 1..Len(rpcs')
    BY <1>3, <1>4, LenProperties
<1>6. \A i \in 1..Len(rpcs') : i = Len(rpcs) + 1 \/ i \in 1..Len(rpcs)
    BY <1>3, <1>4
<1>7. ASSUME NEW i \in 1..Len(rpcs) PROVE GRPC!Lent(i)' <=> GRPC!Lent(i) \/ g = i
    <2>1. i # Len(rpcs) + 1 /\ Len(rpcs) + 1 \in 1..Len(rpcs')
        BY <1>3, <1>4
    <2>2. \A j \in 1..Len(rpcs) : j \in 1..Len(rpcs')
        BY <1>3, <1>4
    <2>3. QED
        BY <1>2, <1>4, <1>5, <1>6, <2>1, <2>2 DEF GRPC!Lent
<1>8. QED
    BY <1>2, <1>3, <1>4, <1>6, <1>7

LEMMA GRPCParent ==
    ASSUME GRPCTypeOK, NEW ctx \in Nat PROVE GRPC!SpanFromContext(rpcSpans, ctx) \in Nat
<1>1. PICK n \in Nat : n = Len(rpcSpans)
    BY GRPCTypes
<1>2. PICK L : L = {i \in DOMAIN rpcSpans : ~rpcSpans[i].ended}
    OBVIOUS
<1>3. L \in SUBSET (0..n)
    BY <1>1, <1>2, GRPCTypes
<1>4. PICK c : c = CHOOSE i \in L : \A j \in L : j <= i
    OBVIOUS
<1>5. ASSUME L # {} PROVE c \in Nat
    <2>1. c \in L
        BY <1>3, <1>4, <1>5, ChosenGreatest
    <2>2. QED
        BY <1>3, <2>1
<1>6. QED
    BY <1>2, <1>4, <1>5 DEF GRPC!SpanFromContext, GRPC!Current, GRPC!Live, GRPC!NoParent

\* ServerTagRPC and ClientTagRPC.
LEMMA StartRPCKeeps ==
    ASSUME GRPCInv, NEW side \in {"server", "client"}, NEW ctx \in Nat,
           NEW incoming \in GRPC!Incoming, GRPC!StartRPC(side, ctx, incoming)
    PROVE  GRPCInv'
<1>1. PICK n \in Nat : n = Len(rpcs)
    BY GRPCTypes DEF GRPCInv
<1>2. PICK m \in Nat : m = Len(rpcSpans)
    BY GRPCTypes DEF GRPCInv
<1>3. PICK parent \in Nat :
          parent = IF incoming # "nothing" THEN GRPC!NoParent
                   ELSE GRPC!SpanFromContext(rpcSpans, ctx)
    BY GRPCParent DEF GRPCInv, GRPC!NoParent
<1>4. PICK sampled \in BOOLEAN : sampled = GRPC!Sampled(parent, incoming)
    BY DEF GRPC!Sampled
<1>5. PICK e : e = [ended |-> FALSE, sampled |-> sampled, error |-> FALSE, rpc |-> n + 1,
                    parent |-> parent]
    OBVIOUS
<1>6. e \in RPCSpans /\ ~e.ended /\ e.rpc = n + 1
    BY <1>5 DEF RPCSpans
<1>7. rpcSpans' = Append(rpcSpans, e) /\ rpcs' = Append(rpcs, GRPC!NewRPC(side, m + 1, n + 1))
    BY <1>1, <1>2, <1>3, <1>4, <1>5 DEF GRPC!StartRPC
<1>8. /\ rpcSpans' \in Seq(RPCSpans) /\ Len(rpcSpans') = m + 1 /\ rpcSpans'[m + 1] = e
      /\ \A s \in 1..m : rpcSpans'[s] = rpcSpans[s]
      /\ \A s \in 1..(m + 1) : s = m + 1 \/ s \in 1..m
    BY <1>2, <1>6, <1>7, AppendProperties DEF GRPCInv, GRPCTypeOK
<1>9. /\ rpcs' \in Seq(RPCs) /\ Len(rpcs') = n + 1
      /\ \A i \in 1..n : rpcs'[i] = rpcs[i]
      /\ rpcs'[n + 1].span = m + 1 /\ rpcs'[n + 1].gctx = n + 1
      /\ ~rpcs'[n + 1].done /\ ~rpcs'[n + 1].reported
      /\ rpcs'[n + 1].out = rpcs'[n + 1].sentByApp
      /\ rpcs'[n + 1].in = rpcs'[n + 1].gotByApp
      /\ \A i \in 1..n : (GRPC!Lent(i)' <=> GRPC!Lent(i))
      /\ \A i \in 1..(n + 1) : i = n + 1 \/ i \in 1..n
    BY <1>1, <1>7, RPCAdded
<1>10. \A s \in 1..m : rpcSpans[s].rpc \in 1..n
    BY <1>1, <1>2 DEF GRPCInv, LinkInv
<1>11. LinkInv'
    <2>1. ASSUME NEW i \in 1..n PROVE (OwnsSpan(i) \/ BorrowsSpan(i))'
        <3>1. CASE OwnsSpan(i)
            BY <1>1, <1>2, <1>8, <1>9, <3>1 DEF OwnsSpan
        <3>2. CASE BorrowsSpan(i)
            BY <1>1, <1>9, <3>2 DEF BorrowsSpan
        <3>3. QED
            BY <1>1, <3>1, <3>2 DEF GRPCInv, LinkInv
    <2>2. OwnsSpan(n + 1)'
        BY <1>6, <1>8, <1>9 DEF OwnsSpan
    <2>3. ASSUME NEW s \in 1..(m + 1)
          PROVE  /\ rpcSpans'[s].rpc \in 1..(n + 1) /\ rpcs'[rpcSpans'[s].rpc].span = s
                 /\ rpcs'[rpcSpans'[s].rpc].gctx = rpcSpans'[s].rpc
        <3>1. CASE s = m + 1
            BY <1>6, <1>8, <1>9, <3>1
        <3>2. CASE s \in 1..m
            BY <1>1, <1>2, <1>8, <1>9, <3>2, SMTT(30) DEF GRPCInv, LinkInv
        <3>3. QED
            BY <1>8, <3>1, <3>2
    <2>4. QED
        BY <1>8, <1>9, <2>1, <2>2, <2>3 DEF LinkInv
<1>12. EndInv'
    <2>1. ASSUME NEW s \in 1..m
          PROVE  ~GRPC!Lent(rpcSpans[s].rpc)' =>
                     (rpcSpans'[s].ended <=> rpcs'[rpcSpans'[s].rpc].done /\ rpcSpans'[s].sampled)
        <3>1. PICK i \in 1..n : i = rpcSpans[s].rpc
            BY <1>10
        <3>2. rpcSpans'[s] = rpcSpans[s] /\ rpcs'[i] = rpcs[i] /\ rpcSpans'[s].rpc = i
            BY <1>8, <1>9, <3>1
        <3>3. ~GRPC!Lent(i)' => ~GRPC!Lent(rpcSpans[s].rpc)
            BY <1>9, <3>1
        <3>4. GRPC!Lent(rpcSpans[s].rpc)' <=> GRPC!Lent(i)'
            BY <3>2
        <3>5. QED
            BY <1>2, <3>1, <3>2, <3>3, <3>4 DEF GRPCInv, EndInv
    <2>2. ~rpcSpans'[m + 1].ended /\ ~rpcs'[rpcSpans'[m + 1].rpc].done
        BY <1>6, <1>8, <1>9
    <2>3. QED
        BY <1>8, <2>1, <2>2 DEF EndInv
<1>13. CountInv'
    <2>1. ASSUME NEW i \in 1..n PROVE CountOK(i)'
        BY <1>1, <1>9 DEF GRPCInv, CountInv, CountOK
    <2>2. CountOK(n + 1)'
        BY <1>9 DEF CountOK
    <2>3. QED
        BY <1>9, <2>1, <2>2 DEF CountInv
<1>14. QED
    BY <1>8, <1>9, <1>11, <1>12, <1>13 DEF GRPCInv, GRPCTypeOK

LEMMA ExporterTagRPCKeeps ==
    ASSUME GRPCInv, NEW c \in {GRPC!NoRPC} \cup GRPC!Active("server"), GRPC!ExporterTagRPC(c)
    PROVE  GRPCInv'
<1>1. PICK n \in Nat : n = Len(rpcs)
    BY GRPCTypes DEF GRPCInv
<1>2. c \in Nat /\ (c = GRPC!NoRPC \/ (c \in 1..n /\ OwnsSpan(c)))
    BY <1>1, GRPCTypes DEF GRPC!Active, GRPC!NoRPC, GRPCInv, LinkInv, BorrowsSpan
<1>3. PICK s : s = GRPC!SpanOf(c)
    OBVIOUS
<1>4. s \in Nat /\ (c # GRPC!NoRPC => s = rpcs[c].span)
    BY <1>2, <1>3, GRPCTypes DEF GRPC!SpanOf, GRPC!NoParent, OwnsSpan, GRPCInv
<1>5. UNCHANGED rpcSpans /\ rpcs' = Append(rpcs, GRPC!NewRPC("client", s, c))
    BY <1>3 DEF GRPC!ExporterTagRPC
<1>6. /\ rpcs' \in Seq(RPCs) /\ Len(rpcs') = n + 1
      /\ \A i \in 1..n : rpcs'[i] = rpcs[i]
      /\ rpcs'[n + 1].side = "client" /\ rpcs'[n + 1].span = s /\ rpcs'[n + 1].gctx = c
      /\ ~rpcs'[n + 1].reported
      /\ \A i \in 1..n : (GRPC!Lent(i)' <=> GRPC!Lent(i) \/ c = i)
      /\ \A i \in 1..(n + 1) : i = n + 1 \/ i \in 1..n
    BY <1>1, <1>2, <1>4, <1>5, RPCAdded
<1>7. \A t \in 1..Len(rpcSpans) : rpcSpans[t].rpc \in 1..n
    BY <1>1 DEF GRPCInv, LinkInv
<1>8. LinkInv'
    <2>1. ASSUME NEW i \in 1..n PROVE (OwnsSpan(i) \/ BorrowsSpan(i))'
        <3>1. CASE OwnsSpan(i)
            BY <1>5, <1>6, <3>1 DEF OwnsSpan
        <3>2. CASE BorrowsSpan(i)
            BY <1>1, <1>6, <3>2 DEF BorrowsSpan
        <3>3. QED
            BY <1>1, <3>1, <3>2 DEF GRPCInv, LinkInv
    <2>2. BorrowsSpan(n + 1)'
        <3>1. c # n + 1
            BY <1>2 DEF GRPC!NoRPC
        <3>2. QED
            BY <1>2, <1>4, <1>6, <3>1 DEF BorrowsSpan, OwnsSpan
    <2>3. ASSUME NEW t \in 1..Len(rpcSpans)
          PROVE  /\ rpcSpans[t].rpc \in 1..(n + 1) /\ rpcs'[rpcSpans[t].rpc].span = t
                 /\ rpcs'[rpcSpans[t].rpc].gctx = rpcSpans[t].rpc
        BY <1>1, <1>6 DEF GRPCInv, LinkInv
    <2>4. QED
        BY <1>5, <1>6, <2>1, <2>2, <2>3 DEF LinkInv
<1>9. EndInv'
    BY <1>5, <1>6, <1>7 DEF GRPCInv, EndInv
<1>10. CountInv'
    <2>1. ASSUME NEW i \in 1..n PROVE CountOK(i)'
        BY <1>1, <1>6 DEF GRPCInv, CountInv, CountOK
    <2>2. CountOK(n + 1)'
        <3>1. c # n + 1
            BY <1>2 DEF GRPC!NoRPC
        <3>2. QED
            BY <1>6, <3>1 DEF CountOK
    <2>3. QED
        BY <1>6, <2>1, <2>2 DEF CountInv
<1>11. QED
    BY <1>5, <1>6, <1>8, <1>9, <1>10 DEF GRPCInv, GRPCTypeOK

LEMMA GRPCNext == GRPCInv /\ (GRPC!Next \/ UNCHANGED rpcVars) => GRPCInv'
<1> SUFFICES ASSUME GRPCInv, GRPC!Next \/ UNCHANGED rpcVars PROVE GRPCInv'
    OBVIOUS
<1>1. CASE UNCHANGED rpcVars
    <2>1. UNCHANGED <<rpcs, rpcSpans>>
        BY <1>1 DEF rpcVars
    <2>2. SameLinks /\ GRPCTypeOK'
        BY <2>1 DEF SameLinks, GRPCInv, GRPCTypeOK
    <2>3. LinkInv' /\ \A j \in 1..Len(rpcs) : GRPC!Lent(j)' <=> GRPC!Lent(j)
        BY <2>2, LinksKept
    <2>4. \A s \in 1..Len(rpcSpans) : rpcSpans[s].rpc \in 1..Len(rpcs)
        BY DEF GRPCInv, LinkInv
    <2>5. EndInv' /\ CountInv'
        BY <2>1, <2>3, <2>4 DEF GRPCInv, EndInv, CountInv, CountOK
    <2>6. QED
        BY <2>2, <2>3, <2>5 DEF GRPCInv
<1>2. ASSUME NEW incoming \in GRPC!Incoming, GRPC!ServerTagRPC(incoming) PROVE GRPCInv'
    BY <1>2, StartRPCKeeps DEF GRPC!ServerTagRPC, GRPC!NoParent
<1>3. ASSUME NEW c \in {GRPC!NoRPC} \cup GRPC!Active("server"), GRPC!ClientTagRPC(c)
      PROVE  GRPCInv'
    <2>1. PICK s : s = GRPC!SpanOf(c)
        OBVIOUS
    <2>2. s \in Nat
        <3>1. c # GRPC!NoRPC => rpcs[c] \in RPCs
            BY GRPCTypes DEF GRPC!Active, GRPCInv
        <3>2. c # GRPC!NoRPC => rpcs[c].span \in Nat
            BY <3>1 DEF RPCs
        <3>3. QED
            BY <2>1, <3>2 DEF GRPC!SpanOf, GRPC!NoParent
    <2>3. "nothing" \in GRPC!Incoming
        BY DEF GRPC!Incoming
    <2>4. QED
        BY <1>3, <2>1, <2>2, <2>3, StartRPCKeeps DEF GRPC!ClientTagRPC
<1>4. ASSUME NEW c \in {GRPC!NoRPC} \cup GRPC!Active("server"), GRPC!ExporterTagRPC(c)
      PROVE  GRPCInv'
    BY <1>4, ExporterTagRPCKeeps
<1>5. ASSUME NEW i \in DOMAIN rpcs, GRPC!OutPayload(i) \/ GRPC!InPayload(i) PROVE GRPCInv'
    BY <1>5, GRPCTypes, PayloadKeeps DEF GRPCInv
<1>6. ASSUME NEW i \in DOMAIN rpcs, NEW failed \in BOOLEAN, GRPC!EndRPC(i, failed) PROVE GRPCInv'
    BY <1>6, GRPCTypes, EndRPCKeeps DEF GRPCInv
<1>7. QED
    BY <1>1, <1>2, <1>3, <1>4, <1>5, <1>6 DEF GRPC!Next

\* TagRPC and HandleRPC: the span of an RPC ends with it, and counts its messages,
\* whatever RPCs run inside it, unless its context was lent to an exporter's call.
THEOREM SpansLiveWithRPCs == OutboundSpec => []SpanLivesWithItsRPC
<1>1. OutboundInit => GRPCInv
    BY DEF OutboundInit, GRPC!Init, GRPCInv, GRPCTypeOK, LinkInv, EndInv, CountInv
<1>2. GRPCInv /\ [OutboundNext]_<<hooks, clientVars, rpcVars, sqlVars, readerVars, vars>>
      => GRPCInv'
    BY GRPCNext DEF OutboundNext
<1>3. GRPCInv => SpanLivesWithItsRPC
    <2> SUFFICES ASSUME GRPCInv PROVE GRPC!SpanEndsWithItsRPC /\ GRPC!CountsAreItsOwn
        BY DEF SpanLivesWithItsRPC, GRPC!SpanLivesWithItsRPC
    <2>1. GRPC!SpanEndsWithItsRPC
        BY GRPCTypes DEF GRPCInv, EndInv, GRPC!SpanEndsWithItsRPC
    <2>2. GRPC!CountsAreItsOwn
        BY GRPCTypes DEF GRPCInv, CountInv, CountOK, GRPC!CountsAreItsOwn
    <2>3. QED
        BY <2>1, <2>2
<1>4. QED
    BY <1>1, <1>2, <1>3, PTL DEF OutboundSpec

-----------------------------------------------------------------------------
(* Calls that nest on one goroutine.                                        *)

Fns == Client!Fns
SpanFns == Fns \cup {"app"}
Outcomes == Client!Results \cup {"running"}
Spans == [fn : SpanFns, parent : Nat, ended : BOOLEAN, error : BOOLEAN, outcome : Outcomes]
Frames == [fn : Fns, span : Nat, ctx : Nat, quiet : BOOLEAN, detached : BOOLEAN]

ClientTypeOK == spans \in Seq(Spans) /\ frames \in Seq(Frames) /\ header \in Nat

\* The span of a call under way is live, and younger than those further out.
FrameInv ==
    /\ \A k \in 1..Len(frames) : frames[k].span # 0 =>
          /\ frames[k].span \in 1..Len(spans) /\ ~spans[frames[k].span].ended
          /\ spans[frames[k].span].fn = frames[k].fn
    /\ \A j, k \in 1..Len(frames) :
          (j < k /\ frames[j].span # 0 /\ frames[k].span # 0) => frames[j].span < frames[k].span

\* The application has one span at most, older than those.
AppInv ==
    /\ \A a, b \in Client!AppSpans : a = b
    /\ \A a \in Client!AppSpans, k \in 1..Len(frames) : frames[k].span # 0 => a < frames[k].span

\* Nothing else is live; what is live has not failed.
LiveInv ==
    \A i \in 1..Len(spans) : ~spans[i].ended =>
        /\ ~spans[i].error
        /\ i \in Client!AppSpans \/ \E k \in 1..Len(frames) : frames[k].span = i

\* Span p is that of the innermost instrumented call around depth k, or else the
\* application's, or none.
Encloses(p, k) ==
    \/ \E j \in 1..(k - 1) : /\ frames[j].span # 0 /\ p = frames[j].span
                             /\ \A i \in (j + 1)..(k - 1) : frames[i].span = 0
    \/ /\ \A j \in 1..(k - 1) : frames[j].span = 0
       /\ p \in Client!AppSpans \/ (Client!AppSpans = {} /\ p = 0)

\* The context inside a call is that of the innermost span, or has none.
CtxInv == \A k \in 1..Len(frames) : frames[k].ctx = 0 \/ Encloses(frames[k].ctx, k + 1)

\* The spans of the calls under way are where the calls are.
TreeInv ==
    \A k \in 1..Len(frames) :
        (frames[k].span # 0 /\ ~frames[k].detached) => Encloses(spans[frames[k].span].parent, k)

\* No span hangs below PerformRequest's, nor will one of a request sent again.
ParentInv ==
    /\ \A i \in 1..Len(spans) : LET p == spans[i].parent IN
          p # 0 => p \in 1..Len(spans) /\ spans[p].fn # "PerformRequest"
    /\ header # 0 => header \in 1..Len(spans) /\ spans[header].fn = "RoundTrip"

\* What can be inside of what.
ElasticInv ==
    \A k \in 1..Len(frames) : frames[k].fn = "PerformRequest" =>
        /\ k = 1 /\ (frames[1].span # 0 => frames[1].quiet)
        /\ Len(frames) = 1 \/ (Len(frames) = 2 /\ frames[2].fn = "RoundTrip")
NestingInv ==
    \A k \in 1..Len(frames) :
        /\ frames[k].fn = "processDeltasInBatch" => k = 1
        /\ frames[k].fn = "processDeltas" =>
               k = 1 \/ (k = 2 /\ frames[1].fn = "processDeltasInBatch")
        /\ frames[k].fn \in Client!Processing =>
               /\ frames[k].span # 0 <=> "k8s" \in enabled
               /\ \A i \in k..Len(frames) : frames[i].fn \in Client!Processing \cup {"OnEvent"}
        /\ frames[k].fn = "OnEvent" => frames[1].fn \in Client!Processing

\* A span that is over is marked if its call failed.
MarkInv ==
    \A i \in 1..Len(spans) : (spans[i].fn \in Fns \ {"doRequest"} /\ spans[i].ended) =>
        (spans[i].error <=> spans[i].outcome \in {"status", "error"})

StackInv == FrameInv /\ AppInv /\ LiveInv /\ CtxInv /\ TreeInv
ShapeInv == ElasticInv /\ NestingInv
ClientInv == ClientTypeOK /\ StackInv /\ ParentInv /\ ShapeInv /\ MarkInv

LEMMA ClientTypes ==
    ASSUME ClientTypeOK
    PROVE  /\ Len(spans) \in Nat /\ DOMAIN spans = 1..Len(spans)
           /\ \A i \in 1..Len(spans) : spans[i] \in Spans
           /\ Len(frames) \in Nat /\ DOMAIN frames = 1..Len(frames)
           /\ \A k \in 1..Len(frames) : frames[k] \in Frames
BY LenProperties, ElementOfSeq DEF ClientTypeOK

LEMMA AppSpansAre ==
    ASSUME ClientTypeOK
    PROVE  Client!AppSpans = {i \in 1..Len(spans) : ~spans[i].ended /\ spans[i].fn = "app"}
BY ClientTypes DEF Client!AppSpans, Client!Live

LEMMA EnclosesStays ==
    ASSUME NEW p, NEW k \in Nat, Client!AppSpans' = Client!AppSpans,
           \A j \in 1..(k - 1) : frames'[j].span = frames[j].span
    PROVE  Encloses(p, k)' <=> Encloses(p, k)
BY DEF Encloses

\* An enclosing span is one.
LEMMA EnclosingIsSpan ==
    ASSUME ClientTypeOK, FrameInv, NEW k \in 1..(Len(frames) + 1), NEW p, Encloses(p, k), p # 0
    PROVE  p \in 1..Len(spans) /\ (spans[p].fn = "app" \/ \E j \in 1..(k - 1) : frames[j].span = p)
<1>1. Len(frames) \in Nat
    BY ClientTypes
<1>2. CASE p \in Client!AppSpans
    BY <1>2, AppSpansAre
<1>3. ASSUME NEW j \in 1..(k - 1), p = frames[j].span PROVE p \in 1..Len(spans) /\ frames[j].span = p
    <2>1. j \in 1..Len(frames)
        BY <1>1
    <2>2. QED
        BY <1>3, <2>1 DEF FrameInv
<1>4. QED
    BY <1>2, <1>3 DEF Encloses

\* The innermost live span is that of the innermost call.
LEMMA CurrentEncloses ==
    ASSUME ClientTypeOK, FrameInv, AppInv, LiveInv
    PROVE  Encloses(Client!Current(spans), Len(frames) + 1)
<1>1. PICK n \in Nat : n = Len(frames)
    BY ClientTypes
<1>2. PICK L : L = {i \in DOMAIN spans : ~spans[i].ended}
    OBVIOUS
<1>3. L \in SUBSET (0..Len(spans)) /\ \A i \in 1..Len(spans) : i \in L <=> ~spans[i].ended
    BY <1>2, ClientTypes
<1>4. PICK c : c = IF L = {} THEN 0 ELSE CHOOSE i \in L : \A j \in L : j <= i
    OBVIOUS
<1>5. Client!Current(spans) = c
    BY <1>2, <1>4 DEF Client!Current, Client!Live, Client!NoParent
<1>6. \A k \in 1..n : frames[k].span # 0 => frames[k].span \in L
    BY <1>1, <1>2, ClientTypes DEF FrameInv
<1>7. \A a \in Client!AppSpans : a \in L
    BY <1>3, AppSpansAre
<1> DEFINE m == n + 1
<1>8. m \in Nat /\ 1..(m - 1) = 1..n
    OBVIOUS
<1> HIDE DEF m
<1>9. ASSUME L = {} PROVE Encloses(c, m)
    <2>1. c = 0 /\ Client!AppSpans = {} /\ \A k \in 1..n : frames[k].span = 0
        BY <1>4, <1>6, <1>7, <1>9
    <2>2. QED
        BY <1>8, <2>1 DEF Encloses
<1>10. ASSUME L # {} PROVE Encloses(c, m)
    <2>1. c \in L /\ \A j \in L : j <= c
        BY <1>3, <1>4, <1>10, ClientTypes, ChosenGreatest
    <2>2. c \in 1..Len(spans) /\ ~spans[c].ended
        BY <1>2, <2>1, ClientTypes
    <2>3. ASSUME c \in Client!AppSpans PROVE Encloses(c, m)
        <3>1. ASSUME NEW k \in 1..n, frames[k].span # 0 PROVE FALSE
            <4>1. c < frames[k].span /\ frames[k].span \in L /\ frames[k].span \in 1..Len(spans)
                BY <1>1, <1>6, <2>3, <3>1 DEF AppInv, FrameInv
            <4>2. QED
                BY <2>1, <2>2, <4>1, ClientTypes
        <3>2. QED
            BY <1>8, <2>3, <3>1 DEF Encloses
    <2>4. ASSUME NEW k \in 1..n, frames[k].span = c PROVE Encloses(c, m)
        <3>1. ASSUME NEW i \in (k + 1)..n, frames[i].span # 0 PROVE FALSE
            <4>1. i \in 1..n /\ k < i
                OBVIOUS
            <4>2. c # 0
                BY <2>2
            <4>3. c < frames[i].span /\ frames[i].span \in L /\ frames[i].span \in 1..Len(spans)
                BY <1>1, <1>6, <2>4, <3>1, <4>1, <4>2 DEF FrameInv
            <4>4. QED
                BY <2>1, <2>2, <4>3, ClientTypes
        <3>2. c # 0
            BY <2>2
        <3>3. QED
            BY <1>8, <2>4, <3>1, <3>2 DEF Encloses
    <2>5. QED
        BY <1>1, <2>2, <2>3, <2>4 DEF LiveInv
<1>11. QED
    BY <1>1, <1>5, <1>9, <1>10 DEF m

\* The parent tracer.Start finds: that of the context, which has the innermost
\* call's span or none, or the implicit one.
LEMMA ParentEncloses ==
    ASSUME ClientTypeOK, FrameInv, AppInv, LiveInv, NEW ctx,
           ctx = 0 \/ Encloses(ctx, Len(frames) + 1)
    PROVE  Encloses(Client!SpanFromContext(spans, ctx), Len(frames) + 1)
BY CurrentEncloses DEF Client!SpanFromContext, Client!NoParent

\* A call without a span begins: its context is that around it.
LEMMA PassKeeps ==
    ASSUME ClientInv, NEW e \in Frames, e.span = 0,
           e.ctx = 0 \/ Encloses(e.ctx, Len(frames) + 1),
           frames' = Append(frames, e), UNCHANGED spans
    PROVE  StackInv' /\ frames' \in Seq(Frames)
<1>1. PICK n \in Nat : n = Len(frames)
    BY ClientTypes DEF ClientInv
<1>2. /\ frames' \in Seq(Frames) /\ Len(frames') = n + 1 /\ frames'[n + 1] = e
      /\ \A k \in 1..n : frames'[k] = frames[k]
      /\ \A k \in 1..(n + 1) : k = n + 1 \/ k \in 1..n
    BY <1>1, AppendProperties DEF ClientInv, ClientTypeOK
<1>3. Client!AppSpans' = Client!AppSpans
    BY DEF Client!AppSpans, Client!Live
<1>4. \A k \in 1..n : k \in 1..(n + 1) /\ k < n + 1 /\ k + 1 \in Nat
    OBVIOUS
<1>5. ASSUME NEW k \in Nat, k <= n + 1, NEW p PROVE Encloses(p, k)' <=> Encloses(p, k)
    <2>1. \A j \in 1..(k - 1) : frames'[j].span = frames[j].span
        BY <1>2, <1>5
    <2>2. QED
        BY <1>3, <2>1, EnclosesStays
<1>6. \A k \in 1..(n + 1) : frames'[k].span # 0 => k \in 1..n /\ frames[k].span = frames'[k].span
    BY <1>2
<1>7. FrameInv'
    BY <1>1, <1>2, <1>6 DEF ClientInv, StackInv, FrameInv
<1>8. AppInv'
    BY <1>1, <1>2, <1>3, <1>6 DEF ClientInv, StackInv, AppInv
<1>9. LiveInv'
    BY <1>1, <1>2, <1>3, <1>4 DEF ClientInv, StackInv, LiveInv
<1>10. CtxInv'
    <2>1. ASSUME NEW k \in 1..n, NEW c, c = frames[k].ctx PROVE c = 0 \/ Encloses(c, k + 1)'
        BY <1>1, <1>5, <2>1 DEF ClientInv, StackInv, CtxInv
    <2>2. ASSUME NEW c, c = e.ctx PROVE c = 0 \/ Encloses(c, n + 1 + 1)'
        <3>1. CASE c = 0
            BY <3>1
        <3>2. CASE Encloses(c, n + 1)
            <4>1. Encloses(c, n + 1)'
                BY <1>5, <3>2
            <4>2. QED
                BY <1>2, <4>1 DEF Encloses
        <3>3. QED
            BY <1>1, <2>2, <3>1, <3>2
    <2>3. QED
        BY <1>2, <2>1, <2>2 DEF CtxInv
<1>11. TreeInv'
    <2>1. ASSUME NEW k \in 1..n, frames[k].span # 0, ~frames[k].detached,
                 NEW p, p = spans[frames[k].span].parent
          PROVE  Encloses(p, k)'
        BY <1>1, <1>5, <2>1 DEF ClientInv, StackInv, TreeInv
    <2>2. QED
        BY <1>2, <1>6, <2>1 DEF TreeInv
<1>12. QED
    BY <1>2, <1>7, <1>8, <1>9, <1>10, <1>11, Zenon DEF StackInv

\* A call begins with a span of its own, whose context it passes on.
LEMMA EnterKeeps ==
    ASSUME ClientInv, NEW e \in Frames, NEW s \in Spans,
           frames' = Append(frames, e), spans' = Append(spans, s),
           e.span = Len(spans) + 1, e.ctx = e.span,
           s.fn = e.fn, ~s.ended, ~s.error,
           e.detached \/ Encloses(s.parent, Len(frames) + 1),
           s.parent # 0 => s.parent \in 1..Len(spans) /\ spans[s.parent].fn # "PerformRequest"
    PROVE  /\ StackInv' /\ MarkInv' /\ frames' \in Seq(Frames) /\ spans' \in Seq(Spans)
           /\ Len(spans') = Len(spans) + 1 /\ spans'[Len(spans) + 1] = s
           /\ \A i \in 1..Len(spans) : spans'[i] = spans[i]
           /\ \A i \in 1..Len(spans') : spans'[i].parent # 0 =>
                 /\ spans'[i].parent \in 1..Len(spans')
                 /\ spans'[spans'[i].parent].fn # "PerformRequest"
<1>1. PICK n \in Nat : n = Len(frames)
    BY ClientTypes DEF ClientInv
<1>2. PICK m \in Nat : m = Len(spans)
    BY ClientTypes DEF ClientInv
<1>3. /\ frames' \in Seq(Frames) /\ Len(frames') = n + 1 /\ frames'[n + 1] = e
      /\ \A k \in 1..n : frames'[k] = frames[k]
      /\ \A k \in 1..(n + 1) : k = n + 1 \/ k \in 1..n
    BY <1>1, AppendProperties DEF ClientInv, ClientTypeOK
<1>4. /\ spans' \in Seq(Spans) /\ Len(spans') = m + 1 /\ spans'[m + 1] = s
      /\ \A i \in 1..m : spans'[i] = spans[i]
      /\ \A i \in 1..(m + 1) : i = m + 1 \/ i \in 1..m
      /\ \A i \in 1..m : i \in 1..(m + 1) /\ i < m + 1
      /\ m + 1 \in 1..(m + 1) /\ m + 1 # 0
    BY <1>2, AppendProperties DEF ClientInv, ClientTypeOK
<1>5. e.fn # "app"
    BY DEF Frames, Fns, Client!Fns, Client!HTTPFns, Client!Processing
<1>6. Client!AppSpans' = Client!AppSpans
    <2>1. /\ Client!AppSpans = {i \in 1..m : ~spans[i].ended /\ spans[i].fn = "app"}
          /\ DOMAIN spans' = 1..(m + 1)
        BY <1>2, <1>4, AppSpansAre, LenProperties DEF ClientInv
    <2>2. Client!AppSpans' = {i \in 1..(m + 1) : ~spans'[i].ended /\ spans'[i].fn = "app"}
        BY <2>1 DEF Client!AppSpans, Client!Live
    <2>3. QED
        BY <1>4, <1>5, <2>1, <2>2
<1>7. ASSUME NEW k \in Nat, k <= n + 1, NEW p PROVE Encloses(p, k)' <=> Encloses(p, k)
    <2>1. \A j \in 1..(k - 1) : frames'[j].span = frames[j].span
        BY <1>3, <1>7
    <2>2. QED
        BY <1>6, <2>1, EnclosesStays
<1>8. \A k \in 1..n : frames[k].span # 0 => frames[k].span \in 1..m
    BY <1>1, <1>2 DEF ClientInv, StackInv, FrameInv
<1>9. FrameInv'
    <2>1. ASSUME NEW k \in 1..(n + 1), frames'[k].span # 0
          PROVE  /\ frames'[k].span \in 1..(m + 1) /\ ~spans'[frames'[k].span].ended
                 /\ spans'[frames'[k].span].fn = frames'[k].fn
        <3>1. CASE k = n + 1
            BY <1>2, <1>3, <1>4, <3>1
        <3>2. CASE k \in 1..n
            BY <1>1, <1>2, <1>3, <1>4, <1>8, <2>1, <3>2 DEF ClientInv, StackInv, FrameInv
        <3>3. QED
            BY <1>3, <3>1, <3>2
    <2>2. ASSUME NEW j \in 1..(n + 1), NEW k \in 1..(n + 1), j < k,
                 frames'[j].span # 0, frames'[k].span # 0
          PROVE  frames'[j].span < frames'[k].span
        <3>1. j \in 1..n
            BY <2>2
        <3>2. CASE k = n + 1
            BY <1>2, <1>3, <1>4, <1>8, <2>2, <3>1, <3>2
        <3>3. CASE k \in 1..n
            BY <1>1, <1>3, <2>2, <3>1, <3>3 DEF ClientInv, StackInv, FrameInv
        <3>4. QED
            BY <1>3, <3>2, <3>3
    <2>3. QED
        BY <1>3, <1>4, <2>1, <2>2 DEF FrameInv
<1>10. AppInv'
    <2>1. \A a \in Client!AppSpans : a \in 1..m
        BY <1>2, AppSpansAre DEF ClientInv
    <2>2. ASSUME NEW a \in Client!AppSpans, NEW k \in 1..(n + 1), frames'[k].span # 0
          PROVE  a < frames'[k].span
        <3>1. CASE k = n + 1
            BY <1>2, <1>3, <1>4, <2>1, <3>1
        <3>2. CASE k \in 1..n
            BY <1>1, <1>3, <2>2, <3>2 DEF ClientInv, StackInv, AppInv
        <3>3. QED
            BY <1>3, <3>1, <3>2
    <2>3. QED
        BY <1>3, <1>6, <2>2 DEF ClientInv, StackInv, AppInv
<1>11. LiveInv'
    <2>1. ASSUME NEW i \in 1..(m + 1), ~spans'[i].ended
          PROVE  /\ ~spans'[i].error
                 /\ i \in Client!AppSpans \/ \E k \in 1..(n + 1) : frames'[k].span = i
        <3>1. CASE i = m + 1
            BY <1>2, <1>3, <1>4, <3>1
        <3>2. CASE i \in 1..m
            <4>1. /\ ~spans[i].error
                  /\ i \in Client!AppSpans \/ \E k \in 1..n : frames[k].span = i
                BY <1>1, <1>2, <1>4, <2>1, <3>2 DEF ClientInv, StackInv, LiveInv
            <4>2. QED
                BY <1>3, <1>4, <3>2, <4>1
        <3>3. QED
            BY <1>4, <3>1, <3>2
    <2>2. QED
        BY <1>3, <1>4, <1>6, <2>1 DEF LiveInv
<1>12. CtxInv'
    <2>1. ASSUME NEW k \in 1..n, NEW c, c = frames[k].ctx PROVE c = 0 \/ Encloses(c, k + 1)'
        BY <1>1, <1>7, <2>1 DEF ClientInv, StackInv, CtxInv
    <2>2. ASSUME NEW c, c = e.ctx PROVE Encloses(c, n + 1 + 1)'
        BY <1>2, <1>3, <1>4, <2>2 DEF Encloses
    <2>3. QED
        BY <1>3, <2>1, <2>2 DEF CtxInv
<1>13. TreeInv'
    <2>1. ASSUME NEW k \in 1..n, frames[k].span # 0, ~frames[k].detached,
                 NEW p, p = spans[frames[k].span].parent
          PROVE  Encloses(p, k)'
        BY <1>1, <1>7, <2>1 DEF ClientInv, StackInv, TreeInv
    <2>2. ASSUME ~e.detached, NEW p, p = s.parent PROVE Encloses(p, n + 1)'
        BY <1>1, <1>7, <2>2
    <2>3. \A k \in 1..n : frames[k].span # 0 => spans'[frames[k].span] = spans[frames[k].span]
        BY <1>4, <1>8
    <2>4. spans'[e.span] = s
        BY <1>2, <1>4
    <2>5. ASSUME NEW k \in 1..(n + 1), frames'[k].span # 0, ~frames'[k].detached,
                 NEW p, p = spans'[frames'[k].span].parent
          PROVE  Encloses(p, k)'
        <3>1. CASE k = n + 1
            BY <1>3, <2>2, <2>4, <2>5, <3>1
        <3>2. CASE k \in 1..n
            BY <1>3, <2>1, <2>3, <2>5, <3>2
        <3>3. QED
            BY <1>3, <3>1, <3>2
    <2>6. QED
        BY <1>3, <2>5 DEF TreeInv
<1>14. MarkInv'
    BY <1>2, <1>4 DEF ClientInv, MarkInv
<1>15. ASSUME NEW i \in 1..(m + 1), spans'[i].parent # 0
       PROVE  /\ spans'[i].parent \in 1..(m + 1)
              /\ spans'[spans'[i].parent].fn # "PerformRequest"
    <2>1. CASE i = m + 1
        BY <1>2, <1>4, <1>15, <2>1
    <2>2. CASE i \in 1..m
        BY <1>2, <1>4, <1>15, <2>2 DEF ClientInv, ParentInv
    <2>3. QED
        BY <1>4, <2>1, <2>2
<1>16. QED
    BY <1>2, <1>3, <1>4, <1>9, <1>10, <1>11, <1>12, <1>13, <1>14, <1>15, Zenon DEF StackInv

\* Span s is ended, and r is what its call came to.
Over(log, out, s, r) ==
    /\ out \in Seq(Spans) /\ Len(out) = Len(log) /\ out[s].ended /\ out[s].outcome = r
    /\ out[s].fn = log[s].fn /\ out[s].parent = log[s].parent
    /\ \A t \in 1..Len(log) : t # s => out[t] = log[t]

\* SetStatus, End: as long as the span is live, the mark is made.
LEMMA MarkedThenEnded ==
    ASSUME NEW log \in Seq(Spans), NEW s \in 1..Len(log), ~log[s].ended, ~log[s].error,
           NEW failed \in BOOLEAN, NEW r \in Outcomes, NEW out,
           out = Client!CameTo(Client!EndSpan(IF failed THEN Client!SetError(log, s) ELSE log, s), s, r)
    PROVE  Over(log, out, s, r) /\ (out[s].error <=> failed)
<1>1. log[s] \in Spans
    BY ElementOfSeq
<1>2. PICK x \in BOOLEAN : x <=> (log[s].error \/ ~log[s].ended)
    OBVIOUS
<1>3. x /\ x = (log[s].error \/ ~log[s].ended)
    BY <1>2
<1>4. PICK d : d = [log[s] EXCEPT !.error = x]
    OBVIOUS
<1>5. d \in Spans /\ d.error = x /\ d.fn = log[s].fn /\ d.parent = log[s].parent
    BY <1>1, <1>4 DEF Spans
<1>6. PICK log1 : log1 = IF failed THEN Client!SetError(log, s) ELSE log
    OBVIOUS
<1>7. log1 = IF failed THEN [log EXCEPT ![s] = d] ELSE log
    BY <1>3, <1>4, <1>6 DEF Client!SetError
<1>8. /\ log1 \in Seq(Spans) /\ Len(log1) = Len(log) /\ log1[s] \in Spans
      /\ log1[s].fn = log[s].fn /\ log1[s].parent = log[s].parent
      /\ log1[s].error <=> failed
      /\ \A t \in 1..Len(log) : t # s => log1[t] = log[t]
    <2>1. CASE failed
        <3>1. /\ log1 \in Seq(Spans) /\ Len(log1) = Len(log) /\ log1[s] = d
              /\ \A t \in 1..Len(log) : t # s => log1[t] = log[t]
            BY <1>5, <1>7, <2>1, ExceptSeq
        <3>2. d.error
            BY <1>3, <1>5
        <3>3. QED
            BY <1>5, <2>1, <3>1, <3>2
    <2>2. CASE ~failed
        BY <1>1, <1>7, <2>2
    <2>3. QED
        BY <2>1, <2>2
<1>9. PICK e : e = [log1[s] EXCEPT !.ended = TRUE]
    OBVIOUS
<1>10. /\ e \in Spans /\ e.ended /\ e.fn = log[s].fn /\ e.parent = log[s].parent
       /\ e.error <=> failed
    BY <1>8, <1>9 DEF Spans
<1>11. PICK log2 : log2 = [log1 EXCEPT ![s] = e]
    OBVIOUS
<1>12. /\ log2 \in Seq(Spans) /\ Len(log2) = Len(log) /\ log2[s] = e
       /\ \A t \in 1..Len(log) : t # s => log2[t] = log[t]
    BY <1>8, <1>10, <1>11, ExceptSeq
<1>13. PICK f : f = [e EXCEPT !.outcome = r]
    OBVIOUS
<1>14. /\ f \in Spans /\ f.ended /\ f.outcome = r /\ f.fn = log[s].fn
       /\ f.parent = log[s].parent
       /\ f.error <=> failed
    BY <1>10, <1>13 DEF Spans
<1>15. out = [log2 EXCEPT ![s] = f]
    BY <1>6, <1>9, <1>11, <1>12, <1>13 DEF Client!CameTo, Client!EndSpan
<1>16. /\ out \in Seq(Spans) /\ Len(out) = Len(log) /\ out[s] = f
       /\ \A t \in 1..Len(log) : t # s => out[t] = log[t]
    <2>1. f \in Spans /\ s \in 1..Len(log2)
        BY <1>12, <1>14
    <2>2. QED
        BY <1>12, <1>15, <2>1, ExceptSeq
<1>17. QED
    BY <1>14, <1>16 DEF Over

\* doRequest's deferred function, in the other order.
LEMMA EndedThenMarked ==
    ASSUME NEW log \in Seq(Spans), NEW s \in 1..Len(log), NEW r \in Outcomes, NEW out, NEW log2,
           log2 = Client!CameTo(Client!EndSpan(log, s), s, r),
           out = log2 \/ out = Client!SetError(log2, s)
    PROVE  Over(log, out, s, r)
<1>1. log[s] \in Spans
    BY ElementOfSeq
<1>2. PICK e : e = [log[s] EXCEPT !.ended = TRUE]
    OBVIOUS
<1>3. e \in Spans /\ e.ended /\ e.fn = log[s].fn /\ e.parent = log[s].parent
    BY <1>1, <1>2 DEF Spans
<1>4. PICK log1 : log1 = [log EXCEPT ![s] = e]
    OBVIOUS
<1>5. /\ log1 \in Seq(Spans) /\ Len(log1) = Len(log) /\ log1[s] = e
      /\ \A t \in 1..Len(log) : t # s => log1[t] = log[t]
    BY <1>3, <1>4, ExceptSeq
<1>6. PICK f : f = [e EXCEPT !.outcome = r]
    OBVIOUS
<1>7. f \in Spans /\ f.ended /\ f.outcome = r /\ f.fn = log[s].fn /\ f.parent = log[s].parent
    BY <1>3, <1>6 DEF Spans
<1>8. log2 = [log1 EXCEPT ![s] = f]
    BY <1>2, <1>4, <1>5, <1>6 DEF Client!CameTo, Client!EndSpan
<1>9. /\ log2 \in Seq(Spans) /\ Len(log2) = Len(log) /\ log2[s] = f
      /\ \A t \in 1..Len(log) : t # s => log2[t] = log[t]
    BY <1>5, <1>7, <1>8, ExceptSeq
<1>10. CASE out = log2
    BY <1>7, <1>9, <1>10 DEF Over
<1>11. CASE out = Client!SetError(log2, s)
    <2>1. PICK x \in BOOLEAN : x <=> (f.error \/ ~f.ended)
        OBVIOUS
    <2>2. x = (f.error \/ ~f.ended)
        BY <2>1
    <2>3. PICK h : h = [f EXCEPT !.error = x]
        OBVIOUS
    <2>4. h \in Spans /\ h.ended /\ h.outcome = r /\ h.fn = log[s].fn /\ h.parent = log[s].parent
        BY <1>7, <2>1, <2>3 DEF Spans
    <2>5. out = [log2 EXCEPT ![s] = h]
        BY <1>9, <1>11, <2>2, <2>3 DEF Client!SetError
    <2>6. /\ out \in Seq(Spans) /\ Len(out) = Len(log) /\ out[s] = h
          /\ \A t \in 1..Len(log) : t # s => out[t] = log[t]
        BY <1>9, <2>4, <2>5, ExceptSeq
    <2>7. QED
        BY <2>4, <2>6 DEF Over
<1>12. QED
    BY <1>10, <1>11

\* The innermost call returns and its span, if it has one, is over.
LEMMA PopKeeps ==
    ASSUME ClientInv, frames # <<>>, NEW s \in Nat, NEW r,
           s = frames[Len(frames)].span,
           frames' = SubSeq(frames, 1, Len(frames) - 1), UNCHANGED header,
           s = 0 => UNCHANGED spans,
           s # 0 => Over(spans, spans', s, r),
           s # 0 /\ spans[s].fn # "doRequest" => (spans'[s].error <=> r \in {"status", "error"})
    PROVE  ClientTypeOK' /\ StackInv' /\ ParentInv' /\ MarkInv'
<1>1. PICK n \in Nat : n = Len(frames)
    BY ClientTypes DEF ClientInv
<1>2. n \in 1..n /\ n - 1 \in Nat
    BY <1>1, LenProperties DEF ClientInv, ClientTypeOK
<1>3. /\ frames' \in Seq(Frames) /\ Len(frames') = n - 1
      /\ \A k \in 1..(n - 1) : frames'[k] = frames[k]
      /\ \A k \in 1..(n - 1) : k \in 1..n /\ k < n
      /\ \A k \in 1..n : k = n \/ k \in 1..(n - 1)
    BY <1>1, <1>2, FrontProperties DEF ClientInv, ClientTypeOK, Front
<1>4. PICK m \in Nat : m = Len(spans)
    BY ClientTypes DEF ClientInv
<1>5. s # 0 => s \in 1..m /\ spans[s].fn = frames[n].fn /\ ~spans[s].ended
    BY <1>1, <1>2, <1>4 DEF ClientInv, StackInv, FrameInv
<1>6. /\ spans' \in Seq(Spans) /\ Len(spans') = m
      /\ \A t \in 1..m : t # s => spans'[t] = spans[t]
      /\ \A t \in 1..m : spans'[t].fn = spans[t].fn /\ spans'[t].parent = spans[t].parent
      /\ s # 0 => spans'[s].ended /\ spans'[s].outcome = r
    BY <1>4, <1>5 DEF ClientInv, ClientTypeOK, Over
<1>7. frames[n].fn # "app"
    BY <1>1, <1>2, ClientTypes DEF ClientInv, Frames, Fns, Client!Fns, Client!HTTPFns, Client!Processing
<1>8. Client!AppSpans' = Client!AppSpans
    <2>1. /\ Client!AppSpans = {i \in 1..m : ~spans[i].ended /\ spans[i].fn = "app"}
          /\ DOMAIN spans' = 1..m
        BY <1>4, <1>6, AppSpansAre, LenProperties DEF ClientInv
    <2>2. Client!AppSpans' = {i \in 1..m : ~spans'[i].ended /\ spans'[i].fn = "app"}
        BY <2>1 DEF Client!AppSpans, Client!Live
    <2>3. QED
        BY <1>5, <1>6, <1>7, <2>1, <2>2
<1>9. ASSUME NEW k \in Nat, k <= n, NEW p PROVE Encloses(p, k)' <=> Encloses(p, k)
    <2>1. \A j \in 1..(k - 1) : frames'[j].span = frames[j].span
        BY <1>3, <1>9
    <2>2. QED
        BY <1>8, <2>1, EnclosesStays
<1>10. ASSUME NEW k \in 1..(n - 1), frames[k].span # 0
       PROVE  frames[k].span \in 1..m /\ frames[k].span # s
    <2>1. frames[k].span \in 1..m
        BY <1>1, <1>3, <1>4, <1>10 DEF ClientInv, StackInv, FrameInv
    <2>2. s # 0 => frames[k].span < s
        BY <1>1, <1>2, <1>3, <1>10 DEF ClientInv, StackInv, FrameInv
    <2>3. QED
        BY <1>10, <2>1, <2>2
<1>11. FrameInv'
    <2>1. ASSUME NEW k \in 1..(n - 1), frames[k].span # 0
          PROVE  /\ frames[k].span \in 1..m /\ ~spans'[frames[k].span].ended
                 /\ spans'[frames[k].span].fn = frames[k].fn
        BY <1>1, <1>3, <1>6, <1>10, <2>1 DEF ClientInv, StackInv, FrameInv
    <2>2. QED
        BY <1>1, <1>3, <1>6, <2>1 DEF ClientInv, StackInv, FrameInv
<1>12. AppInv'
    BY <1>1, <1>3, <1>8 DEF ClientInv, StackInv, AppInv
<1>13. LiveInv'
    <2>1. ASSUME NEW i \in 1..m, ~spans'[i].ended
          PROVE  /\ ~spans'[i].error
                 /\ i \in Client!AppSpans \/ \E k \in 1..(n - 1) : frames'[k].span = i
        <3>1. i # s /\ spans'[i] = spans[i]
            BY <1>5, <1>6, <2>1
        <3>2. ~spans[i].error /\ (i \in Client!AppSpans \/ \E k \in 1..n : frames[k].span = i)
            BY <1>1, <1>4, <2>1, <3>1 DEF ClientInv, StackInv, LiveInv
        <3>3. QED
            BY <1>1, <1>3, <3>1, <3>2
    <2>2. QED
        BY <1>3, <1>6, <1>8, <2>1 DEF LiveInv
<1>14. CtxInv'
    <2>1. ASSUME NEW k \in 1..(n - 1), NEW c, c = frames[k].ctx PROVE c = 0 \/ Encloses(c, k + 1)'
        <3>1. k + 1 \in Nat /\ k + 1 <= n
            OBVIOUS
        <3>2. QED
            BY <1>1, <1>3, <1>9, <2>1, <3>1 DEF ClientInv, StackInv, CtxInv
    <2>2. QED
        BY <1>3, <2>1 DEF CtxInv
<1>15. TreeInv'
    <2>1. ASSUME NEW k \in 1..(n - 1), frames'[k].span # 0, ~frames'[k].detached,
                 NEW p, p = spans'[frames'[k].span].parent
          PROVE  Encloses(p, k)'
        <3>1. p = spans[frames[k].span].parent /\ frames'[k] = frames[k]
            BY <1>3, <1>6, <1>10, <2>1
        <3>2. Encloses(p, k)
            BY <1>1, <1>3, <2>1, <3>1 DEF ClientInv, StackInv, TreeInv
        <3>3. QED
            BY <1>3, <1>9, <3>2
    <2>2. QED
        BY <1>3, <2>1 DEF TreeInv
<1>16. ParentInv'
    BY <1>4, <1>6 DEF ClientInv, ParentInv
<1>17. MarkInv'
    <2>1. ASSUME NEW i \in 1..m, spans[i].fn \in Fns \ {"doRequest"}, spans'[i].ended
          PROVE  spans'[i].error <=> spans'[i].outcome \in {"status", "error"}
        <3>1. CASE i = s
            BY <1>5, <1>6, <2>1, <3>1
        <3>2. CASE i # s
            BY <1>4, <1>6, <2>1, <3>2 DEF ClientInv, MarkInv
        <3>3. QED
            BY <3>1, <3>2
    <2>2. QED
        BY <1>6, <2>1 DEF MarkInv
<1>18. QED
    BY <1>3, <1>6, <1>8, <1>11, <1>12, <1>13, <1>14, <1>15, <1>16, <1>17
       DEF StackInv, ClientTypeOK, ClientInv

\* A call without a span: what it is recorded as.
LEMMA PassAny ==
    ASSUME ClientInv, NEW fn \in Fns, NEW ctx \in Nat, Client!Pass(fn, ctx),
           ctx = 0 \/ Encloses(ctx, Len(frames) + 1), header' = header \/ header' = 0
    PROVE  /\ ClientTypeOK' /\ StackInv' /\ ParentInv' /\ MarkInv' /\ UNCHANGED enabled
           /\ \E e \in Frames : e.fn = fn /\ e.span = 0 /\ frames' = Append(frames, e)
<1>1. PICK q \in BOOLEAN : q = Client!Top.quiet
    <2>1. CASE frames = <<>>
        BY <2>1 DEF Client!Top, Client!NoFrame
    <2>2. CASE frames # <<>>
        <3>1. frames[Len(frames)] \in Frames
            BY <2>2, ClientTypes, LenProperties DEF ClientInv, ClientTypeOK
        <3>2. QED
            BY <2>2, <3>1 DEF Client!Top, Frames
    <2>3. QED
        BY <2>1, <2>2
<1>2. PICK e : e = [fn |-> fn, span |-> 0, ctx |-> ctx, quiet |-> q, detached |-> FALSE]
    OBVIOUS
<1>3. e \in Frames /\ e.fn = fn /\ e.span = 0 /\ e.ctx = ctx
    BY <1>2 DEF Frames
<1>4. [Client!NoFrame EXCEPT !.fn = fn, !.ctx = ctx, !.quiet = q] = e
    <2>1. PICK d : d = [Client!NoFrame EXCEPT !.fn = fn, !.ctx = ctx, !.quiet = q]
        OBVIOUS
    <2>2. PICK z : z = Client!NoFrame
        OBVIOUS
    <2>3. z = [fn |-> "app", span |-> 0, ctx |-> 0, quiet |-> FALSE, detached |-> FALSE]
        BY <2>2 DEF Client!NoFrame, Client!NoParent
    <2>4. z \in [fn : {"app"} \cup Fns, span : Nat, ctx : Nat, quiet : BOOLEAN, detached : {FALSE}]
          /\ z.span = 0
        BY <2>3
    <2>5. d = [z EXCEPT !.fn = fn, !.ctx = ctx, !.quiet = q]
        BY <2>1, <2>2
    <2>6. /\ d \in [fn : {"app"} \cup Fns, span : Nat, ctx : Nat, quiet : BOOLEAN, detached : {FALSE}]
          /\ d.fn = fn /\ d.span = 0 /\ d.ctx = ctx /\ d.quiet = q
        BY <2>4, <2>5
    <2>7. d = e
        BY <1>2, <2>6
    <2>8. QED
        BY <2>1, <2>7
<1>5. frames' = Append(frames, e) /\ UNCHANGED <<spans, enabled>>
    BY <1>1, <1>4 DEF Client!Pass
<1>6. StackInv' /\ frames' \in Seq(Frames)
    BY <1>3, <1>5, PassKeeps
<1>7. ClientTypeOK' /\ ParentInv' /\ MarkInv'
    BY <1>5, <1>6 DEF ClientInv, ClientTypeOK, ParentInv, MarkInv
<1>8. QED
    BY <1>3, <1>5, <1>6, <1>7

\* A call with a span, and where the span hangs.
LEMMA EnterAny ==
    ASSUME ClientInv, NEW fn \in Fns, NEW ctx \in Nat, NEW quiet \in BOOLEAN, NEW detached \in BOOLEAN,
           NEW p \in Nat, p = Client!SpanFromContext(spans, ctx),
           detached \/ Encloses(p, Len(frames) + 1),
           p # 0 => p \in 1..Len(spans) /\ spans[p].fn # "PerformRequest",
           spans' = Client!Start(spans, ctx, fn),
           frames' = Append(frames, [fn |-> fn, span |-> Len(spans) + 1, ctx |-> Len(spans) + 1,
                                     quiet |-> quiet, detached |-> detached]),
           \/ header' = header \/ header' = 0
           \/ header' = Len(spans) + 1 /\ fn = "RoundTrip"
    PROVE  /\ ClientTypeOK' /\ StackInv' /\ ParentInv' /\ MarkInv'
           /\ \E e \in Frames : /\ e.fn = fn /\ e.span # 0 /\ e.quiet = quiet
                                /\ frames' = Append(frames, e)
<1>1. PICK m \in Nat : m = Len(spans)
    BY ClientTypes DEF ClientInv
<1>2. PICK e : e = [fn |-> fn, span |-> m + 1, ctx |-> m + 1, quiet |-> quiet,
                    detached |-> detached]
    OBVIOUS
<1>3. /\ e \in Frames /\ e.fn = fn /\ e.span = m + 1 /\ e.ctx = e.span /\ e.quiet = quiet
      /\ e.detached = detached /\ e.span # 0
    BY <1>2 DEF Frames
<1>4. PICK s : s = [fn |-> fn, parent |-> p, ended |-> FALSE, error |-> FALSE,
                    outcome |-> "running"]
    OBVIOUS
<1>5. s \in Spans /\ s.fn = e.fn /\ ~s.ended /\ ~s.error /\ s.parent = p
    BY <1>3, <1>4 DEF Spans, SpanFns, Outcomes
<1>6. frames' = Append(frames, e) /\ spans' = Append(spans, s)
    BY <1>1, <1>2, <1>4 DEF Client!Start
<1>7. /\ StackInv' /\ MarkInv' /\ frames' \in Seq(Frames) /\ spans' \in Seq(Spans)
      /\ Len(spans') = m + 1 /\ spans'[m + 1] = s
      /\ \A i \in 1..m : spans'[i] = spans[i]
      /\ \A i \in 1..Len(spans') : spans'[i].parent # 0 =>
            /\ spans'[i].parent \in 1..Len(spans')
            /\ spans'[spans'[i].parent].fn # "PerformRequest"
    BY <1>1, <1>3, <1>5, <1>6, EnterKeeps
<1>8. header' \in Nat /\ (header' # 0 => header' \in 1..(m + 1) /\ spans'[header'].fn = "RoundTrip")
    <2>1. CASE header' = header
        <3>1. header # 0 => header \in 1..m /\ spans[header].fn = "RoundTrip"
            BY <1>1 DEF ClientInv, ParentInv
        <3>2. QED
            BY <1>7, <2>1, <3>1 DEF ClientInv, ClientTypeOK
    <2>2. CASE header' = m + 1 /\ fn = "RoundTrip"
        BY <1>3, <1>5, <1>7, <2>2
    <2>3. QED
        BY <1>1, <2>1, <2>2
<1>9. ClientTypeOK' /\ ParentInv'
    BY <1>7, <1>8 DEF ClientTypeOK, ParentInv
<1>10. QED
    BY <1>3, <1>6, <1>7, <1>9, Zenon

\* What may begin inside of what.
Fits(e) ==
    \/ /\ frames = <<>> /\ e.fn # "OnEvent"
       /\ e.fn = "PerformRequest" /\ e.span # 0 => e.quiet
       /\ e.fn \in Client!Processing => (e.span # 0 <=> "k8s" \in enabled)
    \/ /\ frames # <<>> /\ frames[Len(frames)].fn = "publicMethod" /\ e.fn = "doRequest"
    \/ /\ frames # <<>> /\ e.fn = "RoundTrip"
       /\ frames[Len(frames)].fn \in {"doRequest", "PerformRequest"}
    \/ /\ frames # <<>> /\ e.fn = "processDeltas" /\ (e.span # 0 <=> "k8s" \in enabled)
       /\ frames[Len(frames)].fn = "processDeltasInBatch"
    \/ /\ frames # <<>> /\ frames[1].fn \in Client!Processing /\ e.fn = "OnEvent"

LEMMA ShapePush ==
    ASSUME ClientInv, NEW e \in Frames, Fits(e), frames' = Append(frames, e), UNCHANGED enabled
    PROVE  ShapeInv'
<1>1. PICK n \in Nat : n = Len(frames)
    BY ClientTypes DEF ClientInv
<1>2. /\ Len(frames') = n + 1 /\ frames'[n + 1] = e
      /\ \A k \in 1..n : frames'[k] = frames[k]
      /\ \A k \in 1..(n + 1) : k = n + 1 \/ k \in 1..n
    BY <1>1, AppendProperties DEF ClientInv, ClientTypeOK
<1>3. (frames = <<>> <=> n = 0) /\ (n # 0 => n \in 1..n /\ 1 \in 1..n)
    BY <1>1, LenProperties DEF ClientInv, ClientTypeOK
<1>4. ElasticInv'
    <2>1. ASSUME NEW k \in 1..n, frames[k].fn = "PerformRequest"
          PROVE  k = 1 /\ n = 1 /\ e.fn = "RoundTrip" /\ (frames[1].span # 0 => frames[1].quiet)
        <3>1. /\ k = 1 /\ (frames[1].span # 0 => frames[1].quiet)
              /\ n = 1 \/ (n = 2 /\ frames[2].fn = "RoundTrip")
            BY <1>1, <2>1 DEF ClientInv, ShapeInv, ElasticInv
        <3>2. frames # <<>> /\ frames[1].fn = "PerformRequest"
            BY <1>3, <2>1, <3>1
        <3>3. QED
            BY <1>1, <3>1, <3>2 DEF Fits, Client!Processing
    <2>2. ASSUME e.fn = "PerformRequest" PROVE n = 0 /\ (e.span # 0 => e.quiet)
        BY <1>3, <2>2 DEF Fits
    <2>3. QED
        BY <1>2, <2>1, <2>2 DEF ElasticInv
<1>5. NestingInv'
    <2>1. ASSUME NEW k \in 1..n, frames[k].fn \in Client!Processing
          PROVE  e.fn \in Client!Processing \cup {"OnEvent"}
        <3>1. n \in k..n /\ frames # <<>>
            BY <1>3
        <3>2. frames[n].fn \in Client!Processing \cup {"OnEvent"}
            BY <1>1, <2>1, <3>1 DEF ClientInv, ShapeInv, NestingInv
        <3>3. QED
            BY <1>1, <3>1, <3>2 DEF Fits, Client!Processing
    <2>2. ASSUME NEW k \in 1..n
          PROVE  /\ frames[k].fn = "processDeltasInBatch" => k = 1
                 /\ frames[k].fn = "processDeltas" =>
                        k = 1 \/ (k = 2 /\ frames[1].fn = "processDeltasInBatch")
                 /\ frames[k].fn \in Client!Processing =>
                        /\ frames[k].span # 0 <=> "k8s" \in enabled
                        /\ \A i \in k..(n + 1) :
                              frames'[i].fn \in Client!Processing \cup {"OnEvent"}
                 /\ frames[k].fn = "OnEvent" => frames[1].fn \in Client!Processing
        <3>1. \A i \in k..(n + 1) : i = n + 1 \/ (i \in k..n /\ i \in 1..n)
            BY <1>1
        <3>2. QED
            BY <1>1, <1>2, <2>1, <3>1 DEF ClientInv, ShapeInv, NestingInv
    <2>3. /\ e.fn = "processDeltasInBatch" => n = 0
          /\ e.fn = "processDeltas" =>
                 n = 0 \/ (n = 1 /\ frames[1].fn = "processDeltasInBatch")
          /\ e.fn \in Client!Processing => (e.span # 0 <=> "k8s" \in enabled)
          /\ e.fn = "OnEvent" => n # 0 /\ frames[1].fn \in Client!Processing
        <3>1. ASSUME n # 0, frames[n].fn = "processDeltasInBatch" PROVE n = 1
            BY <1>1, <1>3, <3>1 DEF ClientInv, ShapeInv, NestingInv
        <3>2. QED
            BY <1>1, <1>3, <3>1 DEF Fits, Client!Processing
    <2>4. ASSUME NEW k \in 1..(n + 1)
          PROVE  /\ frames'[k].fn = "processDeltasInBatch" => k = 1
                 /\ frames'[k].fn = "processDeltas" =>
                        k = 1 \/ (k = 2 /\ frames'[1].fn = "processDeltasInBatch")
                 /\ frames'[k].fn \in Client!Processing =>
                        /\ frames'[k].span # 0 <=> "k8s" \in enabled
                        /\ \A i \in k..(n + 1) :
                              frames'[i].fn \in Client!Processing \cup {"OnEvent"}
                 /\ frames'[k].fn = "OnEvent" => frames'[1].fn \in Client!Processing
        <3>1. CASE k \in 1..n
            BY <1>2, <1>3, <2>2, <3>1
        <3>2. CASE k = n + 1
            <4>1. \A i \in k..(n + 1) : i = n + 1
                BY <3>2
            <4>2. n # 0 => frames'[1] = frames[1]
                BY <1>2, <1>3
            <4>3. QED
                BY <1>2, <2>3, <3>2, <4>1, <4>2
        <3>3. QED
            BY <1>2, <3>1, <3>2
    <2>5. QED
        BY <1>2, <2>4 DEF NestingInv
<1>6. QED
    BY <1>4, <1>5 DEF ShapeInv

LEMMA ShapePop ==
    ASSUME ClientInv, frames # <<>>, frames' = SubSeq(frames, 1, Len(frames) - 1), UNCHANGED enabled
    PROVE  ShapeInv'
<1>1. PICK n \in Nat : n = Len(frames)
    BY ClientTypes DEF ClientInv
<1>2. n \in 1..n /\ n - 1 \in Nat
    BY <1>1, LenProperties DEF ClientInv, ClientTypeOK
<1>3. /\ Len(frames') = n - 1 /\ \A k \in 1..(n - 1) : frames'[k] = frames[k]
      /\ \A k \in 1..(n - 1) : k \in 1..n /\ 1 \in 1..(n - 1)
    BY <1>1, <1>2, FrontProperties DEF ClientInv, ClientTypeOK, Front
<1>4. ElasticInv'
    BY <1>1, <1>3 DEF ClientInv, ShapeInv, ElasticInv
<1>5. NestingInv'
    BY <1>1, <1>3 DEF ClientInv, ShapeInv, NestingInv
<1>6. QED
    BY <1>4, <1>5 DEF ShapeInv


\* The contexts callers pass, and who calls whom.
LEMMA ContextsFit ==
    ASSUME ClientInv, NEW fn \in Fns, NEW ctx \in Client!Contexts(fn)
    PROVE  /\ ctx \in Nat
           /\ ctx = 0 \/ Encloses(ctx, Len(frames) + 1)
           /\ frames = <<>> => fn \in Client!HTTPFns \cup {"ProcessHook"}
           /\ frames # <<>> =>
                 \/ frames[Len(frames)].fn = "publicMethod" /\ fn = "doRequest"
                 \/ /\ frames[Len(frames)].fn \in {"doRequest", "PerformRequest"}
                    /\ fn = "RoundTrip"
<1>1. CASE frames = <<>>
    <2>1. fn \in Client!HTTPFns \cup {"ProcessHook"} /\ (ctx = 0 \/ ctx \in Client!AppSpans)
        BY <1>1 DEF Client!Contexts, Client!NoParent
    <2>2. \A a \in Client!AppSpans : a \in Nat
        BY AppSpansAre DEF ClientInv
    <2>3. Len(frames) = 0 /\ 1..(Len(frames) + 1 - 1) = {}
        BY <1>1
    <2>4. QED
        BY <1>1, <2>1, <2>2, <2>3 DEF Encloses
<1>2. CASE frames # <<>>
    <2>1. /\ ctx = frames[Len(frames)].ctx
          /\ \/ frames[Len(frames)].fn = "publicMethod" /\ fn = "doRequest"
             \/ frames[Len(frames)].fn \in {"doRequest", "PerformRequest"} /\ fn = "RoundTrip"
        BY <1>2 DEF Client!Contexts, Client!Top
    <2>2. Len(frames) \in 1..Len(frames)
        BY <1>2, LenProperties DEF ClientInv, ClientTypeOK
    <2>3. ctx \in Nat /\ (ctx = 0 \/ Encloses(ctx, Len(frames) + 1))
        BY <2>1, <2>2, ClientTypes DEF ClientInv, StackInv, CtxInv, Frames
    <2>4. QED
        BY <1>2, <2>1, <2>3
<1>3. QED
    BY <1>1, <1>2

\* Only RoundTrip begins inside PerformRequest, which keeps it quiet.
Loud == frames # <<>> => /\ frames[Len(frames)].fn # "RoundTrip"
                         /\ frames[Len(frames)].fn = "PerformRequest" => ~frames[Len(frames)].quiet

LEMMA NoElasticAround ==
    ASSUME ClientInv, Loud, NEW ctx, ctx = 0 \/ Encloses(ctx, Len(frames) + 1),
           NEW p, p = Client!SpanFromContext(spans, ctx)
    PROVE  /\ p \in Nat /\ Encloses(p, Len(frames) + 1)
           /\ p # 0 => p \in 1..Len(spans) /\ spans[p].fn # "PerformRequest"
<1>1. PICK n \in Nat : n = Len(frames)
    BY ClientTypes DEF ClientInv
<1>2. Encloses(p, n + 1)
    BY <1>1, ParentEncloses DEF ClientInv, StackInv
<1>3. ASSUME p # 0 PROVE p \in 1..Len(spans) /\ spans[p].fn # "PerformRequest"
    <2>1. p \in 1..Len(spans) /\ (spans[p].fn = "app" \/ \E j \in 1..n : frames[j].span = p)
        BY <1>1, <1>2, <1>3, EnclosingIsSpan DEF ClientInv, StackInv
    <2>2. ASSUME NEW j \in 1..n, frames[j].span = p PROVE spans[p].fn # "PerformRequest"
        <3>1. spans[p].fn = frames[j].fn
            BY <1>1, <1>3, <2>2 DEF ClientInv, StackInv, FrameInv
        <3>2. ASSUME frames[j].fn = "PerformRequest" PROVE FALSE
            <4>1. /\ j = 1 /\ frames[1].quiet
                  /\ n = 1 \/ (n = 2 /\ frames[2].fn = "RoundTrip")
                BY <1>1, <1>3, <2>2, <3>2 DEF ClientInv, ShapeInv, ElasticInv
            <4>2. frames # <<>>
                BY <1>1, <4>1
            <4>3. QED
                BY <1>1, <3>2, <4>1, <4>2 DEF Loud
        <3>3. QED
            BY <3>1, <3>2
    <2>3. QED
        BY <2>1, <2>2
<1>4. p \in Nat
    BY <1>3
<1>5. QED
    BY <1>1, <1>2, <1>3, <1>4

\* A call begins, with a span of its own or without.
LEMMA CallBegins ==
    ASSUME ClientInv, NEW fn \in Fns, NEW ctx \in Nat, ctx = 0 \/ Encloses(ctx, Len(frames) + 1),
           NEW quiet \in BOOLEAN, NEW traced \in BOOLEAN,
           traced => Client!Enter(fn, ctx, quiet) /\ Loud,
           ~traced => Client!Pass(fn, ctx),
           \/ header' = header \/ header' = 0
           \/ traced /\ header' = Len(spans) + 1 /\ fn = "RoundTrip",
           \A e \in Frames : (e.fn = fn /\ (e.span # 0 <=> traced) /\ (traced => e.quiet = quiet))
                                => Fits(e)
    PROVE  ClientInv'
<1>1. CASE traced
    <2> PICK detached \in BOOLEAN : detached = FALSE
        OBVIOUS
    <2>1. PICK p : p = Client!SpanFromContext(spans, ctx)
        OBVIOUS
    <2>2. /\ p \in Nat /\ Encloses(p, Len(frames) + 1)
          /\ p # 0 => p \in 1..Len(spans) /\ spans[p].fn # "PerformRequest"
        BY <1>1, <2>1, NoElasticAround
    <2>3. /\ spans' = Client!Start(spans, ctx, fn)
          /\ frames' = Append(frames, [fn |-> fn, span |-> Len(spans) + 1, ctx |-> Len(spans) + 1,
                                       quiet |-> quiet, detached |-> detached])
          /\ UNCHANGED enabled
        BY <1>1 DEF Client!Enter
    <2>4. detached \/ Encloses(p, Len(frames) + 1)
        BY <2>2
    <2>5. \/ header' = header \/ header' = 0
          \/ header' = Len(spans) + 1 /\ fn = "RoundTrip"
        OBVIOUS
    <2>6. /\ ClientTypeOK' /\ StackInv' /\ ParentInv' /\ MarkInv'
          /\ \E e \in Frames : /\ e.fn = fn /\ e.span # 0 /\ e.quiet = quiet
                               /\ frames' = Append(frames, e)
        BY <2>1, <2>2, <2>3, <2>4, <2>5, EnterAny
    <2>7. ShapeInv'
        BY <1>1, <2>3, <2>6, ShapePush
    <2>8. QED
        BY <2>6, <2>7 DEF ClientInv
<1>2. CASE ~traced
    <2>1. /\ ClientTypeOK' /\ StackInv' /\ ParentInv' /\ MarkInv' /\ UNCHANGED enabled
          /\ \E e \in Frames : e.fn = fn /\ e.span = 0 /\ frames' = Append(frames, e)
        BY <1>2, PassAny
    <2>2. ShapeInv'
        BY <1>2, <2>1, ShapePush
    <2>3. QED
        BY <2>1, <2>2 DEF ClientInv
<1>3. QED
    BY <1>1, <1>2

\* What the top of the calls is, where there is one.
LEMMA TopIs ==
    ASSUME ClientInv
    PROVE  /\ Client!Top.quiet \in BOOLEAN
           /\ frames # <<>> => /\ Client!Top = frames[Len(frames)] /\ Len(frames) \in 1..Len(frames)
                               /\ frames[Len(frames)] \in Frames
           /\ frames = <<>> => Client!Top.fn = "app" /\ ~Client!Top.quiet
<1>1. CASE frames = <<>>
    BY <1>1 DEF Client!Top, Client!NoFrame
<1>2. CASE frames # <<>>
    <2>1. Len(frames) \in 1..Len(frames)
        BY <1>2, LenProperties DEF ClientInv, ClientTypeOK
    <2>2. frames[Len(frames)] \in Frames
        BY <2>1, ClientTypes DEF ClientInv
    <2>3. QED
        BY <1>2, <2>1, <2>2 DEF Client!Top, Frames
<1>3. QED
    BY <1>1, <1>2

LEMMA LinodeBegins ==
    ASSUME ClientInv, Client!StartAPICall \/ Client!DoRequest
    PROVE  ClientInv'
<1>1. PICK fn \in {"publicMethod", "doRequest"} : \E ctx \in Client!Contexts(fn) :
          /\ IF "linodego" \in enabled THEN Client!Enter(fn, ctx, Client!Top.quiet)
                                       ELSE Client!Pass(fn, ctx)
          /\ header' = header \/ header' = 0
    <2>1. CASE Client!StartAPICall
        BY <2>1 DEF Client!StartAPICall
    <2>2. CASE Client!DoRequest
        BY <2>2 DEF Client!DoRequest, Client!NoParent
    <2>3. QED
        BY <2>1, <2>2
<1> PICK ctx \in Client!Contexts(fn) :
          /\ IF "linodego" \in enabled THEN Client!Enter(fn, ctx, Client!Top.quiet)
                                       ELSE Client!Pass(fn, ctx)
          /\ header' = header \/ header' = 0
    BY <1>1
<1>2. PICK traced \in BOOLEAN : traced <=> "linodego" \in enabled
    OBVIOUS
<1>3. fn \in Fns /\ fn \notin Client!Processing \cup {"OnEvent", "PerformRequest", "RoundTrip"}
    BY DEF Fns, Client!Fns, Client!HTTPFns, Client!Processing
<1>4. PICK quiet \in BOOLEAN : quiet = Client!Top.quiet
    BY TopIs
<1>5. /\ ctx \in Nat
      /\ ctx = 0 \/ Encloses(ctx, Len(frames) + 1)
      /\ frames # <<>> => frames[Len(frames)].fn = "publicMethod" /\ fn = "doRequest"
    BY <1>3, ContextsFit
<1>6. Loud
    BY <1>5 DEF Loud
<1>7. \A e \in Frames : e.fn = fn => Fits(e)
    BY <1>3, <1>5 DEF Fits
<1>8. QED
    BY <1>1, <1>2, <1>3, <1>4, <1>5, <1>6, <1>7, CallBegins

LEMMA ElasticBegins ==
    ASSUME ClientInv, Client!PerformRequest
    PROVE  ClientInv'
<1> DEFINE fn == "PerformRequest"
<1>1. PICK ctx \in Client!Contexts(fn) :
          /\ IF "elastic" \in enabled THEN Client!Enter(fn, ctx, TRUE) ELSE Client!Pass(fn, ctx)
          /\ header' = 0
    BY DEF Client!PerformRequest, Client!NoParent
<1>2. PICK traced \in BOOLEAN : traced <=> "elastic" \in enabled
    OBVIOUS
<1>3. fn \in Fns /\ fn \notin Client!Processing \cup {"OnEvent", "RoundTrip", "doRequest"}
    BY DEF Fns, Client!Fns, Client!HTTPFns, Client!Processing
<1>4. ctx \in Nat /\ (ctx = 0 \/ Encloses(ctx, Len(frames) + 1)) /\ frames = <<>>
    BY <1>3, ContextsFit
<1>5. Loud
    BY <1>4 DEF Loud
<1>6. \A e \in Frames : (e.fn = fn /\ (e.span # 0 <=> traced) /\ (traced => e.quiet = TRUE)) => Fits(e)
    BY <1>3, <1>4 DEF Fits
<1>7. TRUE \in BOOLEAN
    OBVIOUS
<1> HIDE DEF fn
<1>8. QED
    BY <1>1, <1>2, <1>3, <1>4, <1>5, <1>6, <1>7, CallBegins

LEMMA RoundTripBegins ==
    ASSUME ClientInv, NEW exporter \in BOOLEAN, Client!RoundTrip(exporter)
    PROVE  ClientInv'
<1>1. PICK fn : fn = "RoundTrip"
    OBVIOUS
<1>2. PICK traced \in BOOLEAN : traced <=> ("nethttp" \in enabled /\ ~Client!Top.quiet /\ ~exporter)
    OBVIOUS
<1>3. PICK ctx \in Client!Contexts(fn) :
          /\ traced => Client!Enter(fn, ctx, FALSE) /\ header' = Len(spans) + 1
          /\ ~traced => Client!Pass(fn, ctx) /\ header' = 0
    BY <1>1, <1>2 DEF Client!RoundTrip, Client!NoParent
<1>4. fn \in Fns /\ fn \notin Client!Processing \cup {"OnEvent", "doRequest", "PerformRequest"}
    BY <1>1 DEF Fns, Client!Fns, Client!HTTPFns, Client!Processing
<1>5. /\ ctx \in Nat
      /\ ctx = 0 \/ Encloses(ctx, Len(frames) + 1)
      /\ frames # <<>> => frames[Len(frames)].fn \in {"doRequest", "PerformRequest"}
    BY <1>4, ContextsFit
<1>6. traced => Loud
    BY <1>2, <1>5, TopIs DEF Loud
<1>7. \A e \in Frames : e.fn = fn => Fits(e)
    BY <1>1, <1>4, <1>5 DEF Fits
<1>8. FALSE \in BOOLEAN
    OBVIOUS
<1>9. QED
    BY <1>1, <1>2, <1>3, <1>4, <1>5, <1>6, <1>7, <1>8, CallBegins

LEMMA ResendKeeps ==
    ASSUME ClientInv, Client!Resend
    PROVE  ClientInv'
<1>1. PICK fn : fn = "RoundTrip"
    OBVIOUS
<1>2. PICK ctx \in Client!Contexts(fn) : TRUE
    BY <1>1 DEF Client!Resend
<1>3. /\ header # 0 /\ spans' = Client!Start(spans, header, fn) /\ header' = Len(spans) + 1
      /\ frames' = Append(frames, [fn |-> fn, span |-> Len(spans) + 1, ctx |-> Len(spans) + 1,
                                   quiet |-> FALSE, detached |-> TRUE])
      /\ UNCHANGED enabled
    BY <1>1 DEF Client!Resend, Client!NoParent
<1>4. fn \in Fns /\ fn \notin Client!Processing \cup {"OnEvent", "doRequest", "PerformRequest"}
    BY <1>1 DEF Fns, Client!Fns, Client!HTTPFns, Client!Processing
<1>5. header \in Nat /\ header \in 1..Len(spans) /\ spans[header].fn # "PerformRequest"
    BY <1>3 DEF ClientInv, ClientTypeOK, ParentInv
<1>6. header = Client!SpanFromContext(spans, header)
    BY <1>3 DEF Client!SpanFromContext, Client!NoParent
<1>7. FALSE \in BOOLEAN /\ TRUE \in BOOLEAN
    OBVIOUS
<1>8. /\ ClientTypeOK' /\ StackInv' /\ ParentInv' /\ MarkInv'
      /\ \E e \in Frames : e.fn = fn /\ e.span # 0 /\ e.quiet = FALSE /\ frames' = Append(frames, e)
    BY <1>1, <1>3, <1>4, <1>5, <1>6, <1>7, EnterAny
<1>9. \A e \in Frames : e.fn = fn => Fits(e)
    <2>1. frames # <<>> => frames[Len(frames)].fn \in {"doRequest", "PerformRequest"}
        BY <1>2, <1>4, ContextsFit
    <2>2. QED
        BY <1>1, <1>4, <2>1 DEF Fits
<1>10. ShapeInv'
    BY <1>3, <1>8, <1>9, ShapePush
<1>11. QED
    BY <1>8, <1>10 DEF ClientInv

LEMMA RedisBegins ==
    ASSUME ClientInv, Client!ProcessHook
    PROVE  ClientInv'
<1>1. PICK fn : fn = "ProcessHook"
    OBVIOUS
<1>2. PICK ctx \in Client!Contexts(fn) :
          /\ IF "redis" \in enabled THEN Client!Enter(fn, ctx, Client!Top.quiet)
                                    ELSE Client!Pass(fn, ctx)
          /\ header' = header
    BY <1>1 DEF Client!ProcessHook
<1>3. PICK traced \in BOOLEAN : traced <=> "redis" \in enabled
    OBVIOUS
<1>4. fn \in Fns /\ fn \notin Client!Processing \cup {"OnEvent", "PerformRequest", "RoundTrip", "doRequest"}
    BY <1>1 DEF Fns, Client!Fns, Client!HTTPFns, Client!Processing
<1>5. PICK quiet \in BOOLEAN : quiet = Client!Top.quiet
    BY TopIs
<1>6. ctx \in Nat /\ (ctx = 0 \/ Encloses(ctx, Len(frames) + 1)) /\ frames = <<>>
    BY <1>4, ContextsFit
<1>7. Loud
    BY <1>6 DEF Loud
<1>8. \A e \in Frames : e.fn = fn => Fits(e)
    BY <1>4, <1>6 DEF Fits
<1>9. QED
    BY <1>2, <1>3, <1>4, <1>5, <1>6, <1>7, <1>8, CallBegins

LEMMA DeltasBegin ==
    ASSUME ClientInv, NEW fn \in Client!Processing, Client!processDeltas(fn)
    PROVE  ClientInv'
<1>1. PICK traced \in BOOLEAN : traced <=> "k8s" \in enabled
    OBVIOUS
<1>2. PICK ctx : ctx = 0
    OBVIOUS
<1>3. /\ traced => Client!Enter(fn, ctx, FALSE)
      /\ ~traced => Client!Pass(fn, ctx)
      /\ header' = header
      /\ frames = <<>> \/ (Client!Top.fn = "processDeltasInBatch" /\ fn = "processDeltas")
    BY <1>1, <1>2 DEF Client!processDeltas, Client!NoParent
<1>4. fn \in Fns /\ fn \notin {"OnEvent", "PerformRequest", "RoundTrip", "doRequest"}
    BY DEF Fns, Client!Fns, Client!HTTPFns, Client!Processing
<1>5. frames # <<>> => frames[Len(frames)].fn = "processDeltasInBatch" /\ fn = "processDeltas"
    BY <1>3, TopIs
<1>6. Loud
    BY <1>5 DEF Loud
<1>7. \A e \in Frames : (e.fn = fn /\ (e.span # 0 <=> traced)) => Fits(e)
    BY <1>1, <1>4, <1>5 DEF Fits
<1>8. ctx \in Nat /\ FALSE \in BOOLEAN
    BY <1>2
<1>9. QED
    BY <1>1, <1>2, <1>3, <1>4, <1>6, <1>7, <1>8, CallBegins

\* The model's Cardinality is FiniteSets'.
LEMMA CardinalityIsSame == \A S : Client!Cardinality(S) = Cardinality(S)
BY DEF Client!Cardinality, Cardinality

\* The n-th wrapper of a handler has a span under way: in a batch there are two, the
\* batch's and the delta's, and they are the outermost calls.
LEMMA WrapperOf ==
    ASSUME ClientInv, NEW n \in Nat, n >= 1,
           n <= Cardinality({i \in DOMAIN frames : frames[i].fn \in Client!Processing
                                                    /\ frames[i].span # Client!NoParent})
    PROVE  /\ frames # <<>> /\ frames[1].fn \in Client!Processing
           /\ \E j \in 1..Len(frames) :
                 /\ Client!WrapperContext(n) = frames[j].span
                 /\ frames[j].fn \in Client!Processing /\ frames[j].span # 0
                 /\ (n = 1 /\ \A i \in 1..Len(frames) : frames[i].fn # "OnEvent") => j = Len(frames)
<1>1. PICK m \in Nat : m = Len(frames) /\ DOMAIN frames = 1..m
    BY ClientTypes, Zenon DEF ClientInv
<1>2. PICK W : W = {i \in DOMAIN frames : frames[i].fn \in Client!Processing}
    OBVIOUS
<1>3. PICK V : V = {i \in 1..m : frames[i].fn \in Client!Processing /\ frames[i].span # 0}
    OBVIOUS
<1>4. n <= Cardinality(V)
    BY <1>1, <1>3 DEF Client!NoParent
<1>5. V # {}
    BY <1>4, FS_EmptySet
<1>6. W = V
    BY <1>1, <1>2, <1>3, <1>5 DEF ClientInv, ShapeInv, NestingInv
<1>7. \A i \in W : i = 1 \/ (i = 2 /\ 1 \in W)
    BY <1>1, <1>2 DEF ClientInv, ShapeInv, NestingInv, Client!Processing
<1>8. 1 \in W /\ frames[1].fn \in Client!Processing
    BY <1>2, <1>5, <1>6, <1>7
<1>9. PICK w \in {1, 2} : W = 1..w /\ Cardinality(W) = w
    <2>1. CASE 2 \in W
        <3>1. PICK a \in Int, b \in Int : a = 1 /\ b = 2
            OBVIOUS
        <3>2. W = a..b
            BY <1>7, <1>8, <2>1, <3>1
        <3>3. Cardinality(a..b) = IF a > b THEN 0 ELSE b - a + 1
            BY FS_Interval
        <3>4. QED
            BY <3>1, <3>2, <3>3
    <2>2. CASE 2 \notin W
        <3>1. PICK a \in Int, b \in Int : a = 1 /\ b = 1
            OBVIOUS
        <3>2. W = a..b
            BY <1>7, <1>8, <2>2, <3>1
        <3>3. Cardinality(a..b) = IF a > b THEN 0 ELSE b - a + 1
            BY FS_Interval
        <3>4. QED
            BY <3>1, <3>2, <3>3
    <2>3. QED
        BY <2>1, <2>2
<1>10. PICK j \in W : j = w + 1 - n
    BY <1>4, <1>6, <1>9
<1>11. Client!WrapperContext(n) = frames[j].span
    <2>1. Client!WrapperContext(n) = frames[Cardinality(W) + 1 - n].span
        BY <1>2, CardinalityIsSame DEF Client!WrapperContext
    <2>2. QED
        BY <1>9, <1>10, <2>1
<1>12. j \in 1..m /\ frames[j].fn \in Client!Processing /\ frames[j].span # 0
    BY <1>3, <1>6
<1>13. ASSUME n = 1, \A i \in 1..m : frames[i].fn # "OnEvent" PROVE j = m
    <2>1. \A i \in 1..m : frames[i].fn \in Client!Processing
        BY <1>1, <1>2, <1>8, <1>13 DEF ClientInv, ShapeInv, NestingInv
    <2>2. W = 1..m
        BY <1>1, <1>2, <2>1
    <2>3. w = m
        BY <1>9, <2>2
    <2>4. QED
        BY <1>10, <1>13, <2>3
<1>14. QED
    BY <1>1, <1>2, <1>8, <1>11, <1>12, <1>13

LEMMA OnEventBegins ==
    ASSUME ClientInv, Client!OnEvent
    PROVE  ClientInv'
<1>1. PICK E : E = {i \in DOMAIN frames : frames[i].fn = "OnEvent"}
    OBVIOUS
<1>2. PICK m \in Nat : m = Len(frames) /\ DOMAIN frames = 1..m
    BY ClientTypes, Zenon DEF ClientInv
<1>3. IsFiniteSet(E) /\ Cardinality(E) \in Nat
    <2>1. E \subseteq 1..m /\ IsFiniteSet(1..m)
        BY <1>1, <1>2, FS_Interval
    <2>2. QED
        BY <2>1, FS_Subset, FS_CardinalityType
<1>4. PICK n \in Nat : n = 1 + Cardinality(E) /\ n >= 1
    BY <1>3
<1>5. /\ n <= Cardinality({i \in DOMAIN frames : frames[i].fn \in Client!Processing
                                                  /\ frames[i].span # Client!NoParent})
      /\ UNCHANGED <<linked, enabled, header>>
    BY <1>1, <1>4, CardinalityIsSame DEF Client!OnEvent
<1>21. /\ spans' = Client!Start(spans, Client!WrapperContext(n), "OnEvent")
       /\ frames' = Append(frames, [fn |-> "OnEvent", span |-> Len(spans) + 1,
                                   ctx |-> Len(spans) + 1, quiet |-> FALSE, detached |-> n > 1])
    BY <1>1, <1>4, CardinalityIsSame DEF Client!OnEvent
<1>6. /\ frames # <<>> /\ frames[1].fn \in Client!Processing
      /\ \E j \in 1..Len(frames) :
            /\ Client!WrapperContext(n) = frames[j].span
            /\ frames[j].fn \in Client!Processing /\ frames[j].span # 0
            /\ (n = 1 /\ \A i \in 1..Len(frames) : frames[i].fn # "OnEvent") => j = Len(frames)
    BY <1>4, <1>5, WrapperOf
<1>7. PICK j \in 1..m :
            /\ Client!WrapperContext(n) = frames[j].span
            /\ frames[j].fn \in Client!Processing /\ frames[j].span # 0
            /\ (n = 1 /\ \A i \in 1..m : frames[i].fn # "OnEvent") => j = m
    BY <1>2, <1>6
<1>8. PICK p : p = frames[j].span
    OBVIOUS
<1>9. /\ p \in Nat /\ p # 0 /\ p \in 1..Len(spans) /\ spans[p].fn # "PerformRequest"
      /\ p = Client!SpanFromContext(spans, p)
    BY <1>2, <1>7, <1>8, ClientTypes
       DEF ClientInv, StackInv, FrameInv, Client!Processing, Client!SpanFromContext, Client!NoParent
<1>10. n > 1 \/ Encloses(p, m + 1)
    <2>1. ASSUME ~(n > 1) PROVE j = m
        <3>1. n = 1 /\ Cardinality(E) = 0
            BY <1>3, <1>4, <2>1
        <3>2. E = {}
            BY <1>3, <3>1, FS_EmptySet
        <3>3. QED
            BY <1>1, <1>2, <1>7, <3>1, <3>2
    <2>2. ASSUME j = m PROVE Encloses(p, m + 1)
        BY <1>7, <1>8, <2>2 DEF Encloses
    <2>3. QED
        BY <2>1, <2>2
<1>11. PICK fn : fn = "OnEvent"
    OBVIOUS
<1>12. fn \in Fns
    BY <1>11 DEF Fns, Client!Fns
<1>13. PICK detached \in BOOLEAN : detached <=> n > 1
    OBVIOUS
<1>14. detached = (n > 1) /\ FALSE \in BOOLEAN
    BY <1>13
<1>15. /\ spans' = Client!Start(spans, p, fn)
       /\ frames' = Append(frames, [fn |-> fn, span |-> Len(spans) + 1, ctx |-> Len(spans) + 1,
                                    quiet |-> FALSE, detached |-> detached])
       /\ UNCHANGED enabled /\ header' = header
    BY <1>5, <1>7, <1>8, <1>11, <1>14, <1>21
<1>16. detached \/ Encloses(p, Len(frames) + 1)
    BY <1>2, <1>10, <1>13
<1>17. /\ ClientTypeOK' /\ StackInv' /\ ParentInv' /\ MarkInv'
       /\ \E e \in Frames : e.fn = fn /\ e.span # 0 /\ e.quiet = FALSE /\ frames' = Append(frames, e)
    BY <1>9, <1>12, <1>14, <1>15, <1>16, EnterAny
<1>18. \A e \in Frames : e.fn = fn => Fits(e)
    BY <1>6, <1>11 DEF Fits
<1>19. ShapeInv'
    BY <1>15, <1>17, <1>18, ShapePush
<1>20. QED
    BY <1>17, <1>19 DEF ClientInv

\* Only a call under way returns.
LEMMA Returning ==
    ASSUME ClientInv, Client!Top.fn \in Fns
    PROVE  /\ frames # <<>>
           /\ \E s \in Nat : /\ s = Client!Top.span /\ s = frames[Len(frames)].span
                             /\ s # 0 => /\ s \in 1..Len(spans) /\ ~spans[s].ended /\ ~spans[s].error
                                         /\ spans[s].fn = Client!Top.fn
<1>1. "app" \notin Fns
    BY DEF Fns, Client!Fns, Client!HTTPFns, Client!Processing
<1>2. frames # <<>>
    BY <1>1, TopIs
<1>3. PICK n \in 1..Len(frames) : n = Len(frames) /\ frames[n] \in Frames /\ Client!Top = frames[n]
    BY <1>2, TopIs
<1>4. PICK s \in Nat : s = frames[n].span
    BY <1>3 DEF Frames
<1>5. ASSUME s # 0
      PROVE  s \in 1..Len(spans) /\ ~spans[s].ended /\ spans[s].fn = frames[n].fn /\ ~spans[s].error
    <2>1. s \in 1..Len(spans) /\ ~spans[s].ended /\ spans[s].fn = frames[n].fn
        BY <1>3, <1>4, <1>5 DEF ClientInv, StackInv, FrameInv
    <2>2. QED
        BY <2>1 DEF ClientInv, StackInv, LiveInv
<1>6. QED
    BY <1>2, <1>3, <1>4, <1>5

LEMMA CallEnds ==
    ASSUME ClientInv, Client!Top.fn \in Fns, Client!Pop, NEW r \in Outcomes, NEW failed \in BOOLEAN,
           failed <=> r \in {"status", "error"},
           spans' = Client!MarkThenEnd(Client!Top.span, failed, r)
    PROVE  ClientInv'
<1>1. PICK s \in Nat : /\ s = Client!Top.span /\ s = frames[Len(frames)].span
                       /\ s # 0 => /\ s \in 1..Len(spans) /\ ~spans[s].ended /\ ~spans[s].error
                                   /\ spans[s].fn = Client!Top.fn
    BY Returning
<1>2. /\ frames # <<>> /\ frames' = SubSeq(frames, 1, Len(frames) - 1)
      /\ UNCHANGED <<enabled, header>>
    BY Returning DEF Client!Pop
<1>3. s = 0 => UNCHANGED spans
    BY <1>1 DEF Client!MarkThenEnd, Client!NoParent
<1>4. ASSUME s # 0 PROVE Over(spans, spans', s, r) /\ (spans'[s].error <=> failed)
    <2>1. spans' = Client!CameTo(Client!EndSpan(IF failed THEN Client!SetError(spans, s)
                                                ELSE spans, s), s, r)
        BY <1>1, <1>4 DEF Client!MarkThenEnd, Client!NoParent
    <2>2. QED
        BY <1>1, <1>4, <2>1, MarkedThenEnded DEF ClientInv, ClientTypeOK
<1>5. ClientTypeOK' /\ StackInv' /\ ParentInv' /\ MarkInv'
    BY <1>1, <1>2, <1>3, <1>4, PopKeeps
<1>6. ShapeInv'
    BY <1>2, ShapePop
<1>7. QED
    BY <1>5, <1>6 DEF ClientInv

LEMMA DoRequestEnds ==
    ASSUME ClientInv, NEW r \in Client!Results, Client!EndDoRequest(r)
    PROVE  ClientInv'
<1>1. "doRequest" \in Fns /\ r \in Outcomes
    BY DEF Fns, Client!Fns, Client!HTTPFns, Outcomes
<1>2. Client!Top.fn \in Fns /\ Client!Top.fn = "doRequest" /\ Client!Pop
    BY <1>1 DEF Client!EndDoRequest
<1>3. PICK s \in Nat : /\ s = Client!Top.span /\ s = frames[Len(frames)].span
                       /\ s # 0 => /\ s \in 1..Len(spans) /\ ~spans[s].ended /\ ~spans[s].error
                                   /\ spans[s].fn = Client!Top.fn
    BY <1>2, Returning
<1>4. /\ frames # <<>> /\ frames' = SubSeq(frames, 1, Len(frames) - 1)
      /\ UNCHANGED <<enabled, header>>
    BY <1>2, Returning DEF Client!Pop
<1>5. s = 0 => UNCHANGED spans
    BY <1>3 DEF Client!EndDoRequest, Client!NoParent
<1>6. ASSUME s # 0 PROVE Over(spans, spans', s, r)
    <2>1. PICK log2 : log2 = Client!CameTo(Client!EndSpan(spans, s), s, r)
        OBVIOUS
    <2>2. spans' = log2 \/ spans' = Client!SetError(log2, s)
        BY <1>3, <1>6, <2>1 DEF Client!EndDoRequest, Client!NoParent
    <2>3. QED
        BY <1>1, <1>3, <1>6, <2>1, <2>2, EndedThenMarked DEF ClientInv, ClientTypeOK
<1>7. s # 0 => spans[s].fn = "doRequest"
    BY <1>2, <1>3
<1>8. ClientTypeOK' /\ StackInv' /\ ParentInv' /\ MarkInv'
    BY <1>3, <1>4, <1>5, <1>6, <1>7, PopKeeps
<1>9. ShapeInv'
    BY <1>4, ShapePop
<1>10. QED
    BY <1>8, <1>9 DEF ClientInv

\* All other hooks mark the span first.
LEMMA OthersEnd ==
    ASSUME ClientInv, NEW r \in Client!Results,
           \/ Client!EndProcessHook(r) \/ Client!EndProcessDeltas(r) \/ Client!EndOnEvent(r)
           \/ Client!EndAPICall(r) \/ Client!EndPerformRequest(r) \/ Client!EndRoundTrip(r)
    PROVE  ClientInv'
<1>1. PICK failed \in BOOLEAN : failed <=> r \in {"status", "error"}
    OBVIOUS
<1>2. failed = (r \in {"status", "error"}) /\ r \in Outcomes
    BY <1>1 DEF Outcomes
<1>3. {"publicMethod", "PerformRequest", "RoundTrip", "ProcessHook", "OnEvent"}
        \cup Client!Processing \subseteq Fns
    BY DEF Fns, Client!Fns, Client!HTTPFns
<1>4. CASE Client!EndProcessHook(r) \/ Client!EndProcessDeltas(r)
    <2>1. failed = (r = "error") /\ Client!Top.fn \in Fns /\ Client!Pop
        BY <1>1, <1>3, <1>4 DEF Client!EndProcessHook, Client!EndProcessDeltas
    <2>2. spans' = Client!MarkThenEnd(Client!Top.span, failed, r)
        BY <1>4, <2>1 DEF Client!EndProcessHook, Client!EndProcessDeltas
    <2>3. QED
        BY <1>1, <1>2, <2>1, <2>2, CallEnds
<1>5. CASE Client!EndOnEvent(r)
    <2>1. failed = FALSE /\ Client!Top.fn \in Fns /\ Client!Pop
        BY <1>1, <1>3, <1>5 DEF Client!EndOnEvent
    <2>2. spans' = Client!MarkThenEnd(Client!Top.span, failed, r)
        BY <1>5, <2>1 DEF Client!EndOnEvent
    <2>3. QED
        BY <1>1, <1>2, <2>1, <2>2, CallEnds
<1>6. CASE Client!EndAPICall(r) \/ Client!EndPerformRequest(r) \/ Client!EndRoundTrip(r)
    <2>1. Client!Top.fn \in Fns /\ Client!Pop
        BY <1>3, <1>6 DEF Client!EndAPICall, Client!EndPerformRequest, Client!EndRoundTrip
    <2>2. spans' = Client!MarkThenEnd(Client!Top.span, failed, r)
        BY <1>2, <1>6
           DEF Client!EndAPICall, Client!EndPerformRequest, Client!EndRoundTrip, Client!LinodeError
    <2>3. QED
        BY <1>1, <1>2, <2>1, <2>2, CallEnds
<1>7. QED
    BY <1>4, <1>5, <1>6

\* Nothing instrumented is under way, before the step nor after.
LEMMA IdleKeeps ==
    ASSUME ClientInv, frames = <<>>, UNCHANGED <<enabled, frames, header>>,
           spans' \in Seq(Spans), Len(spans) <= Len(spans'),
           \A i \in 1..Len(spans) : spans'[i].fn = spans[i].fn,
           \A i, j \in 1..Len(spans') :
               (~spans'[i].ended /\ ~spans'[j].ended /\ spans'[i].fn = "app" /\ spans'[j].fn = "app")
                   => i = j,
           \A i \in 1..Len(spans') : ~spans'[i].ended => ~spans'[i].error /\ spans'[i].fn = "app",
           \A i \in 1..Len(spans') : spans'[i].parent # 0 =>
               spans'[i].parent \in 1..Len(spans') /\ spans'[spans'[i].parent].fn # "PerformRequest",
           MarkInv'
    PROVE  ClientInv'
<1>1. Len(frames) = 0 /\ Len(frames') = 0 /\ 1..0 = {}
    OBVIOUS
<1>2. ClientTypeOK'
    BY DEF ClientInv, ClientTypeOK
<1>3. Client!AppSpans' = {i \in 1..Len(spans') : ~spans'[i].ended /\ spans'[i].fn = "app"}
    <2>1. DOMAIN spans' = 1..Len(spans')
        BY LenProperties
    <2>2. QED
        BY <2>1 DEF Client!AppSpans, Client!Live
<1>4. FrameInv' /\ CtxInv' /\ TreeInv'
    BY <1>1 DEF FrameInv, CtxInv, TreeInv
<1>5. AppInv'
    BY <1>1, <1>3 DEF AppInv
<1>6. LiveInv'
    BY <1>3 DEF LiveInv
<1>7. Len(spans) \in Nat /\ Len(spans') \in Nat
    BY ClientTypes, LenProperties DEF ClientInv
<1>8. ParentInv'
    BY <1>7 DEF ClientInv, ParentInv
<1>9. ShapeInv'
    BY <1>1 DEF ShapeInv, ElasticInv, NestingInv
<1>10. QED
    BY <1>2, <1>4, <1>5, <1>6, <1>8, <1>9 DEF ClientInv, StackInv

\* Between calls only the application's span is live, and it may be a parent.
LEMMA IdleSpans ==
    ASSUME ClientInv, frames = <<>>
    PROVE  /\ \A i \in 1..Len(spans) : ~spans[i].ended => ~spans[i].error /\ spans[i].fn = "app"
           /\ Client!AppSpans = {i \in 1..Len(spans) : ~spans[i].ended /\ spans[i].fn = "app"}
           /\ \A ctx \in {0} \cup Client!AppSpans : LET p == Client!SpanFromContext(spans, ctx) IN
                 p \in Nat /\ (p # 0 => p \in 1..Len(spans) /\ spans[p].fn # "PerformRequest")
<1>1. Len(frames) = 0 /\ 1..0 = {}
    OBVIOUS
<1>2. Client!AppSpans = {i \in 1..Len(spans) : ~spans[i].ended /\ spans[i].fn = "app"}
    BY AppSpansAre DEF ClientInv
<1>3. \A i \in 1..Len(spans) : ~spans[i].ended => ~spans[i].error /\ spans[i].fn = "app"
    BY <1>1, <1>2 DEF ClientInv, StackInv, LiveInv
<1>4. ASSUME NEW ctx \in {0} \cup Client!AppSpans, NEW p, p = Client!SpanFromContext(spans, ctx)
      PROVE  p \in Nat /\ (p # 0 => p \in 1..Len(spans) /\ spans[p].fn # "PerformRequest")
    <2>1. ctx = 0 \/ Encloses(ctx, Len(frames) + 1)
        BY <1>1 DEF Encloses
    <2>2. Loud
        BY DEF Loud
    <2>3. QED
        BY <1>4, <2>1, <2>2, NoElasticAround
<1>5. QED
    BY <1>2, <1>3, <1>4

LEMMA AppStarts ==
    ASSUME ClientInv, Client!AppStart
    PROVE  ClientInv'
<1>1. /\ frames = <<>> /\ Client!AppSpans = {} /\ spans' = Client!Start(spans, 0, "app")
      /\ UNCHANGED <<enabled, frames, header>>
    BY DEF Client!AppStart, Client!NoParent
<1>2. PICK m \in Nat : m = Len(spans)
    BY ClientTypes DEF ClientInv
<1>3. PICK p : p = Client!SpanFromContext(spans, 0)
    OBVIOUS
<1>4. p \in Nat /\ (p # 0 => p \in 1..m /\ spans[p].fn # "PerformRequest")
    BY <1>1, <1>2, <1>3, IdleSpans
<1>5. PICK s : s = [fn |-> "app", parent |-> p, ended |-> FALSE, error |-> FALSE,
                    outcome |-> "running"]
    OBVIOUS
<1>6. s \in Spans /\ s.fn = "app" /\ ~s.ended /\ ~s.error /\ s.parent = p
    BY <1>4, <1>5 DEF Spans, SpanFns, Outcomes
<1>7. spans' = Append(spans, s)
    BY <1>1, <1>3, <1>5 DEF Client!Start
<1>8. /\ spans' \in Seq(Spans) /\ Len(spans') = m + 1 /\ spans'[m + 1] = s
      /\ \A i \in 1..m : spans'[i] = spans[i]
      /\ \A i \in 1..(m + 1) : i = m + 1 \/ i \in 1..m
      /\ \A i \in 1..m : i \in 1..(m + 1)
    BY <1>2, <1>6, <1>7, AppendProperties DEF ClientInv, ClientTypeOK
<1>9. \A i \in 1..m : spans[i].ended
    BY <1>1, <1>2, IdleSpans
<1>10. \A i \in 1..(m + 1) : ~spans'[i].ended => i = m + 1
    BY <1>8, <1>9
<1>11. ASSUME NEW i \in 1..(m + 1), spans'[i].parent # 0
       PROVE  spans'[i].parent \in 1..(m + 1) /\ spans'[spans'[i].parent].fn # "PerformRequest"
    <2>1. CASE i = m + 1
        BY <1>4, <1>6, <1>8, <1>11, <2>1
    <2>2. CASE i \in 1..m
        BY <1>2, <1>8, <1>11, <2>2 DEF ClientInv, ParentInv
    <2>3. QED
        BY <1>8, <2>1, <2>2
<1>12. MarkInv'
    BY <1>2, <1>6, <1>8 DEF ClientInv, MarkInv
<1>13. QED
    BY <1>1, <1>2, <1>6, <1>8, <1>10, <1>11, <1>12, IdleKeeps

LEMMA AppEnds ==
    ASSUME ClientInv, Client!AppEnd
    PROVE  ClientInv'
<1>1. PICK a \in Client!AppSpans : /\ frames = <<>> /\ spans' = Client!EndSpan(spans, a)
                                   /\ UNCHANGED <<enabled, frames, header>>
    BY DEF Client!AppEnd
<1>2. PICK m \in Nat : m = Len(spans)
    BY ClientTypes DEF ClientInv
<1>3. a \in 1..m /\ spans[a].fn = "app" /\ spans[a] \in Spans
    BY <1>2, ClientTypes, AppSpansAre DEF ClientInv
<1>4. PICK e : e = [spans[a] EXCEPT !.ended = TRUE]
    OBVIOUS
<1>5. e \in Spans /\ e.ended /\ e.fn = "app" /\ e.parent = spans[a].parent
    BY <1>3, <1>4 DEF Spans
<1>6. spans' = [spans EXCEPT ![a] = e]
    BY <1>1, <1>4 DEF Client!EndSpan
<1>7. /\ spans' \in Seq(Spans) /\ Len(spans') = m /\ spans'[a] = e
      /\ \A i \in 1..m : i # a => spans'[i] = spans[i]
    BY <1>2, <1>3, <1>5, <1>6, ExceptSeq DEF ClientInv, ClientTypeOK
<1>8. \A i \in 1..m : spans'[i].fn = spans[i].fn /\ spans'[i].parent = spans[i].parent
    BY <1>3, <1>5, <1>7
<1>9. \A i \in 1..m : ~spans'[i].ended => i # a /\ spans'[i] = spans[i]
    BY <1>5, <1>7
<1>10. \A i \in 1..m : ~spans'[i].ended => ~spans'[i].error /\ spans'[i].fn = "app"
    BY <1>1, <1>2, <1>9, IdleSpans
<1>11. ASSUME NEW i \in 1..m, NEW j \in 1..m, ~spans'[i].ended, ~spans'[j].ended
       PROVE  i = j
    <2>1. i \in Client!AppSpans /\ j \in Client!AppSpans
        BY <1>1, <1>2, <1>9, <1>11, IdleSpans
    <2>2. QED
        BY <2>1 DEF ClientInv, StackInv, AppInv
<1>12. \A i \in 1..m : spans'[i].parent # 0 =>
           spans'[i].parent \in 1..m /\ spans'[spans'[i].parent].fn # "PerformRequest"
    BY <1>2, <1>8 DEF ClientInv, ParentInv
<1>13. MarkInv'
    <2>1. "app" \notin Fns
        BY DEF Fns, Client!Fns, Client!HTTPFns, Client!Processing
    <2>2. QED
        BY <1>2, <1>5, <1>7, <2>1 DEF ClientInv, MarkInv
<1>14. QED
    BY <1>1, <1>2, <1>7, <1>8, <1>10, <1>11, <1>12, <1>13, IdleKeeps

LEMMA Observed ==
    ASSUME ClientInv, NEW ctx \in {0} \cup Client!AppSpans, NEW r \in Client!Results,
           Client!ObserveQuery(ctx, r)
    PROVE  ClientInv'
<1>1. frames = <<>> /\ r \in {"ok", "error"} /\ UNCHANGED <<enabled, frames, header>>
    BY DEF Client!ObserveQuery
<1>2. PICK m \in Nat : m = Len(spans)
    BY ClientTypes DEF ClientInv
<1>3. PICK p : p = Client!SpanFromContext(spans, ctx)
    OBVIOUS
<1>4. p \in Nat /\ (p # 0 => p \in 1..m /\ spans[p].fn # "PerformRequest")
    BY <1>1, <1>2, <1>3, IdleSpans
<1>5. PICK s : s = [fn |-> "ObserveQuery", parent |-> p, ended |-> FALSE, error |-> FALSE,
                    outcome |-> "running"]
    OBVIOUS
<1>6. /\ s \in Spans /\ s.fn = "ObserveQuery" /\ ~s.ended /\ ~s.error /\ s.parent = p
    BY <1>4, <1>5 DEF Spans, SpanFns, Fns, Client!Fns, Outcomes
<1>7. PICK log : log = Append(spans, s)
    OBVIOUS
<1>8. /\ log \in Seq(Spans) /\ Len(log) = m + 1 /\ log[m + 1] = s
      /\ \A i \in 1..m : log[i] = spans[i]
      /\ \A i \in 1..(m + 1) : i = m + 1 \/ i \in 1..m
      /\ \A i \in 1..m : i \in 1..(m + 1) /\ i # m + 1
      /\ m + 1 \in 1..(m + 1)
    BY <1>2, <1>6, <1>7, AppendProperties DEF ClientInv, ClientTypeOK
<1>9. PICK failed \in BOOLEAN : failed <=> r = "error"
    OBVIOUS
<1>10. failed = (r = "error") /\ r \in Outcomes
    BY <1>9 DEF Outcomes
<1>11. PICK n : n = m + 1
    OBVIOUS
<1>12. log = Client!Start(spans, ctx, "ObserveQuery")
    BY <1>3, <1>5, <1>7 DEF Client!Start
<1>13. spans' = Client!CameTo(Client!EndSpan(IF failed THEN Client!SetError(log, n) ELSE log, n), n, r)
    BY <1>8, <1>10, <1>11, <1>12 DEF Client!ObserveQuery
<1>14. Over(log, spans', n, r) /\ (spans'[n].error <=> failed)
    <2>1. n \in 1..Len(log) /\ ~log[n].ended /\ ~log[n].error
        BY <1>6, <1>8, <1>11
    <2>2. QED
        BY <1>8, <1>10, <1>13, <2>1, MarkedThenEnded
<1>15. /\ spans' \in Seq(Spans) /\ Len(spans') = m + 1
       /\ spans'[n].ended /\ spans'[n].outcome = r /\ spans'[n].fn = "ObserveQuery"
       /\ spans'[n].parent = p
       /\ \A i \in 1..m : spans'[i] = spans[i]
    BY <1>6, <1>8, <1>11, <1>14 DEF Over
<1>16. \A i \in 1..(m + 1) : ~spans'[i].ended => i \in 1..m /\ spans'[i] = spans[i]
    BY <1>8, <1>11, <1>15
<1>17. \A i \in 1..(m + 1) : ~spans'[i].ended => ~spans'[i].error /\ spans'[i].fn = "app"
    BY <1>1, <1>2, <1>16, IdleSpans
<1>18. ASSUME NEW i \in 1..(m + 1), NEW j \in 1..(m + 1), ~spans'[i].ended, ~spans'[j].ended
       PROVE  i = j
    <2>1. i \in Client!AppSpans /\ j \in Client!AppSpans
        BY <1>1, <1>2, <1>16, <1>18, IdleSpans
    <2>2. QED
        BY <2>1 DEF ClientInv, StackInv, AppInv
<1>19. ASSUME NEW i \in 1..(m + 1), spans'[i].parent # 0
       PROVE  spans'[i].parent \in 1..(m + 1) /\ spans'[spans'[i].parent].fn # "PerformRequest"
    <2>1. CASE i = m + 1
        BY <1>4, <1>8, <1>11, <1>15, <1>19, <2>1
    <2>2. CASE i \in 1..m
        BY <1>2, <1>8, <1>15, <1>19, <2>2 DEF ClientInv, ParentInv
    <2>3. QED
        BY <1>8, <2>1, <2>2
<1>20. MarkInv'
    <2>1. ASSUME NEW i \in 1..(m + 1), spans'[i].fn \in Fns \ {"doRequest"}, spans'[i].ended
          PROVE  spans'[i].error <=> spans'[i].outcome \in {"status", "error"}
        <3>1. CASE i = m + 1
            BY <1>1, <1>9, <1>11, <1>14, <1>15, <3>1
        <3>2. CASE i \in 1..m
            BY <1>2, <1>15, <2>1, <3>2 DEF ClientInv, MarkInv
        <3>3. QED
            BY <1>8, <3>1, <3>2
    <2>2. QED
        BY <1>15, <2>1 DEF MarkInv
<1>21. QED
    BY <1>1, <1>2, <1>15, <1>17, <1>18, <1>19, <1>20, IdleKeeps

LEMMA ClientNext ==
    ASSUME ClientInv, Client!Next
    PROVE  ClientInv'
<1>1. CASE Client!AppStart
    BY <1>1, AppStarts
<1>2. CASE Client!AppEnd
    BY <1>2, AppEnds
<1>3. CASE Client!StartAPICall \/ Client!DoRequest
    BY <1>3, LinodeBegins
<1>4. CASE Client!PerformRequest
    BY <1>4, ElasticBegins
<1>5. ASSUME NEW exporter \in BOOLEAN, Client!RoundTrip(exporter) PROVE ClientInv'
    BY <1>5, RoundTripBegins
<1>6. CASE Client!Resend
    BY <1>6, ResendKeeps
<1>7. CASE Client!ProcessHook
    BY <1>7, RedisBegins
<1>8. ASSUME NEW ctx \in {0} \cup Client!AppSpans, NEW r \in Client!Results,
             Client!ObserveQuery(ctx, r)
      PROVE  ClientInv'
    BY <1>8, Observed
<1>9. ASSUME NEW fn \in Client!Processing, Client!processDeltas(fn) PROVE ClientInv'
    BY <1>9, DeltasBegin
<1>10. CASE Client!OnEvent
    BY <1>10, OnEventBegins
<1>11. ASSUME NEW r \in Client!Results, Client!EndDoRequest(r) PROVE ClientInv'
    BY <1>11, DoRequestEnds
<1>12. ASSUME NEW r \in Client!Results,
              \/ Client!EndProcessHook(r) \/ Client!EndProcessDeltas(r) \/ Client!EndOnEvent(r)
              \/ Client!EndAPICall(r) \/ Client!EndPerformRequest(r) \/ Client!EndRoundTrip(r)
       PROVE  ClientInv'
    BY <1>12, OthersEnd
<1>13. QED
    BY <1>1, <1>2, <1>3, <1>4, <1>5, <1>6, <1>7, <1>8, <1>9, <1>10, <1>11, <1>12
       DEF Client!Next, Client!NoParent

LEMMA ClientUnchanged ==
    ASSUME ClientInv, UNCHANGED clientVars
    PROVE  ClientInv'
<1>1. UNCHANGED <<enabled, spans, frames, header>>
    BY DEF clientVars
<1>2. Client!AppSpans' = Client!AppSpans
    BY <1>1 DEF Client!AppSpans, Client!Live
<1>3. Client!AppSpans' = Client!AppSpans /\ \A p, k : Encloses(p, k)' <=> Encloses(p, k)
    BY <1>1, <1>2 DEF Encloses
<1>4. FrameInv' /\ AppInv' /\ LiveInv'
    BY <1>1, <1>2 DEF ClientInv, StackInv, FrameInv, AppInv, LiveInv
<1>5. CtxInv' /\ TreeInv'
    BY <1>1, <1>3 DEF ClientInv, StackInv, CtxInv, TreeInv
<1>6. ClientTypeOK' /\ ParentInv' /\ ShapeInv' /\ MarkInv'
    BY <1>1 DEF ClientInv, ClientTypeOK, ParentInv, ShapeInv, ElasticInv, NestingInv, MarkInv
<1>7. QED
    BY <1>4, <1>5, <1>6 DEF ClientInv, StackInv

LEMMA ClientStarts == Client!Init => ClientInv
<1> SUFFICES ASSUME spans = <<>>, frames = <<>>, header = 0 PROVE ClientInv
    BY DEF Client!Init, Client!NoParent
<1>1. Len(spans) = 0 /\ Len(frames) = 0 /\ 1..0 = {} /\ spans \in Seq(Spans) /\ frames \in Seq(Frames)
    OBVIOUS
<1>2. ClientTypeOK
    BY <1>1 DEF ClientTypeOK
<1>3. Client!AppSpans = {}
    BY <1>1, <1>2, AppSpansAre
<1>4. QED
    BY <1>1, <1>2, <1>3 DEF ClientInv, StackInv, FrameInv, AppInv, LiveInv, CtxInv, TreeInv,
          ParentInv, ShapeInv, ElasticInv, NestingInv, MarkInv

LEMMA ClientInvariance == OutboundSpec => []ClientInv
<1>1. OutboundInit => ClientInv
    BY ClientStarts DEF OutboundInit
<1>2. ClientInv /\ [OutboundNext]_<<hooks, clientVars, rpcVars, sqlVars, readerVars, vars>>
      => ClientInv'
    <2> SUFFICES ASSUME ClientInv, Client!Next \/ UNCHANGED clientVars
                 PROVE  ClientInv'
        BY DEF OutboundNext
    <2>1. QED
        BY ClientNext, ClientUnchanged
<1>3. QED
    BY <1>1, <1>2, PTL DEF OutboundSpec

\* What encloses a call is unique: it is what EnclosingSpan chooses.
LEMMA EnclosingUnique ==
    ASSUME ClientInv, NEW k \in 1..Len(frames), NEW p, Encloses(p, k)
    PROVE  Client!EnclosingSpan(k) = p
<1>1. k - 1 \in Nat
    BY ClientTypes DEF ClientInv
<1>2. PICK O : O = {j \in 1..(k - 1) : frames[j].span # Client!NoParent}
    OBVIOUS
<1>3. O \in SUBSET (0..(k - 1)) /\ \A j \in 1..(k - 1) : j \in O <=> frames[j].span # 0
    BY <1>1, <1>2 DEF Client!NoParent
<1>4. CASE O # {}
    <2>1. PICK c : c = CHOOSE j \in O : \A i \in O : i <= j
        OBVIOUS
    <2>2. c \in O /\ \A i \in O : i <= c
        BY <1>1, <1>3, <1>4, <2>1, ChosenGreatest
    <2>3. Client!EnclosingSpan(k) = frames[c].span
        BY <1>2, <1>4, <2>1 DEF Client!EnclosingSpan
    <2>4. \E j \in 1..(k - 1) : frames[j].span # 0
        BY <1>2, <1>3, <1>4
    <2>5. PICK j \in 1..(k - 1) : /\ frames[j].span # 0 /\ p = frames[j].span
                                 /\ \A i \in (j + 1)..(k - 1) : frames[i].span = 0
        BY <2>4 DEF Encloses
    <2>6. c \in 1..(k - 1) /\ frames[c].span # 0 /\ j <= c
        BY <1>2, <1>3, <2>2, <2>5
    <2>7. ~(j < c)
        BY <1>1, <2>5, <2>6
    <2>8. j = c
        BY <2>6, <2>7
    <2>9. QED
        BY <2>3, <2>5, <2>8
<1>5. CASE O = {}
    <2>1. p \in Client!AppSpans \/ (Client!AppSpans = {} /\ p = 0)
        BY <1>3, <1>5 DEF Encloses
    <2>2. \A a \in Client!AppSpans : a = p
        BY <2>1 DEF ClientInv, StackInv, AppInv
    <2>3. Client!EnclosingSpan(k) = IF Client!AppSpans # {} THEN CHOOSE i \in Client!AppSpans : TRUE
                                    ELSE 0
        BY <1>2, <1>5 DEF Client!EnclosingSpan, Client!NoParent
    <2>4. Client!AppSpans # {} => (CHOOSE i \in Client!AppSpans : TRUE) \in Client!AppSpans
        OBVIOUS
    <2>5. QED
        BY <2>1, <2>2, <2>3, <2>4
<1>6. QED
    BY <1>4, <1>5

\* Start, the contexts the hooks pass on and the deferred End: however linodego, elastic,
\* net/http, redis, gocql and Kubernetes calls nest, whichever plugins are enabled, a
\* span hangs below the innermost instrumented call around it.
THEOREM TreeMirrors == OutboundSpec => []TreeMirrorsCalls
<1>1. ClientInv => TreeMirrorsCalls
    <2> SUFFICES ASSUME ClientInv PROVE TreeMirrorsCalls
        OBVIOUS
    <2>1. ASSUME NEW k \in DOMAIN frames, frames[k].span # 0, ~frames[k].detached
          PROVE  spans[frames[k].span].parent = Client!EnclosingSpan(k)
        <3>1. k \in 1..Len(frames)
            BY ClientTypes DEF ClientInv
        <3>2. PICK p : p = spans[frames[k].span].parent
            OBVIOUS
        <3>3. Encloses(p, k)
            BY <2>1, <3>1, <3>2 DEF ClientInv, StackInv, TreeInv
        <3>4. QED
            BY <3>1, <3>2, <3>3, EnclosingUnique
    <2>2. ASSUME NEW i \in DOMAIN spans, spans[i].parent # 0
          PROVE  spans[spans[i].parent].fn # "PerformRequest"
        BY <2>2, ClientTypes DEF ClientInv, ParentInv
    <2>3. ASSUME frames = <<>> PROVE Client!Live(spans) = Client!AppSpans
        <3>1. DOMAIN spans = 1..Len(spans)
            BY ClientTypes DEF ClientInv
        <3>2. QED
            BY <2>3, <3>1, IdleSpans DEF Client!Live
    <2>4. QED
        BY <2>1, <2>2, <2>3 DEF TreeMirrorsCalls, Client!TreeMirrorsCalls, Client!NoParent
<1>2. QED
    BY <1>1, ClientInvariance, PTL

\* The deferred functions of all hooks but doRequest's, and the observers of gocql: the
\* span of a call that is over is marked if and only if the call failed.
THEOREM FailuresAreMarked == OutboundSpec => []FailureIsMarked
<1>1. ClientInv => FailureIsMarked
    <2> SUFFICES ASSUME ClientInv PROVE FailureIsMarked
        OBVIOUS
    <2>1. DOMAIN spans = 1..Len(spans)
        BY ClientTypes DEF ClientInv
    <2>2. QED
        BY <2>1 DEF FailureIsMarked, Client!FailureIsMarked, ClientInv, MarkInv, Fns
<1>2. QED
    BY <1>1, ClientInvariance, PTL
-----------------------------------------------------------------------------
(* The streams of the GenAI middlewares.                                    *)

\* Who has set the flag of the reader, a Read or a Close, also ends the span, when it gets
\* to it.
EndedInv ==
    /\ call \in {"none", "running", "stream", "ended"}
    /\ "ends" \in DOMAIN aiSpan /\ aiSpan.ends \in {0, 1} /\ durations = aiSpan.ends
    /\ call \in {"none", "running"} =>
           aiSpan.ends = 0 /\ ~done /\ cl = "none" /\ why = "none" /\ rd.at = "idle"
    /\ call = "ended" => ~done /\ cl = "none" /\ why = "none" /\ rd.at = "idle"
    /\ call = "stream" =>
           aiSpan.ends = IF done /\ cl # "won" /\ rd.at # "won" THEN 1 ELSE 0
    /\ rd.at = "won" => done /\ cl # "won"
    /\ cl # "none" => done
    /\ why # "none" => done
    /\ "at" \in DOMAIN rd

\* What the SDK's call does to the span.
LEMMA FinalizeEnds ==
    ASSUME "ends" \in DOMAIN aiSpan, NEW p, NEW err, Stream!Finalize(p, err)
    PROVE  /\ "ends" \in DOMAIN aiSpan' /\ aiSpan'.ends = aiSpan.ends + 1
           /\ durations' = durations + 1
BY DEF Stream!Finalize

LEMMA EndCallEnds ==
    ASSUME "ends" \in DOMAIN aiSpan, NEW failed, NEW reasons, NEW usage,
           Stream!EndCall(failed, reasons, usage)
    PROVE  /\ "ends" \in DOMAIN aiSpan' /\ aiSpan'.ends = aiSpan.ends + 1
           /\ durations' = durations + 1 /\ call' = "ended"
BY DEF Stream!EndCall

LEMMA StreamNext ==
    ASSUME EndedInv, Stream!Next
    PROVE  EndedInv'
<1>1. ASSUME NEW q, Stream!Request(q) PROVE EndedInv'
    <2>1. "ends" \in DOMAIN Stream!NoSpan /\ Stream!NoSpan.ends = 0
        BY DEF Stream!NoSpan
    <2>2. "ends" \in DOMAIN aiSpan' /\ aiSpan'.ends = 0 /\ call' \in {"running", "ended"}
        BY <1>1, <2>1 DEF Stream!Request, EndedInv
    <2>3. QED
        BY <1>1, <2>2 DEF Stream!Request, Stream!streamVars, EndedInv
<1>2. ASSUME NEW failed, NEW reasons, NEW usage, call = "running",
             Stream!EndCall(failed, reasons, usage), UNCHANGED Stream!streamVars
      PROVE  EndedInv'
    BY <1>2, EndCallEnds DEF Stream!streamVars, EndedInv
<1>3. ASSUME NEW b, NEW nl, Stream!StreamResponse(b, nl) PROVE EndedInv'
    BY <1>3 DEF Stream!StreamResponse, EndedInv
<1>4. ASSUME NEW k, NEW err, Stream!Read(k, err) PROVE EndedInv'
    BY <1>4 DEF Stream!Read, EndedInv
<1>5. CASE Stream!ProcessSSELines
    <2>1. rd.at # "idle" /\ rd'.at # "idle"
        BY <1>5 DEF Stream!ProcessSSELines
    <2>2. QED
        BY <1>5, <2>1 DEF Stream!ProcessSSELines, EndedInv
<1>6. CASE Stream!ReadReturn
    <2>1. /\ rd.at = "parsed" /\ UNCHANGED <<call, aiSpan, durations, cl, why>>
          /\ rd' = IF rd.err # "nil" /\ ~done THEN [rd EXCEPT !.at = "won"]
                                             ELSE [at |-> "idle", err |-> "nil"]
          /\ done' = (done \/ (rd.err # "nil" /\ ~done))
        BY <1>6 DEF Stream!ReadReturn
    <2>2. CASE rd.err # "nil" /\ ~done
        <3>1. done'
            BY <2>1, <2>2, Zenon
        <3>2. "at" \in DOMAIN rd' /\ rd'.at = "won"
            BY <2>1, <2>2 DEF EndedInv
        <3>3. QED
            BY <2>1, <2>2, <3>1, <3>2 DEF EndedInv
    <2>3. CASE ~(rd.err # "nil" /\ ~done)
        <3>1. done' <=> done
            BY <2>1, <2>3, Zenon
        <3>2. "at" \in DOMAIN rd' /\ rd'.at = "idle"
            BY <2>1, <2>3
        <3>3. QED
            BY <2>1, <3>1, <3>2 DEF EndedInv
    <2>4. QED
        BY <2>2, <2>3
<1>7. CASE Stream!ReadFinalize
    <2>1. PICK p : Stream!Finalize(p, rd.err)
        BY <1>7 DEF Stream!ReadFinalize
    <2>2. /\ rd.at = "won" /\ rd' = [at |-> "idle", err |-> "nil"]
          /\ why' = rd.err /\ UNCHANGED <<call, cl, done>>
        BY <1>7 DEF Stream!ReadFinalize
    <2>3. QED
        BY <2>1, <2>2, FinalizeEnds DEF EndedInv
<1>8. CASE Stream!Close
    BY <1>8 DEF Stream!Close, EndedInv
<1>9. CASE Stream!CloseFinalize
    <2>1. PICK p, err : Stream!Finalize(p, err)
        BY <1>9 DEF Stream!CloseFinalize
    <2>2. /\ cl = "won" /\ cl' = "closed" /\ why' = "close"
          /\ UNCHANGED <<sdk, call, body, newlineAtEnd, pos, parsed, rd, done, raced>>
        BY <1>9 DEF Stream!CloseFinalize
    <2>3. QED
        BY <2>1, <2>2, FinalizeEnds DEF EndedInv
<1>10. QED
    BY <1>1, <1>2, <1>3, <1>4, <1>5, <1>6, <1>8, <1>9, <1>7
       DEF Stream!Next, Stream!ErrorResponse, Stream!PlainResponse, Stream!AnthropicResponse,
           Stream!streamVars

\* Read, Close and finalize: however they race, the span ends once, the duration is
\* recorded exactly when it does, and both have happened once the flag is set and its
\* winner is through.
THEOREM DurationsMirrorSpans == OutboundSpec => []DurationMirrorsSpan
<1>1. OutboundInit => EndedInv
    BY DEF OutboundInit, Stream!Init, Stream!NoSpan, EndedInv
<1>2. EndedInv /\ [OutboundNext]_<<hooks, clientVars, rpcVars, sqlVars, readerVars, vars>> => EndedInv'
    <2> SUFFICES ASSUME EndedInv, Stream!Next \/ UNCHANGED readerVars PROVE EndedInv'
        BY DEF OutboundNext
    <2>1. CASE UNCHANGED readerVars
        BY <2>1 DEF readerVars, EndedInv
    <2>2. QED
        BY <2>1, StreamNext
<1>3. EndedInv => DurationMirrorsSpan
    BY DEF EndedInv, DurationMirrorsSpan, Stream!DurationMirrorsSpan
<1>4. QED
    BY <1>1, <1>2, <1>3, PTL DEF OutboundSpec

\* The lines of those kinds among the first n.
Lines(kinds, n) == {i \in 1..n : body[i] \in kinds}

Parsers == [completed : BOOLEAN, reasons : Nat, usage : Nat]

\* The parser has seen the first n lines, each of them once.
Seen(p, n) ==
    /\ p \in Parsers
    /\ p.completed <=> Lines({"done"}, n) # {}
    /\ p.reasons = Cardinality(Lines({"finish"}, n))
    /\ \/ Lines({"usage"}, n) = {} /\ p.usage = 0
       \/ p.usage \in Lines({"usage"}, n) /\ \A j \in Lines({"usage"}, n) : j <= p.usage

LEMMA CardinalityInStream == \A S : Stream!Cardinality(S) = Cardinality(S)
BY DEF Stream!Cardinality, Cardinality

LEMMA LinesAreFinite ==
    ASSUME NEW kinds, NEW n \in Nat
    PROVE  IsFiniteSet(Lines(kinds, n)) /\ Cardinality(Lines(kinds, n)) \in Nat
<1>1. IsFiniteSet(1..n)
    BY FS_Interval
<1>2. Lines(kinds, n) \subseteq 1..n
    BY DEF Lines
<1>3. QED
    BY <1>1, <1>2, FS_Subset, FS_CardinalityType

LEMMA NextLine ==
    ASSUME NEW kinds, NEW n \in Nat
    PROVE  /\ body[n + 1] \in kinds => /\ Lines(kinds, n + 1) = Lines(kinds, n) \cup {n + 1}
                                       /\ n + 1 \notin Lines(kinds, n)
           /\ body[n + 1] \notin kinds => Lines(kinds, n + 1) = Lines(kinds, n)
<1>1. 1..(n + 1) = (1..n) \cup {n + 1} /\ n + 1 \notin 1..n
    OBVIOUS
<1>2. QED
    BY <1>1 DEF Lines

LEMMA NothingSeen ==
    ASSUME NEW p, p = [completed |-> FALSE, reasons |-> 0, usage |-> 0]
    PROVE  Seen(p, 0)
<1>1. \A kinds : Lines(kinds, 0) = {}
    BY DEF Lines
<1>2. Cardinality({}) = 0
    BY FS_EmptySet
<1>3. p \in Parsers /\ ~p.completed /\ p.reasons = 0 /\ p.usage = 0
    BY DEF Parsers
<1>4. QED
    BY <1>1, <1>2, <1>3 DEF Seen

LEMMA LineSeen ==
    ASSUME NEW n \in Nat, NEW p, Seen(p, n)
    PROVE  Seen(Stream!ParseLine(p, n + 1), n + 1)
<1>1. PICK q : q = Stream!ParseLine(p, n + 1)
    OBVIOUS
<1>2. p \in Parsers
    BY DEF Seen
<1>3. CASE body[n + 1] = "done"
    <2>1. q = [p EXCEPT !.completed = TRUE]
        BY <1>1, <1>3 DEF Stream!ParseLine
    <2>2. q \in Parsers /\ q.completed /\ q.reasons = p.reasons /\ q.usage = p.usage
        BY <1>2, <2>1 DEF Parsers
    <2>3. /\ Lines({"done"}, n + 1) # {} /\ Lines({"finish"}, n + 1) = Lines({"finish"}, n)
          /\ Lines({"usage"}, n + 1) = Lines({"usage"}, n)
        <3>1. body[n + 1] \in {"done"} /\ body[n + 1] \notin {"finish"} /\ body[n + 1] \notin {"usage"}
            BY <1>3
        <3>2. Lines({"done"}, n + 1) = Lines({"done"}, n) \cup {n + 1}
            BY <3>1, NextLine
        <3>3. QED
            BY <3>1, <3>2, NextLine
    <2>4. QED
        BY <1>1, <2>2, <2>3 DEF Seen
<1>4. CASE body[n + 1] = "finish"
    <2>1. q = [p EXCEPT !.reasons = @ + 1]
        BY <1>1, <1>4 DEF Stream!ParseLine
    <2>2. p.reasons \in Nat
        BY <1>2 DEF Parsers
    <2>3. /\ q \in Parsers /\ q.completed = p.completed /\ q.usage = p.usage
          /\ q.reasons = p.reasons + 1
        BY <1>2, <2>1, <2>2 DEF Parsers
    <2>4. /\ Lines({"finish"}, n + 1) = Lines({"finish"}, n) \cup {n + 1}
          /\ n + 1 \notin Lines({"finish"}, n)
          /\ Lines({"done"}, n + 1) = Lines({"done"}, n)
          /\ Lines({"usage"}, n + 1) = Lines({"usage"}, n)
        BY <1>4, NextLine
    <2>5. Cardinality(Lines({"finish"}, n + 1)) = Cardinality(Lines({"finish"}, n)) + 1
        BY <2>4, LinesAreFinite, FS_AddElement
    <2>6. QED
        BY <1>1, <2>3, <2>4, <2>5 DEF Seen
<1>5. CASE body[n + 1] = "usage"
    <2>1. q = [p EXCEPT !.usage = n + 1]
        BY <1>1, <1>5 DEF Stream!ParseLine
    <2>2. /\ q \in Parsers /\ q.completed = p.completed /\ q.reasons = p.reasons
          /\ q.usage = n + 1
        BY <1>2, <2>1 DEF Parsers
    <2>3. /\ Lines({"usage"}, n + 1) = Lines({"usage"}, n) \cup {n + 1}
          /\ Lines({"done"}, n + 1) = Lines({"done"}, n)
          /\ Lines({"finish"}, n + 1) = Lines({"finish"}, n)
        BY <1>5, NextLine
    <2>4. \A j \in Lines({"usage"}, n) : j <= n + 1
        BY DEF Lines
    <2>5. QED
        BY <1>1, <2>2, <2>3, <2>4 DEF Seen
<1>6. CASE body[n + 1] \notin {"done", "finish", "usage"}
    <2>1. q = p
        BY <1>1, <1>6 DEF Stream!ParseLine
    <2>2. /\ Lines({"usage"}, n + 1) = Lines({"usage"}, n)
          /\ Lines({"done"}, n + 1) = Lines({"done"}, n)
          /\ Lines({"finish"}, n + 1) = Lines({"finish"}, n)
        BY <1>6, NextLine
    <2>3. QED
        BY <1>1, <2>1, <2>2 DEF Seen
<1>7. QED
    BY <1>3, <1>4, <1>5, <1>6

\* Parsing line after line is a function of the lines.
Parsing(f, p, a, n) == f = [i \in (a - 1)..n |-> IF i < a THEN p ELSE Stream!ParseLine(f[i - 1], i)]

\* From what has been seen of the first a - 1 lines to what has been seen of n.
LEMMA ParsingExists ==
    ASSUME NEW p, NEW a \in Nat \ {0}
    PROVE  \A d \in Nat : \E f : Parsing(f, p, a, a - 1 + d)
<1> DEFINE S == {d \in Nat : \E f : Parsing(f, p, a, a - 1 + d)}
<1>1. 0 \in S
    <2>1. PICK f : f = [i \in (a - 1)..(a - 1) |-> p]
        OBVIOUS
    <2>2. \A i \in (a - 1)..(a - 1) : i < a
        OBVIOUS
    <2>3. f = [i \in (a - 1)..(a - 1) |-> IF i < a THEN p ELSE Stream!ParseLine(f[i - 1], i)]
        BY <2>1, <2>2
    <2>4. a - 1 + 0 = a - 1
        OBVIOUS
    <2>5. QED
        BY <2>3, <2>4 DEF Parsing
<1>2. ASSUME NEW d \in Nat, d \in S PROVE d + 1 \in S
    <2>1. PICK m \in Nat : m = a - 1 + d
        OBVIOUS
    <2>2. PICK f : f = [i \in (a - 1)..m |-> IF i < a THEN p ELSE Stream!ParseLine(f[i - 1], i)]
        BY <1>2, <2>1 DEF Parsing
    <2>3. PICK g : g = [i \in (a - 1)..(m + 1) |->
                           IF i = m + 1 THEN Stream!ParseLine(f[m], m + 1) ELSE f[i]]
        OBVIOUS
    <2>4. ASSUME NEW i \in (a - 1)..(m + 1)
          PROVE  g[i] = IF i < a THEN p ELSE Stream!ParseLine(g[i - 1], i)
        <3>1. CASE i = m + 1
            <4>1. g[i - 1] = f[m] /\ ~(i < a) /\ i - 1 = m
                BY <2>1, <2>3, <3>1
            <4>2. QED
                BY <2>3, <3>1, <4>1
        <3>2. CASE i # m + 1
            <4>1. i \in (a - 1)..m /\ g[i] = f[i]
                BY <2>1, <2>3, <3>2
            <4>2. ~(i < a) => g[i - 1] = f[i - 1]
                BY <2>1, <2>3, <4>1
            <4>3. f[i] = IF i < a THEN p ELSE Stream!ParseLine(f[i - 1], i)
                BY <2>2, <4>1
            <4>4. QED
                BY <4>1, <4>2, <4>3
        <3>3. QED
            BY <3>1, <3>2
    <2>5. g = [i \in (a - 1)..(m + 1) |-> IF i < a THEN p ELSE Stream!ParseLine(g[i - 1], i)]
        BY <2>3, <2>4
    <2>6. a - 1 + (d + 1) = m + 1
        BY <2>1
    <2>7. QED
        BY <2>5, <2>6 DEF Parsing
<1>3. \A d \in Nat : d \in S
    <2> HIDE DEF S
    <2>1. QED
        BY <1>1, <1>2, Induction
<1>4. QED
    BY <1>3

LEMMA LinesSeen ==
    ASSUME NEW a \in Nat \ {0}, NEW n \in Nat, a - 1 <= n, NEW p, Seen(p, a - 1)
    PROVE  Seen(Stream!ParseLines(p, a, n), n)
<1>1. \E f : Parsing(f, p, a, n)
    <2>1. n - (a - 1) \in Nat /\ a - 1 + (n - (a - 1)) = n
        OBVIOUS
    <2>2. QED
        BY <2>1, ParsingExists
<1>2. PICK f : f = CHOOSE g : Parsing(g, p, a, n)
    OBVIOUS
<1>3. Parsing(f, p, a, n)
    BY <1>1, <1>2
<1>4. Stream!ParseLines(p, a, n) = f[n]
    BY <1>2 DEF Stream!ParseLines, Parsing
<1> DEFINE S == {d \in Nat : a - 1 + d <= n => Seen(f[a - 1 + d], a - 1 + d)}
<1>5. 0 \in S
    <2>1. f[a - 1] = p
        BY <1>3 DEF Parsing
    <2>2. a - 1 + 0 = a - 1
        OBVIOUS
    <2>3. QED
        BY <2>1, <2>2
<1>6. ASSUME NEW d \in Nat, d \in S PROVE d + 1 \in S
    <2>1. PICK m \in Nat : m = a - 1 + d
        OBVIOUS
    <2>2. ASSUME m + 1 <= n PROVE Seen(f[m + 1], m + 1)
        <3>1. Seen(f[m], m)
            BY <1>6, <2>1, <2>2
        <3>2. f[m + 1] = Stream!ParseLine(f[m], m + 1)
            <4>1. m + 1 \in (a - 1)..n /\ ~(m + 1 < a) /\ m + 1 - 1 = m
                BY <2>1, <2>2
            <4>2. QED
                BY <1>3, <4>1 DEF Parsing
        <3>3. QED
            BY <3>1, <3>2, LineSeen
    <2>3. a - 1 + (d + 1) = m + 1
        BY <2>1
    <2>4. QED
        BY <2>2, <2>3
<1>7. \A d \in Nat : d \in S
    <2> HIDE DEF S
    <2>1. QED
        BY <1>5, <1>6, Induction
<1>8. PICK d \in Nat : a - 1 + d = n
    <2>1. n - (a - 1) \in Nat /\ a - 1 + (n - (a - 1)) = n
        OBVIOUS
    <2>2. QED
        BY <2>1
<1>9. QED
    BY <1>4, <1>7, <1>8

\* The places of the stream; a Read that is over has been parsed as far as it got.
PlaceInv ==
    /\ body \in Seq(Stream!LineKinds) /\ newlineAtEnd \in BOOLEAN
    /\ pos \in Nat /\ parsed \in Nat /\ parsed <= pos /\ pos <= Stream!Units
    /\ call \in {"none", "running"} => pos = 0
    /\ rd \in [at : {"idle", "got", "parsed", "won"}, err : {"nil", "EOF", "hard"}]
    /\ rd.at = "idle" => rd.err = "nil"
    /\ rd.at = "won" => rd.err # "nil"
    /\ rd.at # "got" => parsed = pos
    /\ rd.err = "EOF" => pos = Stream!Units

\* Who ends the stream.
WhyInv ==
    /\ raced \in BOOLEAN /\ why \in {"none", "EOF", "hard", "close"}
    /\ done => cl = "won" \/ rd.at = "won" \/ why # "none"
    /\ cl = "won" \/ rd.at = "won" => why = "none"
    /\ why = "close" => cl = "closed"
    /\ (~raced /\ cl # "none") => rd.at \in {"idle", "won"}
    /\ why # "none" /\ ~raced => rd.at = "idle"

\* The span shows what a parser has seen of the first n lines.
Shows(p, n) ==
    /\ Seen(p, n)
    /\ aiSpan.reasons = p.reasons /\ aiSpan.usage = p.usage
    /\ aiSpan.error <=> why = "hard" \/ ~(p.completed \/ p.reasons > 0)

\* While the stream goes on the parser has seen the whole lines; when it is over, the
\* span shows them.
ParsedInv ==
    /\ {"ends", "error", "reasons", "usage"} \subseteq DOMAIN aiSpan
    /\ why = "none" /\ ~raced => Seen(parser, parsed \div 3)
    /\ why # "none" /\ ~raced =>
          \E n \in Nat : \E p : Stream!Delivered = 1..n /\ Shows(p, n)

ReaderInv == EndedInv /\ PlaceInv /\ WhyInv /\ ParsedInv

\* Three units to a line.
LEMMA Thirds ==
    ASSUME NEW n \in Nat
    PROVE  /\ n \div 3 \in Nat /\ n % 3 \in {0, 1, 2} /\ n = 3 * (n \div 3) + (n % 3)
OBVIOUS

LEMMA UnitsAre ==
    ASSUME body \in Seq(Stream!LineKinds)
    PROVE  /\ Len(body) \in Nat /\ DOMAIN body = 1..Len(body) /\ Stream!Units \in Nat
           /\ Stream!Units = 3 * Len(body) \/ (Len(body) > 0 /\ Stream!Units = 3 * Len(body) - 1)
<1>1. Len(body) \in Nat /\ DOMAIN body = 1..Len(body) /\ (body # <<>> => Len(body) > 0)
    BY LenProperties
<1>2. QED
    BY <1>1 DEF Stream!Units

\* The last line may lack its newline: flushing makes the parser see what was delivered.
LEMMA FlushSees ==
    ASSUME PlaceInv, parsed = pos, Seen(parser, parsed \div 3)
    PROVE  \E n \in Nat : /\ Seen(Stream!FlushRemaining(parser), n)
                          /\ {i \in 1..Len(body) : pos >= 3 * i - 1} = 1..n
<1>1. PICK q \in Nat : q = pos \div 3
    BY Thirds DEF PlaceInv
<1>2. PICK r \in {0, 1, 2} : r = pos % 3
    BY Thirds DEF PlaceInv
<1>3. pos = 3 * q + r /\ pos \in Nat
    BY <1>1, <1>2, Thirds DEF PlaceInv
<1>4. PICK l \in Nat : l = Len(body) /\ pos <= 3 * l
    <2>1. Len(body) \in Nat /\ Stream!Units \in Nat /\ Stream!Units <= 3 * Len(body)
        BY UnitsAre DEF PlaceInv
    <2>2. QED
        BY <1>3, <2>1 DEF PlaceInv
<1>5. CASE r = 2
    <2>1. Stream!FlushRemaining(parser) = Stream!ParseLine(parser, q + 1)
        BY <1>1, <1>2, <1>5 DEF Stream!FlushRemaining
    <2>2. Seen(Stream!ParseLine(parser, q + 1), q + 1)
        BY <1>1, LineSeen
    <2>3. {i \in 1..l : pos >= 3 * i - 1} = 1..(q + 1)
        BY <1>3, <1>4, <1>5
    <2>4. QED
        BY <1>4, <2>1, <2>2, <2>3
<1>6. CASE r # 2
    <2>1. Stream!FlushRemaining(parser) = parser
        BY <1>1, <1>2, <1>6 DEF Stream!FlushRemaining
    <2>2. {i \in 1..l : pos >= 3 * i - 1} = 1..q
        BY <1>3, <1>4, <1>6
    <2>3. QED
        BY <1>1, <1>4, <2>1, <2>2
<1>7. QED
    BY <1>5, <1>6

\* finalize puts it on the span.
LEMMA FinalizeShows ==
    ASSUME {"ends", "error", "reasons", "usage"} \subseteq DOMAIN aiSpan,
           NEW p, NEW n \in Nat, Seen(p, n), NEW err, Stream!Finalize(p, err),
           err = "hard" <=> why' = "hard", err \in {"EOF", "hard", "nil", "aborted"},
           err = "aborted" => ~(p.completed \/ p.reasons > 0), UNCHANGED body
    PROVE  Shows(p, n)'
<1>1. PICK b \in BOOLEAN : b <=> Stream!Aborted(p, err)
    OBVIOUS
<1>2. b = Stream!Aborted(p, err)
    BY <1>1 DEF Stream!Aborted
<1>3. aiSpan' = [aiSpan EXCEPT !.ends = @ + 1, !.error = b, !.reasons = p.reasons, !.usage = p.usage]
    BY <1>2 DEF Stream!Finalize
<1>4. aiSpan'.error = b /\ aiSpan'.reasons = p.reasons /\ aiSpan'.usage = p.usage
    BY <1>3
<1>5. Seen(p, n)'
    BY DEF Seen, Lines
<1>6. b <=> why' = "hard" \/ ~(p.completed \/ p.reasons > 0)
    BY <1>1 DEF Stream!Aborted
<1>7. QED
    BY <1>4, <1>5, <1>6 DEF Shows

\* finalize keeps the span a span.
LEMMA FinalizeFields ==
    ASSUME NEW p, NEW err, Stream!Finalize(p, err)
    PROVE  DOMAIN aiSpan' = DOMAIN aiSpan
BY DEF Stream!Finalize

LEMMA ReaderSteps ==
    ASSUME ReaderInv, Stream!Next
    PROVE  PlaceInv' /\ WhyInv' /\ ParsedInv'
<1>1. body \in Seq(Stream!LineKinds) /\ EndedInv
    BY DEF ReaderInv, PlaceInv
<1>2. ASSUME UNCHANGED Stream!streamVars, call \in {"none", "running"},
             {"ends", "error", "reasons", "usage"} \subseteq DOMAIN aiSpan'
      PROVE  PlaceInv' /\ WhyInv' /\ ParsedInv'
    <2>1. why = "none" /\ UNCHANGED <<body, newlineAtEnd, pos, parsed, parser, rd, cl, done, raced, why>>
        BY <1>2 DEF ReaderInv, EndedInv, Stream!streamVars
    <2>2. Stream!Units' = Stream!Units
        BY <2>1 DEF Stream!Units
    <2>3. PlaceInv'
        BY <1>2, <2>1, <2>2 DEF ReaderInv, PlaceInv
    <2>4. WhyInv'
        BY <2>1 DEF ReaderInv, WhyInv
    <2>5. Seen(parser, parsed \div 3)' <=> Seen(parser, parsed \div 3)
        BY <2>1 DEF Seen, Lines
    <2>6. ParsedInv'
        BY <1>2, <2>1, <2>5 DEF ReaderInv, ParsedInv
    <2>7. QED
        BY <2>3, <2>4, <2>6
<1>3. ASSUME NEW q, Stream!Request(q) PROVE PlaceInv' /\ WhyInv' /\ ParsedInv'
    <2>1. call = "none" /\ UNCHANGED Stream!streamVars
          /\ (aiSpan' = aiSpan \/ aiSpan' = [Stream!NoSpan EXCEPT !.started = TRUE])
        BY <1>3 DEF Stream!Request
    <2>2. PICK z : z = Stream!NoSpan
        OBVIOUS
    <2>3. DOMAIN z = {"started", "ends", "error", "reasons", "usage"}
        BY <2>2 DEF Stream!NoSpan
    <2>4. PICK y : y = [z EXCEPT !.started = TRUE]
        OBVIOUS
    <2>5. DOMAIN y = DOMAIN z
        BY <2>4
    <2>6. {"ends", "error", "reasons", "usage"} \subseteq DOMAIN aiSpan'
        BY <2>1, <2>2, <2>3, <2>4, <2>5 DEF ReaderInv, ParsedInv
    <2>7. QED
        BY <1>2, <2>1, <2>6
<1>4. ASSUME NEW failed, NEW reasons, NEW usage, call = "running",
             Stream!EndCall(failed, reasons, usage), UNCHANGED Stream!streamVars
      PROVE  PlaceInv' /\ WhyInv' /\ ParsedInv'
    <2>1. DOMAIN aiSpan' = DOMAIN aiSpan
        BY <1>4 DEF Stream!EndCall
    <2>2. {"ends", "error", "reasons", "usage"} \subseteq DOMAIN aiSpan'
        BY <2>1 DEF ReaderInv, ParsedInv
    <2>3. QED
        BY <1>2, <1>4, <2>2
<1>5. ASSUME NEW b \in Stream!Bodies, NEW nl \in BOOLEAN, Stream!StreamResponse(b, nl)
      PROVE  PlaceInv' /\ WhyInv' /\ ParsedInv'
    <2>1. /\ call = "running" /\ body' = b /\ newlineAtEnd' = nl /\ call' = "stream"
          /\ UNCHANGED <<sdk, aiSpan, durations, pos, parsed, parser, rd, cl, done, raced, why>>
        BY <1>5 DEF Stream!StreamResponse
    <2>2. b \in Seq(Stream!LineKinds)
        BY LinesAssumption DEF Stream!Bodies
    <2>3. why = "none" /\ pos = 0 /\ parsed = 0 /\ rd.err # "EOF"
        BY <2>1, UnitsAre DEF ReaderInv, EndedInv, PlaceInv
    <2>4. Stream!Units' \in Nat
        <3>1. Len(b) \in Nat /\ (b # <<>> => Len(b) > 0)
            BY <2>2, LenProperties
        <3>2. QED
            BY <2>1, <3>1 DEF Stream!Units
    <2>5. PlaceInv'
        BY <2>1, <2>2, <2>3, <2>4 DEF ReaderInv, PlaceInv
    <2>6. WhyInv'
        BY <2>1 DEF ReaderInv, WhyInv
    <2>7. 0 \div 3 = 0
        OBVIOUS
    <2>8. \A kinds : Lines(kinds, 0) = {} /\ Lines(kinds, 0)' = {}
        BY DEF Lines
    <2>9. Seen(parser, 0) => Seen(parser, 0)'
        BY <2>1, <2>8 DEF Seen
    <2>10. ParsedInv'
        BY <2>1, <2>3, <2>7, <2>9 DEF ReaderInv, ParsedInv
    <2>11. QED
        BY <2>5, <2>6, <2>10
<1>6. Stream!Units \in Nat /\ pos \in Nat /\ parsed \in Nat
    BY <1>1, UnitsAre DEF ReaderInv, PlaceInv
<1>7. ASSUME NEW k \in 0..(3 * MaxLines), NEW err \in {"nil", "EOF", "hard"}, Stream!Read(k, err)
      PROVE  PlaceInv' /\ WhyInv' /\ ParsedInv'
    <2>1. k \in Nat
        BY LinesAssumption
    <2>2. /\ call = "stream" /\ rd.at = "idle" /\ why \notin {"EOF", "hard"} /\ cl # "closed"
          /\ pos + k <= Stream!Units /\ (err = "EOF" => pos + k = Stream!Units)
          /\ pos' = pos + k /\ rd' = [at |-> "got", err |-> err]
          /\ raced' = (raced \/ cl # "none")
          /\ UNCHANGED <<sdk, call, aiSpan, durations, body, newlineAtEnd, parsed, parser, cl, done, why>>
        BY <1>7 DEF Stream!Read
    <2>3. Stream!Units' = Stream!Units
        BY <2>2 DEF Stream!Units
    <2>4. why = "none" \/ (why = "close" /\ cl = "closed")
        BY <2>2 DEF ReaderInv, WhyInv
    <2>5. PlaceInv'
        BY <1>6, <2>1, <2>2, <2>3 DEF ReaderInv, PlaceInv
    <2>6. PICK x \in BOOLEAN : (x <=> raced \/ cl # "none") /\ raced' = x
        BY <2>2 DEF ReaderInv, WhyInv
    <2>7. WhyInv'
        BY <2>2, <2>4, <2>6 DEF ReaderInv, WhyInv
    <2>8. Seen(parser, parsed \div 3) => Seen(parser, parsed \div 3)'
        BY <2>2 DEF Seen, Lines
    <2>9. ParsedInv'
        BY <2>2, <2>4, <2>6, <2>8 DEF ReaderInv, ParsedInv
    <2>10. QED
        BY <2>5, <2>7, <2>9
<1>8. ASSUME Stream!ProcessSSELines
      PROVE  PlaceInv' /\ WhyInv' /\ ParsedInv'
    <2>1. /\ rd.at = "got" /\ parsed' = pos /\ rd' = [rd EXCEPT !.at = "parsed"]
          /\ parser' = Stream!ParseLines(parser, parsed \div 3 + 1, pos \div 3)
          /\ UNCHANGED <<sdk, call, aiSpan, durations, body, newlineAtEnd, pos, cl, done, raced, why>>
        BY <1>8 DEF Stream!ProcessSSELines
    <2>2. Stream!Units' = Stream!Units
        BY <2>1 DEF Stream!Units
    <2>3. rd'.at = "parsed" /\ rd'.err = rd.err
          /\ rd' \in [at : {"idle", "got", "parsed"}, err : {"nil", "EOF", "hard"}]
        BY <2>1 DEF ReaderInv, PlaceInv
    <2>4. PlaceInv'
        BY <1>6, <2>1, <2>2, <2>3 DEF ReaderInv, PlaceInv
    <2>5. raced \/ (cl = "none" /\ why = "none")
        BY <2>1 DEF ReaderInv, WhyInv
    <2>6. WhyInv'
        BY <2>1, <2>5 DEF ReaderInv, WhyInv
    <2>7. ASSUME ~raced PROVE Seen(parser, parsed \div 3)'
        <3>1. Seen(parser, parsed \div 3)
            BY <2>5, <2>7 DEF ReaderInv, ParsedInv
        <3>2. PICK a \in Nat \ {0}, m \in Nat : /\ a = parsed \div 3 + 1 /\ a - 1 = parsed \div 3
                                              /\ m = pos \div 3 /\ a - 1 <= m
            <4>1. /\ parsed \div 3 \in Nat /\ pos \div 3 \in Nat
                  /\ parsed \div 3 <= pos \div 3
                <5>1. parsed <= pos
                    BY DEF ReaderInv, PlaceInv
                <5>2. QED
                    BY <1>6, <5>1, Thirds
            <4>2. QED
                BY <4>1
        <3>3. Seen(Stream!ParseLines(parser, a, m), m)
            BY <3>1, <3>2, LinesSeen
        <3>4. Seen(parser', m)
            BY <2>1, <3>2, <3>3
        <3>5. m = parsed' \div 3
            BY <2>1, <3>2
        <3>6. QED
            BY <2>1, <3>4, <3>5 DEF Seen, Lines
    <2>8. ParsedInv'
        BY <2>1, <2>5, <2>7 DEF ReaderInv, ParsedInv
    <2>9. QED
        BY <2>4, <2>6, <2>8
<1>9. ASSUME Stream!ReadReturn
      PROVE  PlaceInv' /\ WhyInv' /\ ParsedInv'
    <2>1. /\ rd.at = "parsed"
          /\ rd' = IF rd.err # "nil" /\ ~done THEN [rd EXCEPT !.at = "won"]
                                             ELSE [at |-> "idle", err |-> "nil"]
          /\ done' = (done \/ (rd.err # "nil" /\ ~done))
          /\ UNCHANGED <<sdk, call, aiSpan, durations, body, newlineAtEnd, pos, parsed, parser, cl,
                         raced, why>>
        BY <1>9 DEF Stream!ReadReturn
    <2>2. Stream!Units' = Stream!Units /\ Stream!Delivered' = Stream!Delivered
        BY <2>1 DEF Stream!Units, Stream!Delivered
    <2>3. rd \in [at : {"idle", "got", "parsed", "won"}, err : {"nil", "EOF", "hard"}]
        BY DEF ReaderInv, PlaceInv
    <2>4. PlaceInv'
        <3>1. CASE rd.err # "nil" /\ ~done
            <4>1. rd' = [rd EXCEPT !.at = "won"]
                BY <2>1, <3>1
            <4>2. rd' \in [at : {"idle", "got", "parsed", "won"}, err : {"nil", "EOF", "hard"}]
                  /\ rd'.at = "won" /\ rd'.err = rd.err
                BY <2>3, <4>1
            <4>3. QED
                BY <2>1, <2>2, <3>1, <4>2 DEF ReaderInv, PlaceInv
        <3>2. CASE ~(rd.err # "nil" /\ ~done)
            <4>1. rd' = [at |-> "idle", err |-> "nil"]
                BY <2>1, <3>2
            <4>2. QED
                BY <2>1, <2>2, <4>1 DEF ReaderInv, PlaceInv
        <3>3. QED
            BY <3>1, <3>2
    <2>5. WhyInv'
        <3>1. CASE rd.err # "nil" /\ ~done
            <4>1. done'
                BY <2>1, <3>1, Zenon
            <4>2. rd'.at = "won"
                BY <2>1, <2>3, <3>1
            <4>3. why = "none" /\ cl = "none"
                BY <1>1, <3>1 DEF EndedInv
            <4>4. QED
                BY <2>1, <4>1, <4>2, <4>3 DEF ReaderInv, WhyInv
        <3>2. CASE ~(rd.err # "nil" /\ ~done)
            <4>1. done' <=> done
                BY <2>1, <3>2, Zenon
            <4>2. rd'.at = "idle"
                BY <2>1, <3>2
            <4>3. QED
                BY <2>1, <4>1, <4>2 DEF ReaderInv, WhyInv
        <3>3. QED
            BY <3>1, <3>2
    <2>6. ParsedInv'
        <3>1. Seen(parser, parsed \div 3) => Seen(parser, parsed \div 3)'
            BY <2>1 DEF Seen, Lines
        <3>2. \A p, n : Shows(p, n) => Shows(p, n)'
            BY <2>1 DEF Shows, Seen, Lines
        <3>3. QED
            BY <2>1, <2>2, <3>1, <3>2 DEF ReaderInv, ParsedInv
    <2>7. QED
        BY <2>4, <2>5, <2>6
<1>10. ASSUME Stream!ReadFinalize
       PROVE  PlaceInv' /\ WhyInv' /\ ParsedInv'
    <2>1. /\ rd.at = "won" /\ rd' = [at |-> "idle", err |-> "nil"] /\ why' = rd.err
          /\ UNCHANGED <<sdk, call, body, newlineAtEnd, pos, parsed, cl, done, raced>>
        BY <1>10 DEF Stream!ReadFinalize
    <2>2. Stream!Units' = Stream!Units
        BY <2>1 DEF Stream!Units
    <2>3. PlaceInv' /\ parsed = pos
        BY <2>1, <2>2 DEF ReaderInv, PlaceInv
    <2>4. PICK p : /\ p = IF rd.err = "EOF" THEN Stream!FlushRemaining(parser) ELSE parser
                   /\ Stream!Finalize(p, rd.err)
        BY <1>10 DEF Stream!ReadFinalize
    <2>5. rd.err \in {"EOF", "hard"} /\ why = "none" /\ cl # "won"
        BY <1>1, <2>1 DEF ReaderInv, PlaceInv, WhyInv, EndedInv
    <2>6. WhyInv'
        BY <2>1, <2>5 DEF ReaderInv, WhyInv
    <2>7. {"ends", "error", "reasons", "usage"} \subseteq DOMAIN aiSpan'
        BY <2>4, FinalizeFields DEF ReaderInv, ParsedInv
    <2>8. ASSUME ~raced PROVE \E n \in Nat : \E z : Stream!Delivered' = 1..n /\ Shows(z, n)'
        <3>1. Seen(parser, parsed \div 3)
            BY <2>5, <2>8 DEF ReaderInv, ParsedInv
        <3>2. PICK n \in Nat : Seen(p, n) /\ Stream!Delivered' = 1..n
            <4>1. CASE rd.err = "EOF"
                <5>1. PICK n \in Nat : /\ Seen(Stream!FlushRemaining(parser), n)
                                       /\ {i \in 1..Len(body) : pos >= 3 * i - 1} = 1..n
                    BY <2>3, <3>1, FlushSees DEF ReaderInv
                <5>2. Stream!Delivered' = {i \in 1..Len(body) : pos >= 3 * i - 1}
                    BY <1>1, <2>1, <4>1, UnitsAre DEF Stream!Delivered
                <5>3. QED
                    BY <2>4, <4>1, <5>1, <5>2
            <4>2. CASE rd.err = "hard"
                <5>1. Stream!Delivered' = {i \in 1..Len(body) : pos >= 3 * i}
                    BY <1>1, <2>1, <4>2, UnitsAre DEF Stream!Delivered
                <5>2. PICK n \in Nat : n = pos \div 3
                    BY <1>6, Thirds
                <5>3. pos <= 3 * Len(body) /\ Len(body) \in Nat
                    BY <1>1, <1>6, UnitsAre DEF ReaderInv, PlaceInv
                <5>4. PICK r \in {0, 1, 2} : pos = 3 * n + r
                    BY <1>6, <5>2, Thirds
                <5>5. {i \in 1..Len(body) : pos >= 3 * i} = 1..n
                    BY <1>6, <5>3, <5>4
                <5>6. QED
                    BY <2>3, <2>4, <3>1, <4>2, <5>1, <5>2, <5>5
            <4>3. QED
                BY <2>5, <4>1, <4>2
        <3>3. Shows(p, n)'
            BY <2>1, <2>4, <2>5, <3>2, FinalizeShows DEF ReaderInv, ParsedInv
        <3>4. QED
            BY <3>2, <3>3
    <2>9. ParsedInv'
        BY <2>1, <2>5, <2>7, <2>8 DEF ParsedInv
    <2>10. QED
        BY <2>3, <2>6, <2>9
<1>11. ASSUME Stream!Close
       PROVE  PlaceInv' /\ WhyInv' /\ ParsedInv'
    <2>1. /\ cl # "won" /\ cl' = (IF done THEN "closed" ELSE "won") /\ done' = TRUE
          /\ raced' = (raced \/ (~done /\ rd.at # "idle"))
          /\ UNCHANGED <<sdk, call, aiSpan, durations, body, newlineAtEnd, pos, parsed, parser, rd, why>>
        BY <1>11 DEF Stream!Close
    <2>2. Stream!Units' = Stream!Units
        BY <2>1 DEF Stream!Units
    <2>3. PlaceInv'
        BY <2>1, <2>2 DEF ReaderInv, PlaceInv
    <2>4. PICK x \in BOOLEAN : (x <=> raced \/ (~done /\ rd.at # "idle")) /\ raced' = x
        BY <2>1 DEF ReaderInv, WhyInv
    <2>5. done <=> why # "none" \/ rd.at = "won"
        BY <1>1, <2>1 DEF ReaderInv, WhyInv, EndedInv
    <2>6. WhyInv'
        BY <2>1, <2>4, <2>5 DEF ReaderInv, WhyInv
    <2>7. Seen(parser, parsed \div 3) => Seen(parser, parsed \div 3)'
        BY <2>1 DEF Seen, Lines
    <2>8. Stream!Delivered' = Stream!Delivered
        BY <2>1 DEF Stream!Delivered
    <2>9. \A p, n : Shows(p, n) => Shows(p, n)'
        BY <2>1 DEF Shows, Seen, Lines
    <2>10. ParsedInv'
        BY <2>1, <2>4, <2>7, <2>8, <2>9 DEF ReaderInv, ParsedInv
    <2>11. QED
        BY <2>3, <2>6, <2>10
<1>12. ASSUME Stream!CloseFinalize
       PROVE  PlaceInv' /\ WhyInv' /\ ParsedInv'
    <2>1. /\ cl = "won" /\ cl' = "closed" /\ why' = "close"
          /\ UNCHANGED <<sdk, call, body, newlineAtEnd, pos, parsed, rd, done, raced>>
        BY <1>12 DEF Stream!CloseFinalize
    <2>2. PICK p, err : /\ err = (IF p.completed \/ p.reasons > 0 THEN "nil" ELSE "aborted")
                        /\ Stream!Finalize(p, err)
                        /\ ~raced => p = Stream!FlushRemaining(parser)
        BY <1>12 DEF Stream!CloseFinalize
    <2>3. Stream!Units' = Stream!Units
        BY <2>1 DEF Stream!Units
    <2>4. PlaceInv'
        BY <2>1, <2>3 DEF ReaderInv, PlaceInv
    <2>5. why = "none" /\ rd.at # "won" /\ (~raced => rd.at = "idle") /\ raced \in BOOLEAN
        BY <1>1, <2>1 DEF ReaderInv, WhyInv, EndedInv
    <2>6. WhyInv'
        BY <2>1, <2>5 DEF WhyInv
    <2>7. {"ends", "error", "reasons", "usage"} \subseteq DOMAIN aiSpan'
        BY <2>2, FinalizeFields DEF ReaderInv, ParsedInv
    <2>8. ASSUME ~raced PROVE \E n \in Nat : \E z : Stream!Delivered' = 1..n /\ Shows(z, n)'
        <3>1. Seen(parser, parsed \div 3) /\ parsed = pos
            BY <2>5, <2>8 DEF ReaderInv, ParsedInv, PlaceInv
        <3>2. PICK n \in Nat : /\ Seen(Stream!FlushRemaining(parser), n)
                               /\ {i \in 1..Len(body) : pos >= 3 * i - 1} = 1..n
            BY <3>1, FlushSees DEF ReaderInv
        <3>3. Stream!Delivered' = 1..n
            BY <1>1, <2>1, <3>2, UnitsAre DEF Stream!Delivered
        <3>4. Seen(p, n)
            BY <2>2, <2>8, <3>2
        <3>5. /\ err \in {"EOF", "hard", "nil", "aborted"} /\ (err = "hard" <=> why' = "hard")
              /\ err = "aborted" => ~(p.completed \/ p.reasons > 0)
            BY <2>1, <2>2
        <3>6. Shows(p, n)'
            BY <2>1, <2>2, <3>4, <3>5, FinalizeShows DEF ReaderInv, ParsedInv
        <3>7. QED
            BY <3>3, <3>6
    <2>9. ParsedInv'
        BY <2>1, <2>7, <2>8 DEF ParsedInv
    <2>10. QED
        BY <2>4, <2>6, <2>9
<1>13. QED
    BY <1>3, <1>4, <1>5, <1>7, <1>8, <1>9, <1>11, <1>12, <1>10
       DEF Stream!Next, Stream!ErrorResponse, Stream!PlainResponse, Stream!AnthropicResponse,
           Stream!streamVars

LEMMA TheGreatest ==
    ASSUME NEW n \in Nat, NEW L \in SUBSET (0..n), NEW u \in L, \A j \in L : j <= u
    PROVE  u = CHOOSE i \in L : \A j \in L : j <= i
<1>1. PICK c : c = CHOOSE i \in L : \A j \in L : j <= i
    OBVIOUS
<1>2. c \in L /\ \A j \in L : j <= c
    BY <1>1, ChosenGreatest
<1>3. c <= u /\ u <= c /\ c \in 0..n /\ u \in 0..n
    BY <1>2
<1>4. QED
    BY <1>1, <1>3

LEMMA ReaderInvariance == OutboundSpec => []ReaderInv
<1>1. OutboundInit => ReaderInv
    <2> SUFFICES ASSUME Stream!Init PROVE ReaderInv
        BY DEF OutboundInit
    <2>1. EndedInv
        BY DEF Stream!Init, Stream!NoSpan, EndedInv
    <2>2. body \in Seq(Stream!LineKinds) /\ Stream!Units = 0
        BY DEF Stream!Init, Stream!Units
    <2>3. PlaceInv
        BY <2>2 DEF Stream!Init, PlaceInv
    <2>4. WhyInv
        BY DEF Stream!Init, WhyInv
    <2>5. Seen(parser, 0) /\ parsed \div 3 = 0
        BY NothingSeen DEF Stream!Init
    <2>6. {"ends", "error", "reasons", "usage"} \subseteq DOMAIN aiSpan /\ why = "none"
        BY DEF Stream!Init, Stream!NoSpan
    <2>7. QED
        BY <2>1, <2>3, <2>4, <2>5, <2>6 DEF ReaderInv, ParsedInv
<1>2. ReaderInv /\ [OutboundNext]_<<hooks, clientVars, rpcVars, sqlVars, readerVars, vars>>
      => ReaderInv'
    <2> SUFFICES ASSUME ReaderInv, Stream!Next \/ UNCHANGED readerVars PROVE ReaderInv'
        BY DEF OutboundNext
    <2>1. CASE Stream!Next
        BY <2>1, StreamNext, ReaderSteps DEF ReaderInv
    <2>2. CASE UNCHANGED readerVars
        <3>1. UNCHANGED <<sdk, call, aiSpan, durations, body, newlineAtEnd, pos, parsed, parser, rd,
                          cl, done, raced, why>>
            BY <2>2 DEF readerVars
        <3>2. Stream!Units' = Stream!Units /\ Stream!Delivered' = Stream!Delivered
            BY <3>1 DEF Stream!Units, Stream!Delivered
        <3>3. \A p, n : /\ Seen(p, n) => Seen(p, n)'
                        /\ Shows(p, n) => Shows(p, n)'
            BY <3>1 DEF Shows, Seen, Lines
        <3>4. Seen(parser, parsed \div 3) => Seen(parser, parsed \div 3)'
            BY <3>1 DEF Seen, Lines
        <3>5. EndedInv' /\ PlaceInv' /\ WhyInv'
            BY <3>1, <3>2 DEF ReaderInv, EndedInv, PlaceInv, WhyInv
        <3>6. ParsedInv'
            BY <3>1, <3>2, <3>3, <3>4 DEF ReaderInv, ParsedInv
        <3>7. QED
            BY <3>5, <3>6 DEF ReaderInv
    <2>3. QED
        BY <2>1, <2>2
<1>3. QED
    BY <1>1, <1>2, PTL DEF OutboundSpec

\* processSSELines, flushRemaining and finalize: for streams of any length, split over
\* the Reads in any way, the span of a stream that is over tells what was delivered of
\* it, unless Close raced with a Read.
THEOREM StreamSpansAreTrue == OutboundSpec => []StreamSpanIsTrue
<1>1. ReaderInv => StreamSpanIsTrue
    <2> SUFFICES ASSUME ReaderInv, why # "none", ~raced,
                        NEW D, D = Stream!Delivered,
                        NEW finishes, finishes = {i \in D : body[i] = "finish"},
                        NEW usages, usages = {i \in D : body[i] = "usage"},
                        NEW over, over = {i \in D : body[i] \in {"finish", "done"}}
                 PROVE  /\ aiSpan.error <=> why = "hard" \/ over = {}
                        /\ aiSpan.reasons = Cardinality(finishes)
                        /\ aiSpan.usage = IF usages = {} THEN 0
                                          ELSE CHOOSE i \in usages : \A j \in usages : j <= i
        BY CardinalityInStream DEF StreamSpanIsTrue, Stream!StreamSpanIsTrue
    <2>1. PICK n, p : n \in Nat /\ D = 1..n /\ Shows(p, n)
        BY DEF ReaderInv, ParsedInv
    <2>2. finishes = Lines({"finish"}, n) /\ usages = Lines({"usage"}, n)
        BY <2>1 DEF Lines
    <2>3. over = Lines({"finish"}, n) \cup Lines({"done"}, n)
        BY <2>1 DEF Lines
    <2>4. p.reasons \in Nat /\ p.reasons = Cardinality(finishes)
        BY <2>1, <2>2 DEF Shows, Seen, Parsers
    <2>5. p.reasons = 0 <=> finishes = {}
        BY <2>1, <2>2, <2>4, LinesAreFinite, FS_EmptySet
    <2>6. (p.completed \/ p.reasons > 0) <=> over # {}
        BY <2>1, <2>2, <2>3, <2>4, <2>5 DEF Shows, Seen
    <2>7. ASSUME usages # {}
          PROVE  p.usage = CHOOSE i \in usages : \A j \in usages : j <= i
        <3>1. p.usage \in usages /\ \A j \in usages : j <= p.usage
            BY <2>1, <2>2, <2>7 DEF Shows, Seen
        <3>2. usages \in SUBSET (0..n)
            BY <2>2 DEF Lines
        <3>3. QED
            BY <3>1, <3>2, TheGreatest
    <2>8. usages = {} => p.usage = 0
        BY <2>1, <2>2 DEF Shows, Seen
    <2>9. QED
        BY <2>1, <2>4, <2>6, <2>7, <2>8 DEF Shows
<1>2. QED
    BY <1>1, ReaderInvariance, PTL
-----------------------------------------------------------------------------
(* The text captured of a stream.                                           *)

Bytes == {"a", "L", "C"}
Text == Bytes \cup {"."}

\* What a choice may show of its content.
Room == limit - SuffixLen

\* A character that begins after the first k bytes of the content, or the content.
Boundary(content, k) == k = 0 \/ content[k + 1] # "C"

\* The last boundary in the first n bytes.
LastBoundary(content, n, k) ==
    /\ k \in 0..n /\ Boundary(content, k)
    /\ \A j \in 0..n : Boundary(content, j) => j <= k

LimitInv == limit \in Nat /\ SuffixLen <= limit

\* An accumulator holds what is to be shown of everything that was fed.
StreamInv(i) ==
    /\ capturedStreams[i] \in [content : Seq(Text), truncated : BOOLEAN]
    /\ capturedStreams[i].truncated <=> Len(fed[i]) > Room
    /\ capturedStreams[i].content = OneShot(fed[i])

\* Of a choice without one nothing was fed, or there were enough accumulators before.
CaptureInv ==
    /\ LimitInv
    /\ fed \in [Indexes -> Seq(Bytes)]
    /\ Captured \in SUBSET Indexes
    /\ Cardinality(Captured) <= MaxStreams
    /\ \A i \in Captured : StreamInv(i)
    /\ \A i \in Indexes \ Captured : fed[i] = <<>> \/ Cardinality(Captured) >= MaxStreams

LEMMA SuffixIs == Suffix \in Seq(Text) /\ Len(Suffix) = SuffixLen
<1>1. SuffixLen \in Nat
    BY CaptureAssumption
<1>2. QED
    BY <1>1 DEF Suffix, Text

\* A chunk begins with a character.
LEMMA ChunkBegins ==
    ASSUME NEW content \in Chunks, content # <<>>
    PROVE  content \in Seq(Bytes) /\ Len(content) \in Nat \ {0} /\ content[1] # "C"
<1>1. ASSUME NEW c \in Characters
      PROVE  c \in Seq(Bytes) /\ Len(c) \in Nat \ {0} /\ c[1] # "C"
    <2>1. "a" \in Bytes /\ "L" \in Bytes /\ "C" \in Bytes
        BY DEF Bytes
    <2>2. CASE c = <<"a">>
        BY <2>1, <2>2
    <2>3. CASE c = <<"L", "C">>
        BY <2>1, <2>3
    <2>4. CASE c = <<"L", "C", "C">>
        BY <2>1, <2>4
    <2>5. QED
        BY <2>2, <2>3, <2>4 DEF Characters
<1>2. CASE content \in Characters
    BY <1>1, <1>2
<1>3. ASSUME NEW c \in Characters, NEW d \in Characters, content = c \o d
      PROVE  content \in Seq(Bytes) /\ Len(content) \in Nat \ {0} /\ content[1] # "C"
    BY <1>1, <1>3, ConcatProperties
<1>4. QED
    BY <1>2, <1>3 DEF Chunks

LEMMA LastBoundaryIs ==
    ASSUME NEW content, NEW n \in Nat, NEW B \in SUBSET (0..n),
           \A j \in 0..n : j \in B <=> Boundary(content, j),
           NEW k, k = CHOOSE i \in B : \A j \in B : j <= i
    PROVE  LastBoundary(content, n, k)
<1>1. 0 \in 0..n /\ Boundary(content, 0)
    BY DEF Boundary
<1>2. k \in B /\ \A j \in B : j <= k
    BY <1>1, ChosenGreatest
<1>3. QED
    BY <1>2 DEF LastBoundary

LEMMA LastBoundaryUnique ==
    ASSUME NEW content, NEW n \in Nat, NEW j, NEW k,
           LastBoundary(content, n, j), LastBoundary(content, n, k)
    PROVE  j = k
BY DEF LastBoundary

\* The reference: all of it, or all up to the last boundary.
LEMMA OneShotFits ==
    ASSUME LimitInv, NEW content \in Seq(Bytes), Len(content) <= Room
    PROVE  OneShot(content) = content
BY DEF OneShot, Room

LEMMA OneShotCuts ==
    ASSUME LimitInv, NEW content \in Seq(Bytes), Len(content) > Room,
           NEW k, LastBoundary(content, Room, k)
    PROVE  OneShot(content) = SubSeq(content, 1, k) \o Suffix
<1>1. PICK n \in Nat : n = Room
    BY CaptureAssumption DEF LimitInv, Room
<1>2. PICK B : B = {j \in 0..(limit - SuffixLen) :
                       j = 0 \/ (j < Len(content) /\ content[j + 1] # "C")}
    OBVIOUS
<1>3. B = {j \in 0..n : Boundary(content, j)}
    BY <1>1, <1>2, LenProperties DEF Boundary, Room
<1>4. PICK c : c = CHOOSE i \in B : \A j \in B : j <= i
    OBVIOUS
<1>5. OneShot(content) = SubSeq(content, 1, c) \o Suffix
    <2>1. ~(Len(content) <= limit - SuffixLen)
        BY CaptureAssumption, LenProperties DEF Room, LimitInv
    <2>2. QED
        BY <1>2, <1>4, <2>1 DEF OneShot
<1>6. LastBoundary(content, n, c) /\ LastBoundary(content, n, k)
    BY <1>1, <1>3, <1>4, LastBoundaryIs
<1>7. c = k
    BY <1>6, LastBoundaryUnique
<1>8. QED
    BY <1>5, <1>7

LEMMA BoundaryExists ==
    ASSUME LimitInv, NEW content \in Seq(Bytes)
    PROVE  \E k \in 0..Room : LastBoundary(content, Room, k)
<1>1. PICK n \in Nat : n = Room
    BY CaptureAssumption DEF LimitInv, Room
<1>2. PICK B : B = {j \in 0..n : Boundary(content, j)}
    OBVIOUS
<1>3. PICK c : c = CHOOSE i \in B : \A j \in B : j <= i
    OBVIOUS
<1>4. LastBoundary(content, n, c)
    BY <1>2, <1>3, LastBoundaryIs
<1>5. QED
    BY <1>1, <1>4 DEF LastBoundary

\* It is never longer than the limit.
LEMMA OneShotIsBounded ==
    ASSUME LimitInv, NEW content \in Seq(Bytes)
    PROVE  OneShot(content) \in Seq(Text) /\ Len(OneShot(content)) <= limit
<1>1. Room \in Nat /\ Room + SuffixLen = limit /\ SuffixLen \in Nat /\ limit \in Nat
    BY CaptureAssumption DEF LimitInv, Room
<1>2. content \in Seq(Text) /\ Len(content) \in Nat
    BY DEF Text
<1>3. CASE Len(content) <= Room
    BY <1>1, <1>2, <1>3, OneShotFits
<1>4. CASE Len(content) > Room
    <2>1. PICK k \in 0..Room : LastBoundary(content, Room, k)
        BY BoundaryExists
    <2>2. OneShot(content) = SubSeq(content, 1, k) \o Suffix
        BY <1>4, <2>1, OneShotCuts
    <2>3. SubSeq(content, 1, k) \in Seq(Text) /\ Len(SubSeq(content, 1, k)) = k
        BY <1>1, <1>2, <1>4, SubSeqProperties
    <2>4. /\ SubSeq(content, 1, k) \o Suffix \in Seq(Text)
          /\ Len(SubSeq(content, 1, k) \o Suffix) = k + SuffixLen
        BY <2>3, SuffixIs, ConcatProperties
    <2>5. QED
        BY <1>1, <2>2, <2>4
<1>5. QED
    BY <1>1, <1>2, <1>3, <1>4

\* The chunks after the cut change nothing.
LEMMA CutStays ==
    ASSUME LimitInv, NEW F \in Seq(Bytes), NEW content \in Seq(Bytes), Len(F) > Room
    PROVE  OneShot(F \o content) = OneShot(F)
<1>1. PICK n \in Nat : n = Room
    BY CaptureAssumption DEF LimitInv, Room
<1>2. /\ F \o content \in Seq(Bytes) /\ Len(F \o content) = Len(F) + Len(content)
      /\ \A j \in 1..Len(F) : (F \o content)[j] = F[j]
      /\ Len(F) \in Nat /\ Len(content) \in Nat
    BY ConcatProperties
<1>3. PICK G : G = F \o content
    OBVIOUS
<1>4. PICK k \in 0..n : LastBoundary(F, n, k)
    BY <1>1, BoundaryExists
<1>5. \A j \in 0..n : Boundary(G, j) <=> Boundary(F, j)
    BY <1>1, <1>2, <1>3 DEF Boundary
<1>6. LastBoundary(G, n, k)
    BY <1>4, <1>5 DEF LastBoundary
<1>7. /\ OneShot(F) = SubSeq(F, 1, k) \o Suffix
      /\ OneShot(G) = SubSeq(G, 1, k) \o Suffix
    <2>1. /\ G \in Seq(Bytes) /\ Len(G) > Room
          /\ LastBoundary(F, Room, k) /\ LastBoundary(G, Room, k)
        BY <1>1, <1>2, <1>3, <1>4, <1>6
    <2>2. QED
        BY <2>1, OneShotCuts
<1>8. SubSeq(G, 1, k) = SubSeq(F, 1, k)
    <2>1. /\ SubSeq(F, 1, k) \in Seq(Bytes) /\ SubSeq(G, 1, k) \in Seq(Bytes)
          /\ Len(SubSeq(F, 1, k)) = k /\ Len(SubSeq(G, 1, k)) = k
          /\ \A j \in 1..k : SubSeq(F, 1, k)[j] = F[j] /\ SubSeq(G, 1, k)[j] = G[j]
        BY <1>1, <1>2, <1>3, SubSeqProperties
    <2>2. \A j \in 1..k : F[j] = G[j]
        BY <1>1, <1>2, <1>3
    <2>3. QED
        BY <2>1, <2>2, SeqEqual
<1>9. QED
    BY <1>3, <1>7, <1>8

\* A prefix of a sequence.
LEMMA PrefixProperties ==
    ASSUME NEW S, NEW s \in Seq(S), NEW n \in 0..Len(s)
    PROVE  /\ SubSeq(s, 1, n) \in Seq(S) /\ Len(SubSeq(s, 1, n)) = n
           /\ \A j \in 1..n : SubSeq(s, 1, n)[j] = s[j]
<1>1. n \in Nat /\ \A j \in 1..n : s[j] \in S
    BY LenProperties
<1>2. /\ SubSeq(s, 1, n) \in Seq(S)
      /\ Len(SubSeq(s, 1, n)) = IF 1 <= n THEN n - 1 + 1 ELSE 0
      /\ \A j \in 1..(n - 1 + 1) : SubSeq(s, 1, n)[j] = s[1 + j - 1]
    BY <1>1, SubSeqProperties
<1>3. QED
    BY <1>1, <1>2

\* The chunk that goes over the limit is cut where the whole content would be.
LEMMA CutHere ==
    ASSUME LimitInv, NEW F \in Seq(Bytes), NEW content \in Seq(Bytes), content[1] # "C",
           Len(content) # 0, Len(F) <= Room, NEW rem, rem = Room - Len(F), rem < Len(content)
    PROVE  OneShot(F \o content)
             = F \o (IF rem > 0 THEN truncateToUTF8Boundary(content, rem) ELSE <<>>) \o Suffix
<1>1. PICK n \in Nat : n = Room
    BY CaptureAssumption DEF LimitInv, Room
<1>2. /\ F \o content \in Seq(Bytes) /\ Len(F \o content) = Len(F) + Len(content)
      /\ \A j \in 1..(Len(F) + Len(content)) :
            (F \o content)[j] = IF j <= Len(F) THEN F[j] ELSE content[j - Len(F)]
      /\ Len(F) \in Nat /\ Len(content) \in Nat
    BY ConcatProperties
<1>3. PICK f \in Nat, r \in Nat : f = Len(F) /\ r = rem /\ n = f + r
    BY <1>1, <1>2
<1>4. PICK G : G = F \o content
    OBVIOUS
<1>5. PICK B : B = {k \in 0..rem : k = 0 \/ content[k + 1] # "C"}
    OBVIOUS
<1>6. PICK b : b = CHOOSE k \in B : \A j \in B : j <= k
    OBVIOUS
<1>7. LastBoundary(content, r, b)
    <2>1. B = {k \in 0..r : Boundary(content, k)}
        BY <1>3, <1>5 DEF Boundary
    <2>2. QED
        BY <1>6, <2>1, LastBoundaryIs
<1>8. b \in 0..r /\ b \in Nat /\ b <= Len(content)
    BY <1>2, <1>3, <1>7 DEF LastBoundary
<1>9. PICK kept : kept = IF rem > 0 THEN truncateToUTF8Boundary(content, rem) ELSE <<>>
    OBVIOUS
<1>10. kept \in Seq(Bytes) /\ Len(kept) = b /\ \A j \in 1..b : kept[j] = content[j]
    <2>1. CASE r > 0
        <3>1. rem > 0 /\ ~(Len(content) <= rem)
            BY <1>2, <1>3, <2>1
        <3>2. kept = SubSeq(content, 1, b)
            BY <1>5, <1>6, <1>9, <3>1 DEF truncateToUTF8Boundary
        <3>3. QED
            BY <1>2, <1>8, <3>2, SubSeqProperties
    <2>2. CASE ~(r > 0)
        <3>1. b = 0 /\ kept = <<>> /\ 1..0 = {}
            BY <1>3, <1>8, <1>9, <2>2
        <3>2. QED
            BY <3>1
    <2>3. QED
        BY <2>1, <2>2
<1>11. \A j \in 0..r : Boundary(G, f + j) <=> Boundary(content, j)
    <2>1. ASSUME NEW j \in 0..r PROVE G[f + j + 1] = content[j + 1] /\ (f + j = 0 => j = 0)
        <3>1. f + j + 1 \in 1..(f + Len(content)) /\ ~(f + j + 1 <= f) /\ f + j + 1 - f = j + 1
            BY <1>2, <1>3
        <3>2. QED
            BY <1>2, <1>3, <1>4, <3>1
    <2>2. ASSUME NEW j \in 0..r PROVE Boundary(G, f + j) <=> Boundary(content, j)
        <3>1. CASE j = 0
            <4>1. G[f + j + 1] = content[1]
                BY <2>1, <3>1
            <4>2. QED
                BY <3>1, <4>1 DEF Boundary
        <3>2. CASE j # 0
            BY <2>1, <3>2 DEF Boundary
        <3>3. QED
            BY <3>1, <3>2
    <2>3. QED
        BY <2>2
<1>12. LastBoundary(G, n, f + b)
    <2>1. f + b \in 0..n /\ Boundary(G, f + b)
        BY <1>3, <1>7, <1>8, <1>11 DEF LastBoundary
    <2>2. ASSUME NEW i \in 0..n, Boundary(G, i) PROVE i <= f + b
        <3>1. CASE i <= f
            BY <1>3, <1>8, <3>1
        <3>2. CASE i > f
            <4>1. PICK j \in 0..r : i = f + j
                <5>1. i - f \in 0..r /\ i = f + (i - f)
                    BY <1>3, <3>2
                <5>2. QED
                    BY <5>1
            <4>2. j <= b
                BY <1>7, <1>11, <2>2, <4>1 DEF LastBoundary
            <4>3. QED
                BY <1>3, <1>8, <4>1, <4>2
        <3>3. QED
            BY <1>3, <3>1, <3>2
    <2>3. QED
        BY <2>1, <2>2 DEF LastBoundary
<1>13. OneShot(G) = SubSeq(G, 1, f + b) \o Suffix
    <2>1. G \in Seq(Bytes) /\ Len(G) > Room /\ LastBoundary(G, Room, f + b)
        BY <1>1, <1>2, <1>3, <1>4, <1>12
    <2>2. QED
        BY <2>1, OneShotCuts
<1>14. SubSeq(G, 1, f + b) = F \o kept
    <2>1. /\ SubSeq(G, 1, f + b) \in Seq(Bytes) /\ Len(SubSeq(G, 1, f + b)) = f + b
          /\ \A j \in 1..(f + b) : SubSeq(G, 1, f + b)[j] = G[j]
        <3>1. PICK c \in 0..Len(G) : c = f + b
            BY <1>2, <1>3, <1>4, <1>8
        <3>2. G \in Seq(Bytes)
            BY <1>2, <1>4
        <3>3. /\ SubSeq(G, 1, c) \in Seq(Bytes) /\ Len(SubSeq(G, 1, c)) = c
              /\ \A j \in 1..c : SubSeq(G, 1, c)[j] = G[j]
            BY <3>1, <3>2, PrefixProperties
        <3>4. QED
            BY <3>1, <3>3
    <2>2. /\ F \o kept \in Seq(Bytes) /\ Len(F \o kept) = f + b
          /\ \A j \in 1..(f + b) : (F \o kept)[j] = IF j <= f THEN F[j] ELSE kept[j - f]
        BY <1>3, <1>10, ConcatProperties
    <2>3. ASSUME NEW j \in 1..(f + b) PROVE G[j] = IF j <= f THEN F[j] ELSE kept[j - f]
        <3>1. j \in 1..(f + Len(content))
            BY <1>2, <1>3, <1>8
        <3>2. ~(j <= f) => j - f \in 1..b
            BY <1>3, <1>8
        <3>3. QED
            BY <1>2, <1>3, <1>4, <1>10, <3>1, <3>2
    <2>4. \A j \in 1..(f + b) : SubSeq(G, 1, f + b)[j] = (F \o kept)[j]
        BY <2>1, <2>2, <2>3
    <2>5. QED
        BY <2>1, <2>2, <2>4, SeqEqual, SMTT(30)
<1>15. QED
    BY <1>4, <1>9, <1>13, <1>14

\* Append keeps an accumulator what it is.
LEMMA AppendShows ==
    ASSUME LimitInv, NEW F \in Seq(Bytes), NEW content \in Chunks, content # <<>>,
           NEW acc \in [content : Seq(Text), truncated : BOOLEAN],
           acc.truncated <=> Len(F) > Room, acc.content = OneShot(F),
           NEW next, next = AppendContent(acc, content)
    PROVE  /\ next \in [content : Seq(Text), truncated : BOOLEAN]
           /\ next.truncated <=> Len(F \o content) > Room
           /\ next.content = OneShot(F \o content)
<1>1. content \in Seq(Bytes) /\ Len(content) \in Nat \ {0} /\ content[1] # "C"
    BY ChunkBegins
<1>2. Room \in Nat /\ Room = limit - SuffixLen
    BY CaptureAssumption DEF LimitInv, Room
<1>3. /\ F \o content \in Seq(Bytes) /\ Len(F \o content) = Len(F) + Len(content)
      /\ Len(F) \in Nat
    BY <1>1, ConcatProperties
<1>4. OneShot(F \o content) \in Seq(Text)
    BY <1>3, OneShotIsBounded
<1>5. CASE acc.truncated
    <2>1. next = acc
        BY <1>5 DEF AppendContent
    <2>2. OneShot(F \o content) = OneShot(F)
        BY <1>1, <1>5, CutStays
    <2>3. Len(F \o content) > Room
        BY <1>1, <1>2, <1>3, <1>5
    <2>4. QED
        BY <1>5, <2>1, <2>2, <2>3
<1>6. CASE ~acc.truncated
    <2>1. Len(F) <= Room /\ acc.content = F
        BY <1>2, <1>3, <1>6, OneShotFits
    <2>2. PICK rem \in Nat : rem = Room - Len(F) /\ rem = limit - SuffixLen - Len(acc.content)
        BY <1>2, <1>3, <2>1
    <2>3. CASE rem >= Len(content)
        <3>1. next = [acc EXCEPT !.content = F \o content]
            BY <1>6, <2>1, <2>2, <2>3 DEF AppendContent
        <3>2. Len(F \o content) <= Room
            BY <1>1, <1>2, <1>3, <2>2, <2>3
        <3>3. OneShot(F \o content) = F \o content
            BY <1>3, <3>2, OneShotFits
        <3>4. ~(Len(F \o content) > Room)
            BY <1>2, <1>3, <3>2
        <3>5. QED
            BY <1>4, <1>6, <3>1, <3>3, <3>4
    <2>4. CASE ~(rem >= Len(content))
        <3>1. rem < Len(content) /\ Len(F \o content) > Room
            BY <1>1, <1>2, <1>3, <2>2, <2>4
        <3>2. PICK kept : kept = IF rem > 0 THEN truncateToUTF8Boundary(content, rem) ELSE <<>>
            OBVIOUS
        <3>3. next = [content |-> F \o kept \o Suffix, truncated |-> TRUE]
            BY <1>6, <2>1, <2>2, <2>4, <3>2 DEF AppendContent
        <3>4. OneShot(F \o content) = F \o kept \o Suffix
            BY <1>1, <2>1, <2>2, <3>1, <3>2, CutHere
        <3>5. QED
            BY <1>4, <3>1, <3>3, <3>4
    <2>5. QED
        BY <2>3, <2>4
<1>7. QED
    BY <1>5, <1>6

\* The accumulators there are, and perhaps one for a choice of which nothing came yet.
LEMMA WithStreamIs ==
    ASSUME CaptureInv, NEW index \in Indexes, NEW streams, streams = WithStream(index)
    PROVE  /\ DOMAIN streams \in SUBSET Indexes /\ Captured \subseteq DOMAIN streams
           /\ Cardinality(DOMAIN streams) <= MaxStreams
           /\ \A i \in Captured : streams[i] = capturedStreams[i]
           /\ \A i \in DOMAIN streams \ Captured :
                 i = index /\ fed[i] = <<>> /\ streams[i] = [content |-> <<>>, truncated |-> FALSE]
           /\ index \notin DOMAIN streams => Cardinality(DOMAIN streams) >= MaxStreams
           /\ \A i \in Indexes \ DOMAIN streams :
                 fed[i] = <<>> \/ Cardinality(DOMAIN streams) >= MaxStreams
<1>1. IsFiniteSet(Captured) /\ Cardinality(Captured) \in Nat /\ MaxStreams \in Nat
    BY CaptureAssumption, FS_Subset, FS_CardinalityType DEF CaptureInv
<1>2. CASE index \in Captured \/ Cardinality(Captured) >= MaxStreams
    <2>1. streams = capturedStreams /\ DOMAIN streams = Captured
        BY <1>2 DEF WithStream, Captured
    <2>2. QED
        BY <1>1, <1>2, <2>1 DEF CaptureInv
<1>3. CASE index \notin Captured /\ Cardinality(Captured) < MaxStreams
    <2>1. ~(index \in Captured \/ Cardinality(Captured) >= MaxStreams)
        BY <1>1, <1>3
    <2>2. streams = [i \in Captured \cup {index} |->
                        IF i \in Captured THEN capturedStreams[i]
                        ELSE [content |-> <<>>, truncated |-> FALSE]]
        BY <2>1 DEF WithStream
    <2>3. Cardinality(Captured \cup {index}) = Cardinality(Captured) + 1
        BY <1>1, <1>3, FS_AddElement
    <2>4. fed[index] = <<>>
        BY <2>1 DEF CaptureInv
    <2>5. \A i \in Indexes \ Captured : fed[i] = <<>>
        BY <2>1 DEF CaptureInv
    <2>6. QED
        BY <1>1, <1>3, <2>2, <2>3, <2>4, <2>5 DEF CaptureInv
<1>4. QED
    BY <1>1, <1>2, <1>3

LEMMA CaptureKeeps ==
    ASSUME CaptureInv, NEW index \in Indexes, NEW content \in Chunks,
           captureChunkContent(index, content)
    PROVE  CaptureInv'
<1>1. content # <<>> /\ UNCHANGED limit /\ fed' = [fed EXCEPT ![index] = @ \o content]
    BY DEF captureChunkContent
<1>2. content \in Seq(Bytes)
    BY <1>1, ChunkBegins
<1>3. PICK F \in Seq(Bytes) : F = fed[index]
    BY DEF CaptureInv
<1>4. F \o content \in Seq(Bytes)
    BY <1>2, ConcatProperties
<1>5. /\ fed' \in [Indexes -> Seq(Bytes)] /\ fed'[index] = F \o content
      /\ \A i \in Indexes : i # index => fed'[i] = fed[i]
    BY <1>1, <1>3, <1>4 DEF CaptureInv
<1>6. PICK streams : streams = WithStream(index)
    OBVIOUS
<1>7. /\ DOMAIN streams \in SUBSET Indexes /\ Captured \subseteq DOMAIN streams
      /\ Cardinality(DOMAIN streams) <= MaxStreams
      /\ \A i \in Captured : streams[i] = capturedStreams[i]
      /\ \A i \in DOMAIN streams \ Captured :
            i = index /\ fed[i] = <<>> /\ streams[i] = [content |-> <<>>, truncated |-> FALSE]
      /\ index \notin DOMAIN streams => Cardinality(DOMAIN streams) >= MaxStreams
      /\ \A i \in Indexes \ DOMAIN streams :
            fed[i] = <<>> \/ Cardinality(DOMAIN streams) >= MaxStreams
    BY <1>6, WithStreamIs
<1>8. capturedStreams' = IF index \in DOMAIN streams
                         THEN [streams EXCEPT ![index] = AppendContent(@, content)]
                         ELSE streams
    BY <1>6 DEF captureChunkContent
<1>9. /\ Captured' = DOMAIN streams
      /\ \A i \in DOMAIN streams : i # index => capturedStreams'[i] = streams[i]
    BY <1>8 DEF Captured
<1>10. LimitInv /\ LimitInv' /\ Room' = Room /\ Room \in Nat
    BY <1>1, CaptureAssumption DEF CaptureInv, LimitInv, Room
<1>11. \A c : OneShot(c)' = OneShot(c)
    BY <1>1 DEF OneShot
<1>12. ASSUME NEW i \in DOMAIN streams
       PROVE  /\ streams[i] \in [content : Seq(Text), truncated : BOOLEAN]
              /\ streams[i].truncated <=> Len(fed[i]) > Room
              /\ streams[i].content = OneShot(fed[i])
    <2>1. CASE i \in Captured
        BY <1>7, <2>1 DEF CaptureInv, StreamInv
    <2>2. CASE i \notin Captured
        <3>1. fed[i] = <<>> /\ streams[i] = [content |-> <<>>, truncated |-> FALSE]
            BY <1>7, <2>2
        <3>2. <<>> \in Seq(Bytes) /\ <<>> \in Seq(Text) /\ Len(<<>>) = 0
            OBVIOUS
        <3>3. PICK e \in Seq(Bytes) : e = <<>>
            BY <3>2
        <3>4. Len(e) <= Room
            BY <1>10, <3>2, <3>3
        <3>5. OneShot(e) = e
            BY <1>10, <3>4, OneShotFits
        <3>6. QED
            BY <1>10, <3>1, <3>2, <3>3, <3>5
    <2>3. QED
        BY <2>1, <2>2
<1>13. ASSUME NEW i \in DOMAIN streams
       PROVE  /\ capturedStreams'[i] \in [content : Seq(Text), truncated : BOOLEAN]
              /\ capturedStreams'[i].truncated <=> Len(fed'[i]) > Room
              /\ capturedStreams'[i].content = OneShot(fed'[i])
    <2>1. CASE i = index
        <3>1. PICK acc : acc = streams[index]
            OBVIOUS
        <3>2. PICK next : next = AppendContent(acc, content)
            OBVIOUS
        <3>3. capturedStreams'[i] = next
            BY <1>8, <2>1, <3>1, <3>2
        <3>4. acc \in [content : Seq(Text), truncated : BOOLEAN]
            BY <1>12, <2>1, <3>1
        <3>5. acc.content = OneShot(F)
            BY <1>3, <1>12, <2>1, <3>1
        <3>6. acc.truncated <=> Len(F) > Room
            BY <1>3, <1>12, <2>1, <3>1
        <3>7. /\ next \in [content : Seq(Text), truncated : BOOLEAN]
              /\ next.truncated <=> Len(F \o content) > Room
              /\ next.content = OneShot(F \o content)
            BY <1>1, <1>10, <3>2, <3>4, <3>5, <3>6, AppendShows
        <3>8. QED
            BY <1>5, <2>1, <3>3, <3>7
    <2>2. CASE i # index
        <3>1. fed'[i] = fed[i] /\ capturedStreams'[i] = streams[i]
            BY <1>5, <1>7, <1>9, <2>2
        <3>2. QED
            BY <1>12, <3>1
    <2>3. QED
        BY <2>1, <2>2
<1>14. \A i \in Captured' : StreamInv(i)'
    BY <1>9, <1>10, <1>11, <1>13 DEF StreamInv
<1>15. \A i \in Indexes \ Captured' : fed'[i] = <<>> \/ Cardinality(Captured') >= MaxStreams
    BY <1>5, <1>7, <1>9
<1>16. QED
    BY <1>5, <1>7, <1>9, <1>10, <1>14, <1>15 DEF CaptureInv

LEMMA CaptureStarts == Init => CaptureInv
<1> SUFFICES ASSUME Init PROVE CaptureInv
    OBVIOUS
<1>1. LimitInv
    BY CaptureAssumption DEF Init, clampContentLimit, LimitInv
<1>2. fed \in [Indexes -> Seq(Bytes)] /\ \A i \in Indexes : fed[i] = <<>>
    BY DEF Init
<1>3. Captured = {} /\ Cardinality(Captured) = 0
    BY FS_EmptySet DEF Init, Captured
<1>4. QED
    BY <1>1, <1>2, <1>3, CaptureAssumption DEF CaptureInv

\* captureChunkContent and contentAccumulator.Append: whatever the limit, the number of
\* choices and the way the server splits the text, what is kept is bounded and is what
\* cutting off the whole text would leave.
THEOREM CapturesAreExact == OutboundSpec => []CaptureIsBoundedAndExact
<1>1. OutboundInit => CaptureInv
    BY CaptureStarts DEF OutboundInit
<1>2. CaptureInv /\ [OutboundNext]_<<hooks, clientVars, rpcVars, sqlVars, readerVars, vars>>
      => CaptureInv'
    <2> SUFFICES ASSUME CaptureInv, Next \/ UNCHANGED vars PROVE CaptureInv'
        BY DEF OutboundNext
    <2>1. CASE Next
        BY <2>1, CaptureKeeps DEF Next
    <2>2. CASE UNCHANGED vars
        <3>1. UNCHANGED <<limit, capturedStreams, fed>> /\ Captured' = Captured
            BY <2>2 DEF vars, Captured
        <3>2. \A c : OneShot(c)' = OneShot(c)
            BY <3>1 DEF OneShot
        <3>3. \A i : StreamInv(i) => StreamInv(i)'
            BY <3>1, <3>2 DEF StreamInv, Room
        <3>4. QED
            BY <3>1, <3>3 DEF CaptureInv, LimitInv
    <2>3. QED
        BY <2>1, <2>2
<1>3. CaptureInv => CaptureIsBoundedAndExact
    <2> SUFFICES ASSUME CaptureInv PROVE CaptureIsBoundedAndExact
        OBVIOUS
    <2>1. ASSUME NEW i \in Captured
          PROVE  capturedStreams[i].content = OneShot(fed[i]) /\ Len(capturedStreams[i].content) <= limit
        <3>1. fed[i] \in Seq(Bytes) /\ capturedStreams[i].content = OneShot(fed[i]) /\ LimitInv
            BY DEF CaptureInv, StreamInv
        <3>2. QED
            BY <3>1, OneShotIsBounded
    <2>2. QED
        BY <2>1 DEF CaptureInv, CaptureIsBoundedAndExact, MemoryIsBounded, CaptureIsOneShot
<1>4. QED
    BY <1>1, <1>2, <1>3, PTL DEF OutboundSpec
=============================================================================
