----------------------------- MODULE StmtFetch -----------------------------
(***************************************************************************)
(* The result set of one statement handle: KCIStmtPrepare (resetStmt),     *)
(* KCIStmtExecute of a SELECT (recvResult, recvRows), KCIStmtFetch and     *)
(* fetchRows.  Rows are cached in row_tab, a table of max_row_num slots    *)
(* that row number i enters at slot (i - 1) % max_row_num.                 *)
(*                                                                         *)
(* A row is named by the execution it belongs to and its number; its one   *)
(* column is short (under 8 bytes), eight, or long.  A cell holds a value  *)
(* itself or points to it.  The server answers an execution with the first *)
(* LoginBatch rows and, if there are more, a cursor; a fetch from it with  *)
(* up to FetchSize further rows.                                           *)
(***************************************************************************)
EXTENDS Integers, Sequences, FiniteSets

CONSTANTS
  FetchSize,   \* fetch_size, 1000 when unset; also the slots of row_tab
  LoginBatch,  \* FETCH_SIZE of the login string: 2000
  Totals,      \* sizes of results
  Widths,      \* subset of {"short", "eight", "long"}
  NRows,       \* values of nrows in KCIStmtFetch
  Iters,       \* values of iters in KCIStmtExecute
  Orients,     \* orientations asked for: subset of {"NEXT", "CURRENT"}
  ReExecute,   \* a statement is executed more than once per prepare
  DefineWhen,  \* columns are defined "before" or "after" the execute
  Undefined,   \* the application also fetches before it defined a column
  MaxExecs,    \* bound of the model: executions in a behaviour
  MaxFetched   \* bound of the model: rows handed out per execution

ASSUME BatchAssumption ==
  FetchSize \in Nat \ {0} /\ LoginBatch \in Nat \ {0} /\ Totals \subseteq Nat
ASSUME TableAssumption == FetchSize <= LoginBatch  \* 1000 and 2000
ASSUME ArgsAssumption ==
  /\ NRows \subseteq Nat \ {0} /\ Iters \subseteq Nat
  /\ Orients \subseteq {"NEXT", "CURRENT"}
  /\ Widths \subseteq {"short", "eight", "long"}
  /\ DefineWhen \subseteq {"before", "after"}
  /\ ReExecute \in BOOLEAN /\ Undefined \in BOOLEAN
ASSUME BoundsAssumption == MaxExecs \in Nat /\ MaxFetched \in Nat

VARIABLES
  prepared, executed, \* sql_str is set; a result was received since
  defined,            \* defi_num > 0
  exec, total, width, \* the server's side: last execution; rows, width of each
  sent, open,         \* rows sent of each execution; cursors it keeps
  row_tab, curr_row_num, max_row_idx,
  curr_fetch_num,
  cursor, dangling,   \* the execution whose cursor it names, 0 for NULL; the
                      \* name was in memory that has been reset
  want, orient,       \* the KCIStmtFetch call in progress: rows to go
  asked,              \* fetchRows was done for the row in hand
  fetched,            \* rows put into the defined buffers since the execute
  ended,              \* KCI_NO_DATA was returned since the execute
  crashed             \* what stopped the program: "no", "slot -1",
                      \* "empty slot", "freed cursor", "IOEx"

stmt   == <<prepared, executed, defined>>
server == <<exec, total, width, sent, open>>
cache  == <<row_tab, curr_row_num, max_row_idx>>
curs   == <<cursor, dangling>>
call   == <<want, orient, asked>>
vars   == <<stmt, server, cache, curr_fetch_num, curs, call, fetched, ended, crashed>>

Execs == 1 .. MaxExecs
Slots == 0 .. FetchSize - 1
NULL  == 0
NoRow == [exec |-> 0, row |-> 0, inline |-> TRUE]
EmptyTab == [i \in Slots |-> NoRow]

Lesser(a, b) == IF a <= b THEN a ELSE b

(* The KCIStmt as KCIHandleAlloc hands it out, all zero. *)
Init ==
  /\ prepared = FALSE /\ executed = FALSE /\ defined = FALSE
  /\ exec = 0 /\ total = [e \in Execs |-> 0] /\ width = [e \in Execs |-> "short"]
  /\ sent = [e \in Execs |-> 0] /\ open = {}
  /\ row_tab = EmptyTab /\ curr_row_num = 0 /\ max_row_idx = 0
  /\ curr_fetch_num = 0
  /\ cursor = NULL /\ dangling = FALSE
  /\ want = 0 /\ orient = "NEXT" /\ asked = FALSE
  /\ fetched = <<>> /\ ended = FALSE /\ crashed = "no"

Idle == want = 0 /\ crashed = "no"

-----------------------------------------------------------------------------
(* Receiving rows *)

(* A new row structure takes values of up to 8 bytes into the cell, an     *)
(* existing one only shorter ones.                                         *)
Inline(w, reused) == IF reused THEN w = "short" ELSE w # "long"

Cell(e, n, w, reused) == [exec |-> e, row |-> n, inline |-> Inline(w, reused)]

(* The slot of the row that comes after c cached ones. *)
NextSlot(c) == (c + 1) % FetchSize                   \* mutant: off by one
Slot(c) == c % FetchSize

(* row_tab after rows first .. first + k - 1 of execution e came in behind *)
(* the c rows cached.                                                      *)
Received(c, e, first, k, w) ==
  LET hits(i) == {r \in 0 .. k - 1 : Slot(c + r) = i}
      last(i) == CHOOSE r \in hits(i) : \A q \in hits(i) : q <= r
  IN [i \in Slots |->
        IF hits(i) = {} THEN row_tab[i]
        ELSE Cell(e, first + last(i), w, row_tab[i] # NoRow \/ Cardinality(hits(i)) > 1)]

(* The bookkeeping of recvRows.  (A missing row_tab is allocated, all      *)
(* slots empty: the model keeps an empty table instead of none.)           *)
RecvRows(c, e, first, k, w) ==
  /\ row_tab' = Received(c, e, first, k, w)
  /\ curr_row_num' = c + k
  /\ max_row_idx' = max_row_idx + k

-----------------------------------------------------------------------------
(* KCIStmtPrepare: resetStmt forgets the result and the defines.  The      *)
(* memory that holds the cursor's name is reset; cursor and curr_fetch_num *)
(* are left as they are, and the server is not told.                       *)
IndexOnReset == 0

resetStmt ==
  /\ defined' = FALSE
  /\ row_tab' = EmptyTab /\ curr_row_num' = 0 /\ max_row_idx' = IndexOnReset

Prepare ==
  /\ Idle
  /\ prepared' = TRUE /\ executed' = FALSE
  /\ resetStmt
  /\ dangling' = (cursor # NULL)
  /\ fetched' = <<>> /\ ended' = FALSE
  /\ UNCHANGED <<server, curr_fetch_num, cursor, call, crashed>>

(* KCIDefineByPos *)
Define ==
  /\ Idle /\ prepared /\ ~defined
  /\ (IF executed THEN "after" ELSE "before") \in DefineWhen
  /\ defined' = TRUE
  /\ UNCHANGED <<prepared, executed, server, cache, curr_fetch_num, curs, call, fetched,
                 ended, crashed>>

(* KCIStmtExecute of a query with n rows: 'A' starts a new result, the     *)
(* rows of the first batch follow, then 'C' if the server holds more.  If  *)
(* columns are defined, iters rows are fetched at once.                    *)
KeepCount == curr_row_num                            \* mutant: 'A' resets nothing
CountAtStart == 0

Execute(n, w, iters) ==
  /\ Idle /\ prepared /\ exec < MaxExecs
  /\ executed => ReExecute
  /\ LET e == exec + 1
         k == Lesser(n, LoginBatch)
     IN /\ exec' = e
        /\ total' = [total EXCEPT ![e] = n] /\ width' = [width EXCEPT ![e] = w]
        /\ sent' = [sent EXCEPT ![e] = k]
        /\ RecvRows(CountAtStart, e, 1, k, w)
        /\ IF k < n THEN cursor' = e /\ dangling' = FALSE /\ open' = open \union {e}
                    ELSE UNCHANGED <<cursor, dangling, open>>
  /\ curr_fetch_num' = 0
  /\ executed' = TRUE
  /\ fetched' = <<>> /\ ended' = FALSE
  /\ want' = IF defined /\ max_row_idx' >= 1 THEN iters ELSE 0
  /\ orient' = "CURRENT" /\ asked' = FALSE
  /\ UNCHANGED <<prepared, defined, crashed>>

(* The server answers with an error before any row. *)
ExecuteRefused ==
  /\ Idle /\ prepared /\ exec < MaxExecs
  /\ executed' = FALSE
  /\ executed => ReExecute
  /\ fetched' = <<>> /\ ended' = FALSE
  /\ UNCHANGED <<prepared, defined, server, cache, curr_fetch_num, curs, call, crashed>>

(* The connection breaks after k rows of the answer: the handler drops     *)
(* sql_str and mem and builds a new connection.  A prepare must follow.    *)
ExecuteBreaks(n, w, k) ==
  /\ Idle /\ prepared /\ exec < MaxExecs
  /\ executed => ReExecute
  /\ RecvRows(CountAtStart, exec + 1, 1, k, w)
  /\ exec' = exec + 1
  /\ total' = [total EXCEPT ![exec + 1] = n] /\ width' = [width EXCEPT ![exec + 1] = w]
  /\ open' = {}
  /\ curr_fetch_num' = 0
  /\ prepared' = FALSE /\ executed' = FALSE
  /\ dangling' = (cursor # NULL)
  /\ fetched' = <<>> /\ ended' = FALSE
  /\ UNCHANGED <<defined, sent, cursor, call, crashed>>

-----------------------------------------------------------------------------
(* KCIStmtFetch *)

Fetch(nrows, o) ==
  /\ Idle /\ executed /\ Len(fetched) < MaxFetched
  /\ curr_fetch_num < MaxFetched
  /\ defined \/ Undefined
  /\ IF max_row_idx < 1
     THEN ended' = TRUE /\ UNCHANGED call
     ELSE /\ want' = nrows /\ orient' = o /\ asked' = FALSE /\ UNCHANGED ended
  /\ UNCHANGED <<stmt, server, cache, curr_fetch_num, curs, fetched, crashed>>

Fetching == want > 0 /\ crashed = "no"

(* Every cached row was passed over: the server is asked before the next   *)
(* row is looked up.                                                       *)
MustAsk == ~asked /\ curr_fetch_num > curr_row_num

(* KCI_NO_DATA.  (The fetch in KCIStmtExecute, CURRENT on a new result,    *)
(* gets it from the first test only, and does not hand it on.)             *)
NoData == want' = 0 /\ ended' = TRUE

NoCursor ==
  /\ Fetching /\ MustAsk /\ cursor = NULL
  /\ NoData
  /\ UNCHANGED <<stmt, server, cache, curr_fetch_num, curs, orient, asked, fetched,
                 crashed>>

(* The server does not know the cursor, or its name was overwritten.  The  *)
(* name is freed, and fetchRows returns -1.                                *)
CursorRefused ==
  /\ Fetching /\ MustAsk /\ cursor # NULL
  /\ cursor \notin open \/ dangling
  /\ cursor' = NULL /\ dangling' = FALSE
  /\ NoData
  /\ UNCHANGED <<stmt, server, cache, curr_fetch_num, orient, asked, fetched, crashed>>

(* The name, or the memory context in front of it, is read from memory     *)
(* that was given back.                                                    *)
FreedCursor ==
  /\ Fetching /\ MustAsk /\ cursor # NULL /\ dangling
  /\ crashed' = "freed cursor"
  /\ UNCHANGED <<stmt, server, cache, curr_fetch_num, curs, call, fetched, ended>>

(* fetchRows: the next batch of the cursor's result is cached behind the   *)
(* rows there are.  It reports all the rows cached, not those it brought,  *)
(* so that a batch without rows ends the fetch only if nothing is cached.  *)
(* The server may close a cursor whose last row is sent.                   *)
FetchRows ==
  /\ Fetching /\ MustAsk /\ cursor # NULL /\ cursor \in open
  /\ LET k == Lesser(FetchSize, total[cursor] - sent[cursor])
     IN /\ RecvRows(curr_row_num, cursor, sent[cursor] + 1, k, width[cursor])
        /\ sent' = [sent EXCEPT ![cursor] = @ + k]
  /\ \/ open' = open
     \/ sent'[cursor] = total[cursor] /\ open' = open \ {cursor}
  /\ IF curr_row_num' < 1 THEN NoData /\ UNCHANGED asked
                          ELSE asked' = TRUE /\ UNCHANGED <<want, ended>>
  /\ UNCHANGED <<stmt, exec, total, width, curr_fetch_num, curs, orient, fetched,
                 crashed>>

(* KCIStmtFetch does not catch what the socket throws.  What the           *)
(* application does with the exception is not followed.                    *)
FetchBreaks ==
  /\ Fetching /\ MustAsk /\ cursor # NULL
  /\ crashed' = "IOEx"
  /\ UNCHANGED <<stmt, server, cache, curr_fetch_num, curs, call, fetched, ended>>

(* NEXT behind the last cached row.  The position has moved on. *)
AtLast(pos) == pos >= curr_row_num                   \* mutant: off by one
BehindLast(pos) == pos > curr_row_num

NextBehindLast ==
  /\ Fetching /\ ~MustAsk /\ orient = "NEXT" /\ BehindLast(curr_fetch_num + 1)
  /\ curr_fetch_num' = curr_fetch_num + 1
  /\ NoData
  /\ UNCHANGED <<stmt, server, cache, curs, orient, asked, fetched, crashed>>

(* The row whose turn it is, counted from 1; a CURRENT that comes to 0     *)
(* takes 1, a NEXT reads row_tab[-1].                                      *)
Position == IF orient = "NEXT" THEN curr_fetch_num + 1 ELSE curr_fetch_num

SlotFromZero(pos) == pos % FetchSize                 \* mutant: rows counted from 0
SlotOf(pos) ==
  LET idx == pos % FetchSize
  IN IF orient = "CURRENT" /\ idx = 0 THEN 0 ELSE idx - 1

(* What toSysData converts: the bytes in a cell of up to 8, those a longer *)
(* one points to.                                                          *)
ReadInline(cell) == width[cell.exec] # "long"
Intact(cell) == cell.inline = ReadInline(cell)

RowDone == want' = want - 1 /\ asked' = FALSE
HandOut(pos, cell, intact) ==
  fetched' = Append(fetched, [next |-> orient = "NEXT", pos |-> pos, exec |-> cell.exec,
                              row |-> cell.row, intact |-> intact])

TakeRow ==
  /\ Fetching /\ ~MustAsk
  /\ orient = "NEXT" => ~BehindLast(curr_fetch_num + 1)
  /\ curr_fetch_num' = Position
  /\ IF ~defined THEN RowDone /\ UNCHANGED <<fetched, crashed>>
     ELSE LET slot == SlotOf(Position)
          IN CASE slot = -1 ->
                    (* the word before the table, taken for a row *)
                    \/ crashed' = "slot -1" /\ UNCHANGED <<want, asked, fetched>>
                    \/ RowDone /\ HandOut(Position, NoRow, FALSE) /\ UNCHANGED crashed
               [] slot >= 0 /\ row_tab[slot] = NoRow ->
                    crashed' = "empty slot" /\ UNCHANGED <<want, asked, fetched>>
               [] OTHER ->
                    /\ HandOut(Position, row_tab[slot], Intact(row_tab[slot]))
                    /\ RowDone /\ UNCHANGED crashed
  /\ UNCHANGED <<stmt, server, cache, curs, orient, ended>>

Next ==
  \/ Prepare \/ Define \/ ExecuteRefused
  \/ \E n \in Totals, w \in Widths, iters \in Iters : Execute(n, w, iters)
  \/ \E n \in Totals, w \in Widths :
       \E k \in 0 .. Lesser(n, LoginBatch) : ExecuteBreaks(n, w, k)
  \/ \E nrows \in NRows, o \in Orients : Fetch(nrows, o)
  \/ NoCursor \/ CursorRefused \/ FreedCursor \/ FetchRows \/ FetchBreaks
  \/ NextBehindLast \/ TakeRow

Spec == Init /\ [][Next]_vars

-----------------------------------------------------------------------------
(* Properties *)

RowType == [exec : 0 .. MaxExecs, row : Nat, inline : BOOLEAN]
FetchedType ==
  [next : BOOLEAN, pos : Nat, exec : 0 .. MaxExecs, row : Nat, intact : BOOLEAN]

StmtTypes ==
  /\ prepared \in BOOLEAN /\ executed \in BOOLEAN /\ defined \in BOOLEAN
  /\ ended \in BOOLEAN
  /\ crashed \in {"no", "slot -1", "empty slot", "freed cursor", "IOEx"}

ServerTypes ==
  /\ exec \in 0 .. MaxExecs /\ total \in [Execs -> Nat]
  /\ width \in [Execs -> {"short", "eight", "long"}]
  /\ sent \in [Execs -> Nat] /\ \A e \in Execs : sent[e] <= total[e]
  /\ open \subseteq Execs

CacheTypes ==
  /\ row_tab \in [Slots -> RowType]
  /\ curr_row_num \in Nat /\ max_row_idx \in Nat /\ curr_fetch_num \in Nat

CallTypes ==
  /\ cursor \in {NULL} \union Execs /\ dangling \in BOOLEAN
  /\ want \in Nat /\ orient \in {"NEXT", "CURRENT"} /\ asked \in BOOLEAN
  /\ fetched \in Seq(FetchedType)

(* Every variable keeps its type; no more rows of an execution are sent    *)
(* than it has.                                                            *)
TypeOK == StmtTypes /\ ServerTypes /\ CacheTypes /\ CallTypes

(* Where results are smaller than the table, the position is at most one   *)
(* behind the rows cached.                                                 *)
PositionNear == executed => curr_fetch_num <= curr_row_num + 1

(* Whatever mix of NEXT and CURRENT asked for it, the row handed out is    *)
(* the one as many NEXT away from the start as were asked for, the first   *)
(* before any: no row is skipped or comes out of turn.                     *)
RowsInOrder ==
  \A i \in 1 .. Len(fetched) :
    LET nexts == Cardinality({j \in 1 .. i : fetched[j].next})
    IN fetched[i].row = IF nexts = 0 THEN 1 ELSE nexts

(* No row handed out belongs to an earlier execution of the statement.     *)
(* (After an execution without rows CURRENT finds the old table, which     *)
(* KCIStmtFetch does not notice: such executions are left out.)            *)
NoStaleRow ==
  exec > 0 /\ total[exec] > 0 => \A i \in 1 .. Len(fetched) : fetched[i].exec = exec

(* The value converted for the application is the one the server sent: a   *)
(* cell is read the way it was written, also where a row replaced another. *)
ValuesIntact == \A i \in 1 .. Len(fetched) : fetched[i].intact

(* A result smaller than the table is a sequence of rows consumed in order *)
(* up to its end, whatever the cache, the cursors left over and the calls  *)
(* that failed before.  (Where the last execution brought no row, CURRENT  *)
(* finds an older one: see NoStaleRow.)                                    *)
Rows == INSTANCE ResultSet
  WITH None     <- -1,
       result   <- IF executed THEN total[exec] ELSE -1,
       position <- IF executed THEN Lesser(curr_fetch_num, total[exec]) ELSE 0,
       out      <- [i \in DOMAIN fetched |-> fetched[i].row]

ImplementsResultSet ==
  Rows!Init /\ [][Rows!Next \/ (executed /\ total[exec] = 0)]_(Rows!resultSet)

(* The conversion is never given a slot that holds no row, unless the      *)
(* cursor's name is left over from before the last prepare: such a cursor  *)
(* whose rows are all sent answers a fetch with none, and CURRENT then     *)
(* looks behind the rows of the new result.                                *)
NoEmptySlot == crashed = "empty slot" => dangling

(* While all the rows received are the last execution's, the table holds   *)
(* the newest FetchSize of them, each where KCIStmtFetch looks for it,     *)
(* however many batches came in.                                           *)
NewestRowsCached ==
  executed /\ curr_row_num = sent[exec] =>
    \A r \in 1 .. curr_row_num :
      r > curr_row_num - FetchSize =>
        row_tab[(r - 1) % FetchSize].exec = exec /\ row_tab[(r - 1) % FetchSize].row = r

(* A row of this execution that NEXT did not hand out in its turn was      *)
(* overrun by newer ones: an application never gets a row older than its   *)
(* position.  (At multiples of the table's size it gets no row at all.)    *)
NeverBehindPosition ==
  \A i \in 1 .. Len(fetched) :
    LET f == fetched[i]
    IN f.next /\ f.exec = exec /\ f.pos % FetchSize # 0 =>
         f.row >= f.pos /\ (f.row - f.pos) % FetchSize = 0

(* What fetch hands out is of the last execution and as the server sent it, *)
(* whatever the row structures held before.                                 *)
RowsSound == TypeOK /\ PositionNear /\ NoStaleRow /\ ValuesIntact

(* The table serves fetch, however large the result and whatever is left of *)
(* an earlier one: the newest rows are in their slots, and no slot that is  *)
(* empty is handed out.                                                     *)
TableServes == NewestRowsCached /\ NoEmptySlot
=============================================================================
