# Verification of the KCI client driver

KCI is the C++ client driver of the Kunlun database: an OCI-shaped API
(`include/kci_api.h`) over a TCP protocol, with an ODBC layer on top
(`osources/`).  This directory holds TLA+ models of its core, the TLC
configurations that check them on small instances, and proofs for instances of every
size: of the byte streams, the requests and answers on them, the scanner, the binds and
defines, the row table, the session and its transactions, the list of handles, the allocator,
and the calendar.  `PROJECT.json` lists the components, the runs, the mutants, the source lines
of every definition, the findings, the hazards and the theorems.

## The system

| component | state it keeps | operations | modelled in |
|---|---|---|---|
| connection byte streams (`kci_netio.cpp`, `kci_net.h`) | `sbuff`/`put_pos`, `rbuff`/`recv_pos`/`read_pos`, `back_byte`, the socket | `sendData`, `netFlush`, `readData`, `readByte`, `backByte`, `sockSend`, `sockRecv` | NetIO, ByteQueue |
| bin allocator (`kci_bin_mem.cpp`) | heaps of chunks with boundary tags, 127 bins, large blocks, `heap_size` | alloc, free, realloc, reset, clear | BinSizes, BinMem, BinMemProofs |
| result sets (`kci_stmt.cpp`, `utl_stmt2.cpp`) | `row_tab`, `curr_row_num`, `max_row_idx`, `curr_fetch_num`, `cursor` | prepare, execute, fetch, `recvRows`, `fetchRows` | StmtFetch, ResultSet |
| requests and answers (`kci_stmt.cpp`, `utl_stmt.cpp`, `utl_stmt2.cpp`, `kci_phyconn.cpp`) | `sql_str`, `piece_mode`, what is in `sbuff`, what was not read | `KCIStmtExecute`, `sendQryHead`, `sendQryParams`, `handleLobIStream`, `recvResult`, `execCommand` | Request |
| server handle, physical connection (`kci_server.cpp`, `kci_phyconn.cpp`) | `phy_conn`, `srv_sock`, `tran_status` | attach, detach, build, `reConnect`, `execCommand` | Session, with the requests left in `sbuff`; the buffers under it in NetIO, the answers in Request |
| environment, handles, threads (`kci_env.cpp`, `kci_types.h`, `kci_thread.cpp`) | `hdl_list` of the handles, `op_lock`, `mem` | create, handle and descriptor alloc/free, join | EnvHandles |
| session, service context, transactions (`kci_svctx.cpp`, `kci_session.cpp`, `kci_trans.cpp`) | links between context, server, session, transaction | begin, end, start, detach, commit, rollback | Session |
| SQL text (`utl_stmt.cpp`) | the placeholders and the kind of a statement | `parseSQL` | SqlText, StmtBindProofs |
| binds and defines (`kci_bind.cpp`, `kci_defi.cpp`) | the `KCIBind` array, the `KCIDefine` list | `KCIBindByPos`, `ByName`, `Dynamic`, `ArrayOfStruct`, `KCIDefineByPos`, `checkBinds` | StmtBind, StmtBindProofs |
| data types, RETURNING, large objects read (`utl_dtype.cpp`, `utl_stmt2.cpp`, `kci_stmt.cpp`) | `p_val`, the application's arrays, the locator | `toKunData`, `toSysData`, `handleReturning`, `KCILobRead` | Values |
| dates (`utl_time.cpp`, `kci_utls.cpp`) | none | `date2tm`, `tm2date`, intervals, seven-byte dates, texts | KciTime, Calendar, KciTimeProofs |
| session pool, connection pool (`kci_spool.cpp`, `kci_cpool.cpp`) | idle and busy lists, counts, an event, a thread | create, get, release, destroy | not modelled, see below |
| link/block allocators, strings, errors, encryption, ODBC | see `PROJECT.json` | | not modelled, see below |

How they interact.  An application allocates handles from an environment; a
statement is executed through a service context, which names a server handle,
which names a physical connection.  One thread drives a connection at a time.
`KCIStmtPrepare` scans the text and makes a bind for every placeholder.  `KCIStmtExecute` composes
a request with `sendData`, converting the bound variables with `toKunData`, flushes it, and `recvResult` reads the answer byte
by byte with `readByte`/`backByte` and `readData`.  Rows go to `row_tab`, whose
memory is `mem2`, a bin allocator of the statement on top of the environment's;
fetch converts them with `toSysData` into the defined variables.
A status byte in the answers tells whether the server's session has a transaction.
A socket error is thrown as `IOEx`, which `KCIStmtExecute` catches to call
`reConnect` under the same buffers; `execCommand`, which the transaction calls use, catches it and
leaves the dead socket in place.

What is hard here: partial sends and receives and their failure at any byte;
buffers and a transaction status that outlive a socket; requests abandoned half way, answers read by
another call, both sides waiting for each other; the old server session that may still run
what it received; long sequences of splits and merges in the
allocator, with boundary tags that must agree; running out of memory half way
through a `realloc`; a row table that is smaller than a batch; counters,
pointers and strides that survive a prepare or a re-execution; threads that share the
environment's list, and its free; conversions at the edge of a
variable; a calendar with two leap rules.  The list with source lines is "hazards" in `PROJECT.json`.

## The modules

### NetIO, ByteQueue

`struct PhyConn`'s two buffers, the socket under them and the user's buffers at
both ends.  A byte is its position in the stream it was written to, so order
and loss are visible.  A call of `sendData` or `readData` is a sequence of steps, one per
`memcpy`, `send` loop or `recv`: `SendData` starts a call, `CopyIn`, `SendFull`,
`DrainBeforeLong` and `SendLong` are the branches of its body, `ReadData`,
`CopyOut`, `Refill` and `RecvDirect` those of `readData`.  The variables `off`
and `len` are the locals of `sendData`; `skewed` and `stale` are history
variables that say a long send met a non-empty buffer, or that a socket was
replaced under non-empty buffers.  `ServerSends` is the environment.  Every
`send` and `recv` may fail after some of the bytes; `ReConnect` then puts a new
socket under the buffers (the login exchange on it is not modelled).  After an
`IOEx` the model goes on with `ReConnect` only; `execCommand`, which reports
the error and lets the caller use the dead socket again, is modelled in Request and Session.

Properties.  `SentInOrder` and `NothingWithheld`: the wire carries a prefix of
what was written, and the rest is in `sbuff` between calls.  `ReceivedInOrder`
and `NoByteDropped`: the same for received bytes, with a byte put back.
They hold while neither history flag is set; the list of disagreements below says
what comes of the first, and Request shows what comes of the second.
`ImplementsQueues`: under the same conditions both directions implement ByteQueue, the
abstract FIFO of bytes that Request stands on: bytes offered by one side come out at the other in order,
each once, and a put-back undoes exactly the last take.

### BinSizes, BinMem

BinSizes is the size arithmetic: the chunk for a request and the bin of a
chunk, with the integer constants of a build with 32-bit `SizeT` and 64-bit
pointers.  BinMem is the allocator: `chunk` holds the headers by address, `bins` the
free lists, `large` the blocks with the parent's memory.  The operators keep
the names of the macros and functions (`Split`, `Merge`, `SetFoot`,
`bin_mem_alloc`...) and work on a record of the context; the actions `Alloc`, `Free`,
`FreeLarge`, `Realloc`, `ReallocLarge`, `Reset`, `Clear` are the calls of the
context's function table.  A call is one step, since `op_lock` surrounds it in
the shared context and a statement's `mem2` belongs to the thread that drives the
statement.  `live` is what the callers own.  `Fails` says where the parent may
be out of memory, and `failed` that a realloc got nothing from it.  After `Clear` the bins still name chunks of returned heaps
(`staleBins`); a request that would look at one sets `wild`, and nothing is
followed from there.  After a failed tag check (`memErr`; `raise_mem_err` is
an empty function, so the code runs on) nothing is followed either.

Properties, each a conjunction of named parts.  `HeapsSound`: whatever fails, the heaps are tiled
by chunks that agree about their sizes (`Tiling`), and as long as no realloc has failed half way
the allocator's own check never fires (`SafeFree`).
`Accounted` (`FiledOnce`, `HeapAccounting`) and `LiveBlocksFit` relate
the headers, the lists, the callers' blocks and the count, under the same condition.  `FewFragments`
(`Coalesced`, `LastSplitOnly`) is about
fragmentation as long as no realloc was called (a realloc may leave two free
neighbours, and files its old chunk in `bins[0]`).

### StmtFetch, ResultSet

One statement handle with the result of a query.  `row_tab` has `FetchSize`
slots; a row is its execution and number, and a cell remembers whether the value
is in it or behind a pointer.  `Prepare` is `KCIStmtPrepare` with `resetStmt`,
`Execute` a successful `KCIStmtExecute` of a SELECT (one step: nothing else
touches the statement meanwhile), `ExecuteRefused` and `ExecuteBreaks` its
error answer and its `IOEx` handler.  `Fetch` starts `KCIStmtFetch`; then every
turn of its loop is `NoCursor`, `CursorRefused`, `FreedCursor`, `FetchRows` or
`FetchBreaks` (the calls of `fetchRows`, when every cached row was passed) and
`NextBehindLast` or `TakeRow`.  The server is external: it answers with the
first `LoginBatch` rows and a cursor if there are more, and `fetch n from c` with up to
n further rows.  Reading `row_tab[-1]` either kills the program or hands out
garbage, as the build has it; a row pointer that is null kills it.  A value is
short, eight or long, the only difference `recvRows` makes.

Properties.  For results smaller than the table, over several executions:
`RowsInOrder` (the row handed out is as many NEXT from the start as were asked
for), `RowsSound` (it is of the last execution, `NoStaleRow`, and as the server sent it, `ValuesIntact`),
and `ImplementsResultSet`: under
the refinement mapping the whole implements ResultSet, a sequence of rows with a
position that NEXT moves and CURRENT does not, and an end that is reported when no row is left.  For larger results, with
cursors that outlive a prepare or an execution: `TableServes` (`NewestRowsCached`, `NoEmptySlot`) and
`NeverBehindPosition`.  `NoEmptySlot` makes one exception: a cursor left over from before the
last prepare (`dangling`) whose rows are all sent answers a fetch with none, and CURRENT asked behind the
last row of the new result then looks at a slot nothing was ever written to.
`PositionNear`, a part of `RowsSound`, bounds the position of small results.

### Request

What one thread and the server say to each other on one physical connection.
The unit is a token: the head of a request with its SQL, the parameters of one
row, a piece of a large object, the zero length behind the last piece.  A
statement call is `Execute` (`KCIStmtExecute` up to the request it composes) or
`ExecutePiece` (its piece mode), a command is `Command` (`execCommand`); then
`Put` (`sendData`, which may send the foremost tokens early), `Flush`
(`netFlush`), `SendSome` (a turn of the loop of `sockSend` in either), and one action per branch of the answer loop: `ReadMore`,
`ReadStreamCallback` and `ReadStreamPieces` (`handleLobIStream`), `ReadEnd`.
`call.at` is the point the call has reached, `call.path` which branch of
`KCIStmtExecute` it is in.  `delivered` is what `sockSend` has sent while `put_pos` still covers it:
it is forgotten when the send ends well, and is in `sbuff` again when it fails.
`NetError` is `IOEx` in any of them, with all it
leaves in `sbuff`, sent or not, and `Reconnect` with what it leaves in `rbuff`.  `kept` names the
requests whose head is left so.  The token `part` is
half a row: `sendQryParams` gave up in the middle of it, or the send failed there.

The server (`ServerTakes`, `ServerAnswers`) is external: it takes a whole
request before it answers, may send messages and ask for the large object, waits for the
end mark of the pieces, and ends with an error or an end mark.  `ran` counts
its executions of each request.  `Break` ends its session at any point; answers
under way may still arrive.

`spoiled` is a history variable: a call returned and left bytes in `sbuff`, or unread
answers on a dead socket, or `piece_mode` set although the exchange is over, or
a value did not convert.  Each of these is a defect of the code the application
cannot see; the invariants say that there is no other way to get out of step.
`AnswersMatch`: no call reads another request's answer.  `InStep` (`ServerInStep`,
`RunsForCaller`): the server is never left in half a request, nor at work for
nobody.  `SuccessMeansRun`: `KCI_SUCCESS` is the request's own.  `AtMostOnce`: no request is run twice, on
spoiled connections either, but those a failed send has left in `sbuff`.  `CallReturns` is the liveness property:
driver and server never wait for each other, unless a callback was asked for a
large object.

### EnvHandles

Threads that allocate and free handles of one environment.  `env->hdl_list` is a ring through its head `HEAD`;
`next` and `prev` are the links, and every assignment to one of them is a step of its own: `AddOwn`,
`AddLast`, `AddHead` are `ListAdd`, `UnlinkNext`, `UnlinkPrev`, `UnlinkOwn` are `ListRmv`.
`KCIHandleFree` begins with `Probe` (`IsBadWritePtr` writes to the memory it
asks about), takes `op_lock` only if the handle is in the list (`RemoveLock`), and frees the memory at the end (`FreeMem`).  The main
thread frees the environment: `TakeFirst` is `RmvFirst` without the lock, the
steps of the handle's own free follow, and `ResetMem` returns what is left.
`KCIThreadJoin` waits for nothing, so `OwnJoin` says that the application
waits by means of its own; it is the premise of the run.  A handle's memory is never given
out twice in the model, so that a stale pointer shows (`wild`).  The handles are finitely many (`FiniteAssumption`).

Properties.  `HandlesSound`: `op_lock` is held by the thread that is changing the list, and whenever nobody holds it the list runs in both
directions through exactly the handles that are in hand.  `NoWildAccess`: no freed
handle is touched.  `EnvFreesAll`: the free of the environment misses no
handle.  `CallsReturn`: every call returns.

### Session

One application thread with a service context, a server handle, a session and a
transaction handle.  An action is a call: `KCIServerAttach`, `SetSession`, `SetTrans`,
`KCISessionBegin`, `KCISessionEnd`, `KCITransStart`, `BindLob` (a bind of a large object
makes and starts a transaction when there is none), `KCITransDetach`, `KCITransCommit`,
`KCITransRollback`, `KCIStmtExecute`, `KCIServerDetach`.  `conn` is the PhyConn: where the server
handle's pointer stands, the socket (the number of the server's session it leads to, 0 for none), bit
0 of `tran_status`, the whole requests a failed call has left in `sbuff`, and whether the driver is `behind`: whether
answers to such requests are, or may be, still to be read.  Exchanges with the server end in `Succeeds`, `Fails` or
`NetError`; `reConnect` and `KCISessionBegin` share `buildPhyConn` (`NoSocket`, `Unreachable`, `Refused`, `Connected`),
which empties neither buffer.  `NotSent` is an execution that gives up before it has sent anything, because a value does not convert.

When `sbuff` is not empty, or the driver is behind, an exchange is a `Misread`: all of `sbuff` goes out and waits
in the session (`late`), and the answer that is read is another request's.  The model does not say which: it may
be a success or an error, with any status byte.  From then on the driver is behind, until the application attaches anew; a
login under bytes of an old answer may keep it so.  With `srv_sock` 0 a send does nothing and a read
leaves its byte uninitialised (`kci_net.h:171`, `kci_netio.cpp:100`): a `Misread`, too.
The transaction handle's `auto_commit` is written by `KCITransStart` and read nowhere, and left out.
`fd0` is there since an unused `srv_sock` is 0: detach of a server that
never connected closes the process's descriptor 0, and `socket()` then returns 0, which is taken for
a failure.

The server is external: a session holds uncommitted work, or commits each
statement; it reports its transaction in the status byte, at the latest with
the answer that begins it; a failing statement may roll back the whole transaction (`RollbkAll`).  A session runs, or fails to run, what it received ahead of the driver (`LateRun`); one whose
connection broke (`"cut"`) may still do so before it ends with a rollback.

Properties.  `TransactionKnown` (`NoHiddenWork`): as long as the driver is not behind, `tran_status` never misses a
transaction of a living session, so
the shortcuts of commit, rollback and detach are sound there.  `CommitTakesAll`: a commit that
succeeds, asked or not, on a connection that is not behind leaves nothing undecided in the session under it.
`RollbackTakesAll`: what was rolled back never becomes durable, whatever was kept or misread; and a rollback that
succeeds where the driver is not behind leaves nothing in the session.  `NoOrphan`: repair
and detach leave no server session open behind.  The premise `~conn.behind` is needed: without it each of the first three is
violated (see the disagreements).  It is lost only by bytes left in `sbuff` or `rbuff`, never by a failed or
refused call alone; that is what the properties say.  `CommitMeansKept` is what the comment of
`KCITransCommit` promises, and fails (see Findings).

### SqlText, StmtBind

SqlText is `parseSQL` over character classes: `skipQuoted`, `skipComment1`, `skipComment2`, `skipName` give
the offset behind what begins at an offset, and `Scan` the places of the
placeholders.  Beside it stands a reference that reads one character at a time and never
jumps (`Modes`).  Blank and quotation mark have names of their own (`Blank`, `DQuote`), which keeps the
solvers from having to read these literals.  StmtBind is what is done with them.  `KCIStmtPrepare` clears the statement and
makes the binds; `KCIBindByPos`, `KCIBindByName`, `KCIBindArrayOfStruct`, `KCIBindDynamic` and `KCIDefineByPos` write
them and the define list; `Refuse` and `KCIStmtExecute` are `checkBinds` and the
rows `sendQryParams` sends.  A variable is a column of the application's rows; what a bind
points to is that variable and how its rows lie in memory (plain arrays, structures
with the indicators in an array, structures with the indicators inside).  `meant`
and `wanted` are what the application asked for.

Properties.  `PreparedAsScanned` (`PlaceholdersExact`): the scan finds the placeholders of the
reference and refuses exactly the unfinished texts and the long names.  `SentAsBound`:
each placeholder of each row is sent with what was bound to it since the last
prepare, where the code can find it (first rows, and rows whose indicators are packed).
`DefinesReachColumns`: a fetch finds one define for each column, the last.

### Values

The conversions, with memory as bytes of `Radix` values.  `sendQryParams` sends one
parameter after the other through `toKunData` and its pointer `p_val`; the server, external,
stores the parameters as rows of a column and sends them back; `Define` is
the row loop of `KCIStmtFetch` into an array, `handleReturning` the one of
RETURNING, both through `toSysData`; `FetchLob` and `KCILobRead` read a large object in pieces.
A NULL comes with size 0, and its cell is what it was: zeros in a new row, in one used again a short value of
a row before or a pointer (`Cells`).  Texts and SQLT_NUM are read up to their size; an integer,
float or interval of months is read from the cell (`Seen`), an interval of days from a buffer of the stack.
`ReadInline` and `ReadDescriptor` are the two branches of `KCILobRead`; the second puts a request into `sbuff`
and leaves it there.  Doubles are decimals of few places, which their digits give exactly; what
the digit loop of `double_to_string` (`utl_others.cpp:116`) does to other doubles is not modelled.  Nor is
a NULL large object, whose locator gets the length -1 (`utl_dtype.cpp:673`).  `Guard` bytes behind the array
show what is written there.

Properties.  `RoundTrip`: what was bound comes back in every row, NULL too unless it is fetched
into an integer, float or interval, and an
integer fetched into a wider variable keeps its value and sign.  `OwnBytes`: no parameter sends
another one's bytes or frees its memory, whatever `p_val` was left at.  `ArraysSound` (`StaysInArray`): nothing is written behind an array of texts.
`NoSilentLoss` (`CutTold`, `LobComplete`): every cut is reported with
the right length, the pieces of an object are the object, in order, none longer than its buffer, and its end is told
when there is no more; an object that is a descriptor never seems to have ended.  The cases the
code gets wrong are named in the properties and listed below.

### KciTime, Calendar

`date2tm` and `tm2date` with the day tables and the constants of both
calendars, operators of the same name; a day is a state, and `Tomorrow` walks through the
`Windows`.  A time of 64 bits is a triple of day, second and microsecond, and
the 32-bit product of `KCIDateTimeIntervalAdd` is taken modulo 2^32 (`Wraps`).
`DatOfColumn` and `ParamOfDat` are the seven bytes of SQLT_DAT, `tm2str` and `str2tm` the
default text format.  Calendar is the abstract specification: the day after a day, with the Julian
leap rule before the reform, the gap of 1582 and the day of the week.

Properties.  `FollowsCalendar`: the walk implements Calendar.
`ConversionsUndone` (`DateRoundTrip`, `DatRoundTrip`, `TextRoundTrip`): each conversion is undone by its
inverse, over the ends of days, years, calendars and eras; `IntervalMoves`: an interval moves a time by what it says.  `Drifts` names exactly the
days that `date2tm` gets wrong, and `DateRoundTrip` says there are no others.  `TextRoundTrip` excepts the
days of 1 BC, whose year 0 `str2tm` refuses.  The windows lie in the years the header allows
(`FirstDay`, `LastDay`), in which the halves of a year in SQLT_DAT fit their bytes.

## Runs and bounds

| run | instance | shows |
|---|---|---|
| `netio` | `BufSize` 2, streams of 5 bytes, 2 sockets; sends of 1, 2, 4, reads of 1, 3 | all NetIO properties, the inductive invariant, the refinement of ByteQueue; 2.1 million states |
| `binmem` | heap of 640 bytes, requests of 8, 500, 640, at most 3 blocks, 2 heaps, one realloc to 460, which is more or less than the block has; the parent may fail in alloc and in realloc; contexts used after clear | all BinMem properties; 0.4 million states |
| `stmtfetch` | 3 slots, batch of 6; results of 0 to 2 rows of short and long values, up to 3 executions of one statement or of prepared anew; NEXT and CURRENT of 1 or 2 rows; refused and broken executions | results smaller than the table, the refinement of ResultSet; 0.1 million states |
| `stmtfetch_large` | 3 slots, first batch of 4; results of 0, 1, 3, 8 rows, 2 executions, up to 8 rows handed out, fetches before a define | the table under overrun, left-over cursors; 1.6 million states |
| `request` | one statement, requests of 1 and 2 rows, every kind of large object, values that do not convert, commands; 3 requests, two broken connections; once the connection is spoiled, plain statements and commands (`PlainAfter`) | all Request properties; 0.85 million states |
| `handles` | 3 workers, 3 handles, and the main thread | all EnvHandles properties; 74 000 states |
| `session` | 2 statements, 2 server sessions, one broken connection, one request kept in `sbuff`, one answer misread | all Session properties that hold; 6.4 million states |
| `stmtbind` | every text of up to 4 of 12 characters, of 5 of 8 marks, some longer ones, names of up to 3 characters; three of them bound, 2 variables, 2 rows, 2 columns, 3 defines | the scanner, the binds, the defines; 0.15 million states |
| `values` | bytes of 4 values, all pairs of some 40 variables, arrays of elements of 1, 2, 3, 4 and 8 bytes, buffers of 1, 3 and 9, two requests for a descriptor | all Values properties; 28 000 states |
| `kcitime` | nine windows of days: the first years the header allows, the turn of the era, a Julian century, the reform, Gregorian centuries, 1970, the year 9999; four times of day, six intervals | all KciTime properties; 8 756 days |

The two other runs, `request_residue` and `session_lost`, each show one of the findings below.

The bounds are enough for the cases that matter.  `BufSize` 2 with reads and sends shorter
than, equal to and longer than the buffer covers every branch of both
functions; five bytes are two full buffers and a rest.  A heap of 640 bytes has
small bins and larger ones, and its requests include one that a small bin
serves, two that together do not fit a heap, and one the parent must serve; three blocks
give a chunk with neighbours on both sides.  Three slots and a first batch of more (the driver has 1000 and 2000), with results below, at and above each of the
limits; with two slots a left-over cursor cannot leave a slot empty.  Three requests are one that goes wrong, one that meets what it
left, and one more; a second break meets what the first has left in `sbuff`, and may come in the middle of sending it again.  Three handles are a
node of the list with a neighbour on either side, each in the hands of its own thread.  Two sessions are the one before a
broken connection and the one after it, so a second break would find no session to log on to; two statements are one that is lost and one that is kept; one
request kept and one answer misread are enough to lose each of the three properties that assume the driver is not behind.  The proofs have none of these bounds.  Pairs of parameters show what one
leaves to the next.  A scanner that looks two characters ahead is wrong within five, if at all.

The bounds are `MaxStream`, `MaxConns` (NetIO), `MaxHeaps`, `MaxLive`, `MaxResizes` (BinMem),
`MaxExecs`, `MaxFetched` (StmtFetch), `MaxReqs`, `MaxBreaks`, `MaxPieces`, `MaxMore`, `PlainAfter` (Request), `Workers`,
`Handles` (EnvHandles), `MaxWork`, `MaxSess`, `MaxBreaks`, `MaxKept`, `MaxMisread` (Session), `MaxName`, `MaxDefines`, `Texts`, `Rows`, `Columns`
(StmtBind), `Radix`, `Statements`, `Sizes`, `Chunks`, `MaxAsked` (Values), `Windows`, `Clocks`, `Intervals` and `Leftovers` (KciTime).
Runs in which the model stops at a bound, after the program stopped, or when the program
is done do not check deadlock; `stmtfetch`, `session` and `stmtbind` do.

Fairness.  Request assumes weak fairness of the driver's steps and of the server's: a
thread in a call goes on (it blocks only in `recv`, where no step is enabled),
and the server takes what has arrived and ends what it has taken.  Application
and `Break` are not fair.  Weak fairness of the two disjunctions is enough, as
each side has something to do until it must wait for the other.  EnvHandles assumes strong
fairness of each thread's steps inside a call: a thread that waits for
`op_lock` is enabled again and again, and a mutex of the operating system
serves it some day; threads need not begin calls.  Its main loop is weakly fair.  The other
modules assume no fairness and claim no liveness: they wait only for the server,
which promises nothing there.

Every property of a passing run has a mutant: a definition of the model changed
as a plausible bug would change the code, under which TLC finds the property
violated.

## Findings

Each has a run that shows it (expect "violation"), with the comment or API
text it contradicts quoted in `PROJECT.json`.

1. `request_residue`: a request whose flush failed stays in `sbuff`; after
   `reConnect` it goes out in front of the next one, is run although the
   application was told it failed, and its answer is read by the next call.
2. `session_lost`: a transaction is started and a statement succeeds in it; the connection
   breaks in the next statement, which fails, and `reConnect` logs on again under the same
   PhyConn with `tran_status` as it was; the commit that follows succeeds, and the
   first statement's work went with the old session (`kci_phyconn.cpp:250`).

Disagreements met while modelling for which no run is kept.

Streams and memory:

- `sendData` of more than 2048 bytes behind other unsent bytes
  skips the beginning of the data and reads past its end (`kci_netio.cpp:186`).
  `sendQryHead` puts its bytes before the SQL text, so SQL longer than 2048
  bytes takes this path.
- The bins survive `clear` (`kci_bin_mem.cpp:192`); `freeRows` goes on with such a context (`utl_stmt2.cpp:231`).
- A `realloc` that runs out of memory has already merged the block into the free
  chunk before it (`kci_bin_mem.cpp:509`), so a later free of the block the
  caller still owns fails the allocator's check; `SafeFree`, `FiledOnce`, `LiveBlocksFit` and
  `HeapAccounting` are therefore conditional on `~failed`.
- `bin_mem_realloc` files the old chunk in `bins[0]` when `bins[0]` is in use;
  its comment (`kci_bin_mem.cpp:543`) says when it is not.
- `IsBadWritePtr` saves the actions of SIGSEGV and SIGBUS in one variable, the second over
  the first, and restores both from it (`utl_others.cpp:315`, `:333`); EnvHandles leaves signals out.
- `KCIThreadJoin` returns at once (`kci_thread.cpp:89`), where the API says that it waits (`kci_api.h:10520`).

Results:

- The login asks for batches of 2000 rows and the table
  has 1000 slots, so a larger result overwrites its own beginning before it is
  fetched (`utl_stmt2.cpp:168`), and row 1000 is looked for in front of the table.
- An 8-byte value read into a reused row is not where fetch looks (`utl_stmt2.cpp:179`).
- An execute with defines fetches `iters` rows with CURRENT, which does not move
  (`kci_stmt.cpp:285`): row 1 is delivered `iters` times, and again by the first
  fetch, where the API says that the execution fetches `iters` rows (`kci_api.h:5817`).
- `curr_row_num` counts past `max_row_num`, which its declaration rules out
  (`kci_defs.h:477`).
- `resetStmt` leaves the server's cursor open; its comment (`kci_stmt.cpp:82`)
  says it closes it.
- After a re-execution without rows `KCI_FETCH_CURRENT` still passes the test
  `max_row_idx < 1` (`kci_stmt.cpp:393`) and finds the earlier result's row;
  `NoStaleRow` leaves such executions out.
- With an older cursor left over, CURRENT asked behind the last row fetches
  foreign rows and delivers row 1 again; `NeverBehindPosition` is about NEXT.

Requests:

- The pieces a callback gives are not flushed (`utl_stmt.cpp:425`), so an
  execute with such a parameter does not return; `CallReturns` leaves it out.
- `piece_mode` is never cleared, so the last piece, too, returns
  `KCI_NEED_DATA` (`kci_stmt.cpp:319`), and the next execute sends a piece.
- `KCIStmtExecute` waits for an answer after every piece (`kci_stmt.cpp:317`) and
  the callback path after none (`utl_stmt.cpp:416`); no server satisfies both.
  Request has the application give one piece, which is the last.
- In a request of several rows a value that does not convert is passed over
  (`kci_stmt.cpp:297`): half a row is on the wire and the server reads on from
  the next one.  With one row the half request stays in `sbuff` (`kci_stmt.cpp:275`).
  Request counts both as spoiled connections.
- `sockSend` may deliver whole requests and then fail; `netFlush` and `sendData` reset `put_pos` only behind a send that
  succeeds (`kci_net.h:178`, `kci_netio.cpp:204`), so after `reConnect` the same bytes go out again: the server may run a request
  a second time, although the application was told that it failed.  `AtMostOnce` leaves out these
  requests (`kept`) and only these.
- A statement that is no query, executed with `iters` 0, sends no parameter
  block at all (`kci_stmt.cpp:296`); Request leaves this out.
- After a broken connection in piece mode the statement's binds are freed and
  `piece_mode` is still set, so the next execute reads a freed bind
  (`kci_stmt.cpp:306`); Request lets a prepare come first.

Sessions and transactions:

- `KCISessionEnd` only unlinks the handles (`kci_api.h:5732` says it ends the session), and a second
  `KCISessionBegin` leaves the first server session open (`left` in Session; `kci_api.h:5652`).
- `KCIServerDetach` frees the physical connection and leaves `phy_conn` pointing at it (`kci_server.cpp:102`);
  it closes descriptor 0 when there never was a socket, and `socket()` that gives 0 is
  taken for a failure (`kci_phyconn.cpp:161`).
- `reConnect`, a refused login and a failed connect do not close their sockets (`kci_phyconn.cpp:177`).
- A request left in `sbuff`, by a flush that fails or by an execution whose value does not convert
  (`kci_stmt.cpp:275`), goes out in front of the next `KCITransStart`, commit or rollback, whose `execCommand` takes the
  first answer for its own (`kci_phyconn.cpp:274`).  A stale status 0 then makes the driver forget the transaction, a commit returns
  success by its shortcut (`kci_trans.cpp:170`) with work undecided, a rollback likewise, where the API says that the status tells
  whether the transaction has been committed or rolled back (`kci_trans.cpp:150`).  In Session
  each of `TransactionKnown`, `CommitTakesAll` and `RollbackTakesAll` is violated in seven steps
  when its premise `~conn.behind` is dropped.
- `KCILogon` never sets the server of the service context; `KCILogon2` and `KCISessionGet` hand on the
  address of a local pointer (`kci_svctx.cpp:213`).  Session begins with attach and begin.
- A COMMIT under way when the connection breaks may be run by the old session after
  the call has returned an error; `RollbackTakesAll` is about what a rollback named.

Binds and values:

- A comment in front of the first keyword is not skipped (`utl_stmt.cpp:165`), so a query behind
  it is executed as another statement; `:` alone is a placeholder.
- A name is looked up by prefix, and one that is not in the text is not noticed, as the index is
  unsigned (`kci_bind.cpp:165`, `:177`, `:183`).  With `a` behind `ab`, a bind of `a` is a bind of `ab`;
  `NamesAssumption` says that the application goes on with texts that have no such pair.
- The strides of `KCIBindArrayOfStruct` survive a later bind; of plain arrays the indicator of
  the first row counts for all, and indicators inside structures are read at the
  wrong place (`kci_bind.cpp:358`; `kci_api.h:739`).  `SentAsBound` is about the rows that are right.
- `checkDefines` reads the list of defines as an array (`kci_stmt.cpp:234`), and a first define of a position
  above 1 follows a null pointer (`kci_defi.cpp:35`).
- Powers of ten are sent as 0 (`utl_others.cpp:125`); an integer of 8 bytes keeps 4; an integer fetched
  into a variable of 1 or 2 bytes is written over 4 (`utl_dtype.cpp:401`).
- A NULL fetched into an integer, a float or an interval is not told apart from a value, as `toSysData` is called with size
  0 and does not look at it (`kci_stmt.cpp:446`, `utl_dtype.cpp:401`); in a row used again the cell still holds the value of
  an earlier row (`utl_stmt2.cpp:181`), and an interval of days is read from an uninitialised buffer (`utl_dtype.cpp:659`).
  `RoundTrip` leaves these out.
- `KCILobRead` of a descriptor puts `get lob` into `sbuff` and does not flush it (`kci_stmt.cpp:675`).  The
  `readI4(num)` behind it does not name the connection: it is the overload that takes a socket (`SOCKET` is `int`, `kci_types.h:96`; `kci_net.h:38`), which with
  0 receives nothing (`kci_netio.cpp:12`).  So the call returns success with no bytes, the loop that copies blocks is
  never entered, and the request waits to spoil the next one, as in Request; the comment (`kci_stmt.cpp:667`)
  promises the blocks.  What `sendStr` does when this fills `sbuff` is left out.
- A callback of `KCIBindDynamic` takes a bind that `KCIBindByPos` or `KCIBindByName` has set, as these make the handle it is given;
  StmtBind requires so.
- A type `toKunData` passes over reuses the previous pointer, and a block that is not the
  statement's is freed (`utl_dtype.cpp:106`, `utl_stmt.cpp:391`).
- RETURNING into plain arrays writes only the first indicator and length; fetch never writes
  them (`kci_api.h:1976`).
- TIMESTAMP_TZ columns are not converted to microseconds (`utl_dtype.cpp:560`).

Dates:

- In century years of the Julian calendar `date2tm` is one day off from 29 February to 10
  January of the next year, as it corrects the year and looks up the month by the Gregorian
  rule (`utl_time.cpp:296`, `:312`); the comments promise the Julian calendar before the reform (`kci_time.h:60`).
- The microseconds of the DateTime made in `KCIDateTimeIntervalAdd` are never set (`kci_utls.cpp:14`), and an interval of
  more than 2147 seconds wraps.
- `KCIIntervalFromText` uses a format `h24` that no scanner knows (`kci_utls.cpp:108`).

## Proofs

NetIOProofs proves `Spec => []StreamInv` for all buffer sizes, stream bounds,
numbers of sockets and sets of lengths (assumptions `BufSizeAssumption`,
`BoundsAssumption`, `LensAssumption`), and from it `[]TypeOK`, `[]SentInOrder`,
`[]NothingWithheld`, `[]ReceivedInOrder` and `[]NoByteDropped`.  None of the
order properties is inductive alone: that the wire is in order after a flush
needs what `sbuff` holds to continue where the wire stopped (`SendInv`), that needs the
cursor `off` to stand at the same point of the user's buffer, and that in turn
the shape of the call in progress (`CallShape`): in a short call `off + len` is the
length, in a long one `off` is still 0 unless the connection was skewed.  `RecvInv`
says the same of `rbuff` and `back_byte`.  The proof has one lemma per action
and, for the array updates, lemmas on `MemCpy`.  TLC checks `StreamInv` as an
invariant in the run `netio`.

On it stands the refinement: `StreamsAreQueues` is the refinement `Spec => ImplementsQueues`.
Under the mapping a direction is the number of bytes offered and the sequence received, on the wire or by
the callers of `readData`; every step of NetIO moves one of the two or leaves both, and `StreamInv`
gives that what was received is the first part of what was offered.

SessionProofs proves `[]SessionInv` for any number of statements, sessions, broken
connections, kept requests and misread answers, and from it `[]TransactionKnown`, `[]CommitTakesAll`, `[]RollbackTakesAll` and,
with one more induction, `[]NoOrphan`.  `NoHiddenWork` (the driver knows of the transaction)
is inductive only together with whose work it is: `WorkOwned` (work that is known to have succeeded is in the session that ran it), `LateUnknown` (what
waits in `sbuff` or in a session is not known to have succeeded), `NothingWaits` (a session the driver is not behind has nothing to run,
and no work the driver does not know of), `NothingForgotten` (what succeeded in it is
still there until it is settled),
and `Apart` (work taken back is neither durable nor in a session, and work that succeeded is not in a session and durable at once), with `RunsKnown`
for new statements to be new.  Most steps settle no work, and share the lemma `QuietStep`; what runs late (`LateRunShape`), what a
broken connection leaves (`CutShape`, `DyingShape`), a misread answer (`MisreadStep`) and `buildPhyConn` (`BuildStep`) have one each.

StmtFetchProofs has two invariants.  `TableInv` holds for every table, batch and result:
`CallShape` relates the call in progress to the cursor, `Counted` the number of rows cached to the number
sent, `Newest` says what is in which slot, and `Filled` that a cursor of this preparation
means a full table.  From it come `[]TableServes` and `[]NeverBehindPosition`.  `SmallInv` holds under
`SmallResults` (every result smaller than the table, columns defined before a fetch): no cursor is ever
handed out, the whole result is cached in order, and the position counts the NEXTs.  From both come
`[]RowsInOrder` and the refinement `Spec => ImplementsResultSet`, and, without values of eight bytes
(`NoEights`), `[]RowsSound`.  The two hypotheses are those of the run `stmtfetch`, and
the driver satisfies them for results below 1000 rows; what fails beyond them is listed under Findings.
The proof of `TableInv` found the exception in `NoEmptySlot` above, which needs three slots.

EnvHandlesProofs proves `[]EnvInv` for any set of threads and any finite set of handles.  The
pointers in memory are compared with a ring that changes in one step, when `ListAdd` or `ListRmv` is
done: `Ring` says that its two links are inverse to each other on the handles
that are in the list and that a rank grows along it, so that it is one ring and not several;
`Links` says, by the place of the one thread at work, which pointers are ahead of it.  `Hands` and
`Owners` say that a handle is in one pair of hands, and `Roles` that the main thread frees the
environment when the others are done.  Before the free all this holds whether or not the application
waits for its threads (`ListIsWhole`: `[]ListSound`); `[]HandlesSound`, `[]NoWildAccess` and the action
property `EnvFreesAll` assume that it does (`OwnJoin`).  That the walk of the list visits exactly its handles
(`RingWalks`) uses that a finite set has no injection onto a larger one.

RequestProofs proves `[]RequestInv` for any number of statements, rows, requests, messages,
pieces and broken connections.  Its first half, `Always`, holds on every connection: what is on
its way to the server, from `up` through `sbuff` to `put`, is one sequence, `Line`, and a request that is not `kept` is on it, at the server
or has been run, in one place (`OnePlace`); hence `[]AtMostOnce`.  Requests come back from `delivered` to `sbuff` only in
`NetError`, which counts them as `kept`.  Its second half, `Clean`, holds as
long as no call has spoiled the connection: `Line` is what the server expects (`Expected`,
`Fits`: a head with its rows, the rest of the rows, the pieces up to the stop), what is on its way back belongs to the
request of the call in progress or of the statement that waits for a piece, and ends where
the server has nothing more to take (`Answers`); `Quiet` says that nothing is left between two calls, and `Callers` who is
in the middle of what.  From it come `[]AnswersMatch`, `[]SuccessMeansRun` and `[]InStep`.

KciTimeProofs proves, with no bound on the day, that `tm2date` undoes `date2tm` if and only if the day is
not one of `Drifts` (`DayRoundTrip`).  The guess at the year is shown to be 10 to 375 days
early by the lengths of the calendars' cycles (`GuessJulian`, `GuessGregorian`), the correction then finds a year
and a day of it by the Gregorian rule (`DayFound`), and by the lengths of the years (`YearStartGrows`) that is the year and
the day `tm2date` counts from: always in the Gregorian calendar, and in the Julian one except from
29 February of a century (`Late`), which is `Drifts` (`DriftsIsNear`).  The test `tm2date` makes for the reform
decides as `date2tm`'s (`JulianIsBefore`, `GregorianIsAfter`).  From it, as the date stays in its window
(`WindowsAssumption`), come `[]ConversionsUndone` and, since carries add up (`NormalAdds`) and an interval
of 32 bits is not wrapped (`NoWrap`), `[]IntervalMoves` for all `Clocks`, `Intervals` and `Leftovers` (`ClocksAssumption`, `IntervalsAssumption`,
`LeftoversAssumption`).  `FollowsTheCalendar` is the refinement of Calendar, `Spec => FollowsCalendar`: two
consecutive days that come back are placed in their years by the same calendar (`DayPlaced`), so that
the second is the next of the month, the first of the next month or of the next year
(`NextDayFollows`), or they are the two days at the reform (`ReformFollows`).

BinMemProofs proves all four properties of BinMem for every heap size, number of heaps and
set of sizes.  Three facts on sizes come first, which the searches of `bin_mem_alloc` rely on: a chunk has room
for its request (`ChunkFits`), bins ascend with the size (`BinsAscend`), and a small bin
needs no look at the size (`SmallBinsExact`).  Then a lemma for each operator on a context: `Split`,
`Merge`, filing, unfiling and the use of a chunk keep the tiles and their tags (`Tiled`), the lists
(`GoodBins`: no place in two lists or twice in one; `Filed`: a listed place is a free chunk in `bins[0]` or
the bin of its size) and the sums (`Held`, `Owed`), and change no other chunk (`Kept`).  On them stand the three
calls, each for every good context: `AllocAnswered`, `ChunkFreed`, `ReallocAnswered`.  The inductive
invariant `BlocksInv` adds who owns what: the used chunks and the large blocks are the blocks in use, each with room (`Owned`),
and, until a realloc fails, every block in use is one of them, every free chunk is listed and nothing is owed (`Settled`).
No part is inductive alone: that a merge meets a chunk needs the tags, that a merged chunk
can be taken off its list needs it filed, that a free finds its chunk needs
`Owned`.  A realloc that fails half way breaks `Settled` and nothing else (a chunk in use that no caller
has, a sum that is too high), which is why `HeapsSound` survives it.  From `BlocksInv` come `[]HeapsSound`, `[]Accounted`
and `[]LiveBlocksFit`.  `[]FewFragments` needs `TidyInv` besides: before the first realloc no
chunk in use is a whole heap, and a second heap is asked for only when no list holds a
chunk large enough, so that no other heap is one free chunk; that a search that starts at the bin of
a size and finds nothing has looked at all chunks of that size is `BinsAscend`.

StmtBindProofs is about every text.  `ScanFindsPlaceholders` compares the two readings of a text: that of
the code, which jumps, and `Modes`, which does not.  At each offset the scan comes to, the reference is
in code (`Ready`), and what the scan jumps over has no placeholder in it and leads to such an offset again,
or the rest of the text is unfinished (`Passed`): one lemma for each thing there is to jump over, `NamePassed`, `QuotePassed`,
`BlockPassed`, `LinePassed`.  From the end of the text backward, what is found behind an offset is
sound (`ScanSound`).  The functions are recursive; that functions with these equations exist is proved as
well (`ModesExist`, `QuotedExists`, `ScanExists`), as TLA+'s `f[x \in S] == e` chooses one only if there is one.
Each induction is by the least element of a set of offsets (`AllUpTo`, `AllDownTo`), since the library's rule of induction takes an operator.

The invariant `BindInv` says that the binds are those the application made, one for
each placeholder of the text that was prepared and under its name (`TextInv`), and that rows that lie apart have
strides that fit (`BindsInv`); the latter keeps a stride of an earlier `KCIBindArrayOfStruct` from being used on the wrong rows in `SentAsBound`.
The lookup by prefix finds the first exact name because of `NamesAssumption` (`FirstIsExact`).  `DefinesInv` says
that the n-th define is that of column n, which is why the walk of `KCIDefineByPos` never adds a second one.
From it come `[]PreparedAsScanned`, `[]SentAsBound` and `[]DefinesReachColumns`.

TLC finds the inductive invariants true on small instances too: `StreamInv` in run `netio`, `SessionInv`,
`TableInv`, `SmallInv`, `RequestInv`, `BlocksInv`, `TidyInv` and, without its types, `BindInv` on the instances of their runs, and of `EnvInv` all but the ring,
whose links are quantified over functions.

Only model-checked: the liveness properties `CallReturns` and `CallsReturn`, since liveness and `ENABLED` are out of the
prover's reach; and the four properties of Values.  `RoundTrip` is about positional numerals, folds of the
community modules over bytes and digits, whose induction the library's rules would need an operator for.  `ArraysSound`
and `NoSilentLoss` need an induction over the row loops and over the pieces, like those of StmtBindProofs,
and `OwnBytes` an assumption that says which variables an application can bind; these three are not out of reach.

## Not modelled

- The pools.  They cannot be entered at this commit: `sp_list` and `cp_list` of the
  environment are never initialised (`InitList` is called for `hdl_list` only,
  `kci_env.cpp:57`), so `KCISessionPoolCreate` (`kci_spool.cpp:109`) and
  `KCIConnectionPoolCreate` (`kci_cpool.cpp:59`) write through a null pointer.  A
  model would have to begin in a state the program cannot be in.
- The encrypted mode (`buildPhyConn` turns it off) and the third-party ciphers.
- The ODBC layer, which translates calls; its state is the KCI handles'.
- Character sets, error texts, descriptors and their getters, the link and block
  allocators: no state beyond a buffer that is freed as a whole.
- XA, user date formats and time zones, named types and objects (`KCIBindObject` and the like only assign), statements with several cursors.

Most of the repository's lines are not program logic of the driver: the API's
documentation in two headers (`kci_api.h` and `kci.h`, some 13 700 lines), tests and
demonstration programs, ciphers and hash functions of third parties, and the ODBC layer.
The models cover the parts of `ksources/` that keep state or compute, so their share of all the lines stays small.

## Plan

Written: NetIO, ByteQueue, NetIOProofs; BinSizes, BinMem, BinMemProofs; StmtFetch,
ResultSet, StmtFetchProofs; Request, RequestProofs; EnvHandles, EnvHandlesProofs; Session, SessionProofs;
SqlText, StmtBind, StmtBindProofs; Values; KciTime, Calendar, KciTimeProofs.

Proofs next, in this order:

1. Values: `OwnBytes`, which is about one parameter and the one before it.
2. Values: `ArraysSound` and `NoSilentLoss`, by induction over the rows and the pieces.
