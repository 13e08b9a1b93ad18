------------------------------ MODULE Request ------------------------------
(***************************************************************************)
(* Requests and answers on one physical connection: KCIStmtExecute with    *)
(* sendQryHead, sendQryParams, handleLobIStream and recvResult, and        *)
(* execCommand (COMMIT, ROLLBACK).  One thread drives the connection.      *)
(*                                                                         *)
(* The unit is a token, the bytes the server takes as one thing: the head  *)
(* of a request with its SQL, the parameters of one row, a piece of a      *)
(* large object, the zero length that ends the pieces.  NetIO models the   *)
(* bytes; here a call puts tokens into sbuff, of which the foremost may go *)
(* out when it is full, and netFlush sends the rest.  The server is        *)
(* external: it takes a request, may ask for a large object with 'S',      *)
(* and ends its answer with an error or an end mark.                       *)
(***************************************************************************)
EXTENDS Integers, Sequences

CONSTANTS
  Stmts,      \* statement handles
  Iters,      \* values of iters in KCIStmtExecute
  Lobs,       \* how statements get a large object: subset of
              \* {"none", "callback", "pieces"}
  ConvFails,  \* the value of a parameter may fail to convert
  FollowSpoiled, \* the application goes on with a spoiled connection
  PlainAfter, \* bound of the model: then only with one row, no large object
              \* and values that convert
  MaxReqs,    \* bound of the model: requests in a behaviour
  MaxBreaks,  \* bound of the model: broken connections
  MaxPieces,  \* bound of the model: pieces of one large object
  MaxMore     \* bound of the model: messages before the end of an answer

ASSUME ArgsAssumption ==
  /\ Iters \subseteq Nat \ {0} /\ Iters # {}
  /\ Lobs \subseteq {"none", "callback", "pieces"} /\ ConvFails \in BOOLEAN
  /\ FollowSpoiled \in BOOLEAN /\ PlainAfter \in BOOLEAN
ASSUME StmtsAssumption == {"command", "nobody"} \intersect Stmts = {}
ASSUME BoundsAssumption ==
  MaxReqs \in Nat /\ MaxBreaks \in Nat /\ MaxPieces \in Nat \ {0} /\ MaxMore \in Nat

VARIABLES
  stmts,   \* of each statement: prepared (sql_str), lob, piece_mode, its request
  told,    \* what the last call with a statement returned
  call,    \* the call in progress
  put,     \* the tokens it is about to put
  sbuff,   \* tokens in the send buffer, from the first that is not sent
  delivered, \* those before it: sent, but put_pos is not reset yet
  linked, breaks,
  up, down, \* tokens and answers under way
  srv,     \* the server's session
  ran,     \* how often the server has run each request
  kept,    \* requests a send that failed has left in sbuff
  reqs,    \* requests so far
  mixed,   \* a call has read an answer to another request
  spoiled  \* see Spoils

vars == <<stmts, told, call, put, sbuff, delivered, linked, breaks, up, down, srv, ran,
          kept, reqs, mixed, spoiled>>

Reqs == 1 .. MaxReqs
COMMAND == "command"
NoCall == [by |-> "nobody", at |-> "idle", path |-> "none", req |-> 0, asked |-> FALSE]
Fresh == [mode |-> "request", req |-> 0, left |-> 0, lob |-> "none", more |-> 0]

From(s, i) == SubSeq(s, i, Len(s))
Token(t, r) == [t |-> t, req |-> r, rows |-> 0, lob |-> "none"]

Init ==
  /\ stmts = [s \in Stmts |-> [prepared |-> FALSE, lob |-> "none", piece_mode |-> FALSE,
                               req |-> 0]]
  /\ told = [s \in Stmts |-> "nothing"]
  /\ call = NoCall /\ put = <<>> /\ sbuff = <<>> /\ delivered = <<>> /\ kept = {}
  /\ linked = TRUE /\ breaks = 0 /\ up = <<>> /\ down = <<>>
  /\ srv = Fresh /\ ran = [r \in Reqs |-> 0]
  /\ reqs = 0 /\ mixed = FALSE /\ spoiled = FALSE

Busy == call.at # "idle"
ByStmt == call.by # COMMAND
Pending(s) == told[s] = "need data"

(* While a statement waits for a piece, the application begins nothing     *)
(* else on the connection.                                                 *)
MayBegin == ~Busy /\ \A s \in Stmts : ~Pending(s)

(* A call returns.  It spoils the connection if it leaves bytes in sbuff,  *)
(* or unread answers on a dead socket that could not be replaced, or       *)
(* piece_mode set although the exchange is over.                           *)
Spoils(over) ==
  \/ sbuff' # <<>>
  \/ ~linked' /\ down' # <<>>
  \/ over /\ ByStmt /\ stmts'[call.by].piece_mode

Return(outcome, over) ==
  /\ call' = NoCall
  /\ told' = IF ByStmt THEN [told EXCEPT ![call.by] = outcome] ELSE told
  /\ spoiled' = (spoiled \/ Spoils(over))

-----------------------------------------------------------------------------
(* Calls *)

(* KCIStmtPrepare: piece_mode is left as it is. *)
Prepare(s, lob) ==
  /\ MayBegin
  /\ stmts' = [stmts EXCEPT ![s].prepared = TRUE, ![s].lob = lob]
  /\ told' = [told EXCEPT ![s] = "nothing"]
  /\ UNCHANGED <<call, put, sbuff, delivered, kept, linked, breaks, up, down, srv,
                 ran, reqs, mixed, spoiled>>

(* No SQL, or pieces asked for in a call with several rows (checkBinds). *)
Refused(s, n) ==
  /\ MayBegin /\ ~stmts[s].piece_mode
  /\ ~stmts[s].prepared \/ (stmts[s].lob = "pieces" /\ n > 1)
  /\ told' = [told EXCEPT ![s] = "error"]
  /\ UNCHANGED <<stmts, call, put, sbuff, delivered, kept, linked, breaks, up, down,
                 srv, ran, reqs, mixed, spoiled>>

Begin(by, path, r, toks) ==
  /\ call' = [by |-> by, at |-> "put", path |-> path, req |-> r, asked |-> FALSE]
  /\ told' = IF by \in Stmts THEN [told EXCEPT ![by] = "nothing"] ELSE told
  /\ put' = toks

(* The number of rows in the head. *)
OneRow(n) == 1                                       \* mutant: iters is not sent
RowsSaid(n) == n

RequestOf(r, n, lob, bad) ==
  <<[t |-> "head", req |-> r, rows |-> RowsSaid(n), lob |-> lob]>>
    \o [i \in 1 .. n |-> Token(IF i = bad THEN "part" ELSE "row", r)]

(* A request with n rows.  Row bad, if any, has a value that does not      *)
(* convert: sendQryParams gives up in the middle of it.  With one row the  *)
(* call gives up, too, with several it goes on.  A query sends one row.    *)
Execute(s, n, bad) ==
  /\ MayBegin /\ reqs < MaxReqs
  /\ stmts[s].prepared /\ ~stmts[s].piece_mode
  /\ ~(stmts[s].lob = "pieces" /\ n > 1)
  /\ reqs' = reqs + 1
  /\ stmts' = [stmts EXCEPT ![s].req = reqs + 1]
  /\ Begin(s, CASE n > 1 -> "many" [] bad = 1 -> "gives up" [] OTHER -> "one", reqs + 1,
           RequestOf(reqs + 1, n, stmts[s].lob, bad))
  /\ spoiled' = (spoiled \/ bad # 0)
  /\ UNCHANGED <<sbuff, delivered, kept, linked, breaks, up, down, srv, ran, mixed>>

(* KCIStmtExecute in piece mode sends the piece the application has set    *)
(* (at most MaxReqs tokens wait to be taken).                              *)
(* It is the last one: KCIStmtExecute waits for an answer after any piece, *)
(* and what the server would answer before the last cannot be told from    *)
(* the driver, whose callback path reads nothing between two pieces.       *)
ExecutePiece(s) ==
  /\ ~Busy /\ stmts[s].piece_mode /\ stmts[s].prepared
  /\ \A t \in Stmts \ {s} : ~Pending(t)
  /\ Len(sbuff) + Len(up) < MaxReqs
  /\ LET r == stmts[s].req IN Begin(s, "piece", r, <<Token("piece", r), Token("stop", r)>>)
  /\ UNCHANGED <<stmts, sbuff, delivered, kept, linked, breaks, up, down, srv, ran,
                 reqs, mixed, spoiled>>

(* execCommand: a request with no parameters in its one row. *)
Command ==
  /\ MayBegin /\ reqs < MaxReqs
  /\ reqs' = reqs + 1
  /\ Begin(COMMAND, "command", reqs + 1, RequestOf(reqs + 1, 1, COMMAND, 0))
  /\ UNCHANGED <<stmts, sbuff, delivered, kept, linked, breaks, up, down, srv, ran,
                 mixed, spoiled>>

-----------------------------------------------------------------------------
(* Sending *)

Outgoing(toks) == IF linked THEN up \o toks ELSE up

(* sockSend, called by sendData for a full sbuff and by netFlush, sends as *)
(* often as it takes.  What it has sent is in sbuff until put_pos is reset *)
(* behind it.  (The last token goes with the step that ends the call.)     *)
SendSome ==
  /\ \/ /\ call.at = "put" /\ sbuff = <<>> /\ Len(put) > 1
        /\ delivered' = Append(delivered, put[1]) /\ up' = Outgoing(<<put[1]>>)
        /\ put' = Tail(put) /\ UNCHANGED sbuff
     \/ /\ sbuff # <<>> /\ (call.at = "put" \/ (call.at = "flush" /\ Len(sbuff) > 1))
        /\ delivered' = Append(delivered, sbuff[1]) /\ up' = Outgoing(<<sbuff[1]>>)
        /\ sbuff' = Tail(sbuff) /\ UNCHANGED put
  /\ UNCHANGED <<stmts, told, call, linked, breaks, down, srv, ran, kept, reqs, mixed,
                 spoiled>>

(* After the pieces of a callback recvResult looks at piece_mode. *)
AsksAgain == call.asked /\ stmts[call.by].piece_mode

(* sendData: the foremost tokens may go out.  The four bytes of a stop are *)
(* the last ones put, and stay.                                            *)
Put ==
  /\ call.at = "put"
  /\ LET all == sbuff \o put
         k0  == IF all[Len(all)].t = "stop" THEN Len(all) - 1 ELSE Len(all)
     IN \E k \in 0 .. k0 :
          sbuff' = From(all, k + 1) /\ up' = Outgoing(SubSeq(all, 1, k))
  /\ put' = <<>> /\ delivered' = <<>>
  /\ UNCHANGED <<stmts, linked, breaks, down, srv, ran, kept, reqs, mixed>>
  /\ CASE call.path = "gives up" -> Return("error", TRUE)
       [] call.path # "gives up" /\ AsksAgain -> Return("need data", FALSE)
       [] OTHER ->
            /\ call' = [call EXCEPT !.at = IF call.asked THEN "read" ELSE "flush"]
            /\ UNCHANGED <<told, spoiled>>

(* netFlush.  Into a broken connection the bytes may go as well. *)
KeepBuff == sbuff                                   \* mutant: put_pos is not reset
Flushed == <<>>

SkipFlush ==                                         \* mutant: netFlush is missing
  /\ call.at = "flush"
  /\ call' = [call EXCEPT !.at = "read"]
  /\ UNCHANGED <<stmts, told, put, sbuff, delivered, kept, up, linked, breaks, down,
                 srv, ran, reqs, mixed, spoiled>>

Flush ==
  /\ call.at = "flush"
  /\ sbuff' = Flushed /\ delivered' = <<>> /\ up' = Outgoing(sbuff)
  /\ call' = [call EXCEPT !.at = "read"]
  /\ UNCHANGED <<stmts, told, put, linked, breaks, down, srv, ran, kept, reqs, mixed,
                 spoiled>>

-----------------------------------------------------------------------------
(* Failure *)

(* The server's session ends.  Answers on their way may still arrive. *)
Break ==
  /\ linked /\ breaks < MaxBreaks
  /\ linked' = FALSE /\ breaks' = breaks + 1
  /\ up' = <<>> /\ srv' = Fresh
  /\ \E k \in 0 .. Len(down) : down' = SubSeq(down, 1, k)
  /\ UNCHANGED <<stmts, told, call, put, sbuff, delivered, kept, ran, reqs, mixed,
                 spoiled>>

(* What sendData leaves in sbuff when a send fails: nothing if it was a    *)
(* direct one; or all that was there, sent already or not, with a token    *)
(* cut off at the end when the buffer was full.                            *)
Stretches(q) == {SubSeq(q, j, m) : j \in 1 .. Len(q), m \in 0 .. Len(q) - 1}
LeftBySend ==
  LET whole == Stretches((delivered \o sbuff) \o put)
  IN {<<>>} \union whole \union {q \o <<Token("part", call.req)>> : q \in whole}
Heads(q) == {q[i].req : i \in {j \in 1 .. Len(q) : q[j].t = "head"}}

(* buildPhyConn sends the login past sbuff, but reads its answer from      *)
(* rbuff, which may still hold the first k answers of the old socket.  It  *)
(* takes the first of them for the answer to the login; the real one stays *)
(* for a later call.                                                       *)
LoginDone == [kind |-> "K", req |-> 0]

Reconnect ==
  /\ up' = <<>> /\ srv' = Fresh
  /\ \E k \in 0 .. Len(down) :
       \/ linked' = TRUE
          /\ down' = IF k = 0 THEN <<>> ELSE Append(SubSeq(down, 2, k), LoginDone)
       \/ UNCHANGED linked /\ down' = SubSeq(down, 1, k)

(* IOEx.  The handler of KCIStmtExecute forgets the SQL and tries to build *)
(* a new connection; execCommand only reports the error.                   *)
NetError ==
  /\ ~linked
  /\ \/ call.at = "put" /\ sbuff' \in LeftBySend
     \/ call.at = "flush" /\ sbuff # <<>> /\ sbuff' = delivered \o sbuff
     \/ call.at = "read" /\ down = <<>> /\ UNCHANGED sbuff
  /\ put' = <<>> /\ delivered' = <<>>
  /\ kept' = kept \union Heads(sbuff')
  /\ IF ByStmt THEN stmts' = [stmts EXCEPT ![call.by].prepared = FALSE] /\ Reconnect
               ELSE UNCHANGED <<stmts, linked, up, down, srv>>
  /\ Return("error", TRUE)
  /\ UNCHANGED <<breaks, ran, reqs, mixed>>

-----------------------------------------------------------------------------
(* Receiving: recvResult, or the loop of execCommand *)

Reading == call.at = "read" /\ down # <<>>
Got == down[1]
Received ==
  /\ down' = Tail(down)
  /\ mixed' = (mixed \/ Got.req # call.req)

EndsAnyhow(kind) == kind # "S"                       \* mutant: a message ends the loop
EndsAnswer(kind) == kind \in {"E", "K"}

(* Rows, counts, messages, the context of the connection. *)
ReadMore ==
  /\ Reading /\ Got.kind = "more" /\ ~EndsAnswer(Got.kind) /\ ByStmt
  /\ Received
  /\ UNCHANGED <<stmts, told, call, put, sbuff, delivered, kept, linked, breaks, up,
                 srv, ran, reqs, spoiled>>

(* 'S' and a callback: it gives the pieces, and nothing is flushed. *)
ReadStreamCallback ==
  /\ Reading /\ Got.kind = "S" /\ ByStmt /\ stmts[call.by].lob = "callback"
  /\ Received
  /\ \E n \in 1 .. MaxPieces :
       put' = [i \in 1 .. n |-> Token("piece", call.req)] \o <<Token("stop", call.req)>>
  /\ call' = [call EXCEPT !.at = "put", !.asked = TRUE]
  /\ UNCHANGED <<stmts, told, sbuff, delivered, kept, linked, breaks, up, srv, ran,
                 reqs, spoiled>>

(* 'S' and no callback: the application is asked for the pieces. *)
ReadStreamPieces ==
  /\ Reading /\ Got.kind = "S" /\ ByStmt /\ stmts[call.by].lob = "pieces"
  /\ Received
  /\ stmts' = [stmts EXCEPT ![call.by].piece_mode = TRUE]
  /\ UNCHANGED <<put, sbuff, delivered, kept, linked, breaks, up, srv, ran, reqs>>
  /\ Return("need data", FALSE)

(* 'S' for a statement that has no large object, or in execCommand: what   *)
(* follows is not described.                                               *)
ReadStreamForeign ==
  /\ Reading /\ Got.kind = "S" /\ (ByStmt => stmts[call.by].lob = "none")
  /\ Received
  /\ call' = [call EXCEPT !.at = "lost"]
  /\ UNCHANGED <<stmts, told, put, sbuff, delivered, kept, linked, breaks, up, srv,
                 ran, reqs, spoiled>>

(* The end of the answer: an error, or the end mark.  execCommand takes    *)
(* anything but an end mark for an error.  After the answer to several     *)
(* rows KCIStmtExecute does not look at piece_mode.                        *)
ReadEnd ==
  /\ Reading /\ (EndsAnswer(Got.kind) \/ (~ByStmt /\ Got.kind = "more"))
  /\ Received
  /\ UNCHANGED <<stmts, put, sbuff, delivered, kept, linked, breaks, up, srv, ran,
                 reqs>>
  /\ Return(CASE Got.kind = "E" -> "error"
              [] Got.kind # "E" /\ ByStmt /\ call.path # "many"
                   /\ stmts[call.by].piece_mode -> "need data"
              [] OTHER -> "success",
            TRUE)

-----------------------------------------------------------------------------
(* The server *)

(* It takes the next token: a head, the rows announced, the pieces asked   *)
(* for.  After half a row it waits for the rest.  (The head carries what   *)
(* the SQL text says: whether it is a command, and has a large object.)    *)
Takes(tok) ==
  CASE srv.mode = "request" /\ tok.t = "head" ->
         [srv EXCEPT !.mode = "rows", !.req = tok.req, !.left = tok.rows, !.lob = tok.lob,
                     !.more = 0]
    [] srv.mode = "rows" /\ tok.t = "row" ->
         [srv EXCEPT !.mode = IF srv.left = 1 THEN "run" ELSE "rows", !.left = @ - 1]
    [] srv.mode \in {"request", "rows"} /\ tok.t = "part" -> [srv EXCEPT !.mode = "part"]
    [] srv.mode = "stream" /\ tok.t = "piece" -> srv
    [] srv.mode = "stream" /\ tok.t = "stop" -> [srv EXCEPT !.mode = "run", !.lob = "none"]
    [] OTHER -> [srv EXCEPT !.mode = "lost"]

ServerTakes ==
  /\ linked /\ up # <<>> /\ srv.mode \notin {"run", "lost"}
  /\ srv' = Takes(up[1]) /\ up' = Tail(up)
  /\ UNCHANGED <<stmts, told, call, put, sbuff, delivered, kept, linked, breaks, down,
                 ran, reqs, mixed, spoiled>>

Answer(kind) == down' = Append(down, [kind |-> kind, req |-> srv.req])

ServerAnswers ==
  /\ linked /\ srv.mode = "run"
  /\ \/ /\ srv.more < MaxMore /\ srv.lob # COMMAND /\ Answer("more")
        /\ srv' = [srv EXCEPT !.more = @ + 1] /\ UNCHANGED ran
     \/ /\ srv.lob \in {"callback", "pieces"} /\ Answer("S")
        /\ srv' = [srv EXCEPT !.mode = "stream"] /\ UNCHANGED ran
     \/ Answer("E") /\ srv' = Fresh /\ UNCHANGED ran
     \/ /\ srv.lob \in {"none", COMMAND} /\ Answer("K")
        /\ srv' = Fresh /\ ran' = [ran EXCEPT ![srv.req] = @ + 1]
  /\ UNCHANGED <<stmts, told, call, put, sbuff, delivered, kept, linked, breaks, up,
                 reqs, mixed, spoiled>>

-----------------------------------------------------------------------------
Driver ==
  \/ SendSome \/ Put \/ Flush \/ NetError
  \/ ReadMore \/ ReadStreamCallback \/ ReadStreamPieces \/ ReadStreamForeign \/ ReadEnd

Server == ServerTakes \/ ServerAnswers

Begun(lob, n, bad) == spoiled /\ PlainAfter => lob = "none" /\ n = 1 /\ bad = 0

Application ==
  \/ \E s \in Stmts, lob \in Lobs : Begun(lob, 1, 0) /\ Prepare(s, lob)
  \/ \E s \in Stmts, n \in Iters : Begun("none", n, 0) /\ Refused(s, n)
  \/ \E s \in Stmts, n \in Iters :
       \E bad \in IF ConvFails THEN 0 .. n ELSE {0} :
         Begun("none", n, bad) /\ Execute(s, n, bad)
  \/ \E s \in Stmts : ExecutePiece(s)
  \/ Command

Next ==
  \/ (spoiled => FollowSpoiled) /\ Application
  \/ Driver \/ Server \/ Break

(* The thread in a call goes on, and so does the server; nobody has to     *)
(* make calls, and no connection has to break.                             *)
Fairness == WF_vars(Driver) /\ WF_vars(Server)
Spec == Init /\ [][Next]_vars /\ Fairness

-----------------------------------------------------------------------------
(* Properties *)

(* The variables keep their types; only a call that is putting has tokens  *)
(* in hand, and the server never waits for more rows than were promised.   *)
TypeOK ==
  /\ stmts \in [Stmts -> [prepared : BOOLEAN, lob : Lobs \union {"none"},
                         piece_mode : BOOLEAN, req : {0} \union Reqs]]
  /\ told \in [Stmts -> {"nothing", "success", "error", "need data"}]
  /\ call.by \in Stmts \union {COMMAND, "nobody"}
  /\ call.at \in {"idle", "put", "flush", "read", "lost"}
  /\ (call.at = "idle" <=> call = NoCall) /\ (call.at = "put" <=> put # <<>>)
  /\ linked \in BOOLEAN /\ breaks \in 0 .. MaxBreaks
  /\ srv.mode \in {"request", "rows", "part", "stream", "run", "lost"}
  /\ \A n \in Iters : (\A m \in Iters : m <= n) => srv.left \in 0 .. n
  /\ ran \in [Reqs -> Nat] /\ reqs \in 0 .. MaxReqs
  /\ mixed \in BOOLEAN /\ spoiled \in BOOLEAN

(* An answer is read by the call that sent the request, also after errors  *)
(* and broken connections, as long as no call spoiled the connection.      *)
AnswersMatch == mixed => spoiled

(* The server runs a request twice only if a send that failed has left it  *)
(* in sbuff, on spoiled connections too: whatever else is sent again, is   *)
(* sent for the first time.                                                *)
AtMostOnce == \A r \in Reqs \ kept : ran[r] <= 1

(* As long as no call spoiled the connection, the server is never left     *)
(* with bytes it cannot place or with half a row.                          *)
ServerInStep == srv.mode \in {"part", "lost"} => spoiled

(* A session that is not between two requests works for the call in        *)
(* progress, or for the statement whose application was asked for data:    *)
(* nothing runs behind the application's back.                             *)
RunsForCaller ==
  srv.mode # "request" /\ ~spoiled =>
    \/ Busy /\ srv.req = call.req
    \/ \E s \in Stmts : Pending(s) /\ srv.req = stmts[s].req

(* KCI_SUCCESS from KCIStmtExecute means the server has run the request to *)
(* its end.                                                                *)
SuccessMeansRun ==
  \A s \in Stmts : told[s] = "success" /\ ~spoiled => ran[stmts[s].req] = 1

(* Every call returns, unless a callback was asked for a large object or   *)
(* the connection is spoiled: driver and server never wait for each other. *)
CallReturns == Busy ~> (~Busy \/ call.asked \/ spoiled)

(* "try to repair the connection" (kci_stmt.cpp:336): on a connection that *)
(* works, or works again, what a call reads answers its own request.       *)
AnswersOwn == linked => ~mixed

(* Driver and server agree, between any two steps, on whose request is      *)
(* under way and how far it has come.                                       *)
InStep == TypeOK /\ ServerInStep /\ RunsForCaller
=============================================================================
