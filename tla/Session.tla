------------------------------ MODULE Session ------------------------------
(***************************************************************************)
(* Attaching, logging on, transactions and detaching: one application      *)
(* thread with one service context, server, session and transaction        *)
(* handle, a direct connection (no pool).  kci_server.cpp, kci_svctx.cpp,  *)
(* kci_phyconn.cpp, kci_trans.cpp and the statements of kci_stmt.cpp.      *)
(*                                                                         *)
(* An action is a whole call.  The driver knows the server's transaction   *)
(* only by tran_status, bit 0 of the status byte that ends most answers;   *)
(* reConnect puts a new socket, and so a new session of the server, under  *)
(* the same PhyConn.  The server is external: its sessions hold            *)
(* uncommitted work, and one whose connection broke may still run what it  *)
(* has received before it ends.                                            *)
(*                                                                         *)
(* netFlush resets put_pos only behind a send that succeeds, and nothing   *)
(* else empties sbuff: what a failed call leaves there is sent ahead of    *)
(* the next request, on whatever socket, and its answer is read as that    *)
(* request's.  The driver is one answer behind from then on; whose answer  *)
(* it reads the model does not say, and any may come.                      *)
(*                                                                         *)
(* Descriptors matter at one number: an unused srv_sock is 0, and          *)
(* socket() gives 0 when the process has closed its own descriptor 0.      *)
(***************************************************************************)
EXTENDS Integers, Sequences, FiniteSets

CONSTANTS
  MaxWork,    \* bound of the model: changing statements in a behaviour
  MaxSess,    \* bound of the model: sessions of the server
  MaxBreaks,  \* bound of the model: broken connections
  MaxKept,    \* bound of the model: requests kept in sbuff, and one more
              \* may wait in a session
  MaxMisread, \* bound of the model: exchanges that read another's answer
  RollbkAll   \* a failing statement may roll back the whole transaction

ASSUME BoundsAssumption ==
  MaxWork \in Nat /\ MaxSess \in Nat \ {0} /\ MaxBreaks \in Nat
  /\ MaxKept \in Nat /\ MaxMisread \in Nat /\ RollbkAll \in BOOLEAN

VARIABLES
  svc,      \* what the service context points to: server, sess, trans
  conn,     \* the physical connection of the server handle
  fd0,      \* who has descriptor 0: the process, nobody, a forgotten socket
  sess,     \* the server's sessions
  durable,  \* committed work
  ran,      \* changing statements so far
  breaks,
  misread,  \* exchanges so far that read another's answer
  told,     \* what the last call returned
  by,       \* of each statement that succeeded by its own answer: the
            \* session that ran it
  mine,     \* of these, the ones since the last Attach, Begin, Detach,
            \* and the last Commit or Rollback that succeeded
  undone, dropped, \* rolled back by the application, by the server
  left,     \* sessions left open by a second Attach or Begin
  lost      \* was mine at a successful commit, and is not durable

driver == <<svc, conn, fd0>>
server == <<sess, durable, ran, breaks, misread>>
history == <<by, mine, undone, dropped, left, lost>>
vars == <<svc, conn, fd0, sess, durable, ran, breaks, misread, told, by, mine,
          undone, dropped, left, lost>>

Work == 1 .. MaxWork
Sess == 1 .. MaxSess

(* A PhyConn as KCIServerAttach leaves it, zeroed. *)
NewConn == [at |-> "set", sock |-> 0, tran |-> FALSE, sbuff |-> <<>>, behind |-> FALSE]
Unborn == [is |-> "none", auto |-> TRUE, work |-> {}, late |-> <<>>]
LoggedIn == [Unborn EXCEPT !.is = "up"]
Gone == [Unborn EXCEPT !.is = "gone"]

OFF == <<"set auto commit off">>
COMMIT == <<"COMMIT">>
ROLLBACK == <<"ROLLBACK">>
DML(w) == <<"DML", w>>
Cmds == {OFF, COMMIT, ROLLBACK} \union {DML(w) : w \in Work}

Init ==
  /\ svc = [server |-> FALSE, sess |-> FALSE, trans |-> FALSE]
  /\ conn = [NewConn EXCEPT !.at = "none"]
  /\ fd0 = "process"
  /\ sess = [i \in Sess |-> Unborn]
  /\ durable = {} /\ ran = 0 /\ breaks = 0 /\ misread = 0
  /\ told = "nothing"
  /\ by = [w \in Work |-> 0]
  /\ mine = {} /\ undone = {} /\ dropped = {} /\ left = {} /\ lost = {}

(* The application makes calls in the order the interface asks for: a      *)
(* service context with a server handle that is attached.                  *)
Attached == svc.server /\ conn.at = "set"
Up(i) == i \in Sess /\ sess[i].is = "up"

-----------------------------------------------------------------------------
(* The server *)

AfterRun(s, cmd) ==
  CASE cmd = OFF -> [s EXCEPT !.auto = FALSE]
    [] cmd \in {COMMIT, ROLLBACK} -> [s EXCEPT !.work = {}]
    [] OTHER -> IF s.auto THEN s ELSE [s EXCEPT !.work = @ \union {cmd[2]}]

MadeDurable(s, cmd) ==
  CASE cmd = COMMIT -> s.work
    [] cmd \in {OFF, ROLLBACK} -> {}
    [] OTHER -> IF s.auto THEN {cmd[2]} ELSE {}

(* Of what it received ahead of the driver, or on a connection that broke, *)
(* a session runs the first, or fails to.                                  *)
LateRun(i) ==
  /\ sess[i].late # <<>>
  /\ LET s == [sess[i] EXCEPT !.late = Tail(@)]
         cmd == Head(sess[i].late)
     IN \/ /\ durable' = durable \union MadeDurable(s, cmd)
           /\ sess' = [sess EXCEPT ![i] = AfterRun(s, cmd)] /\ UNCHANGED dropped
        \/ /\ sess' = [sess EXCEPT ![i] = s] /\ UNCHANGED <<durable, dropped>>
        \/ /\ RollbkAll
           /\ sess' = [sess EXCEPT ![i] = [s EXCEPT !.work = {}]]
           /\ dropped' = dropped \union s.work /\ UNCHANGED durable
  /\ UNCHANGED <<driver, by, mine, undone, left, lost, ran, breaks, misread, told>>

SessionEnds(i) ==
  /\ sess[i].is = "cut"
  /\ sess' = [sess EXCEPT ![i] = Gone]
  /\ UNCHANGED <<driver, history, durable, ran, breaks, misread, told>>

(* The connection breaks while nothing is under way. *)
Break ==
  /\ Up(conn.sock) /\ breaks < MaxBreaks
  /\ breaks' = breaks + 1
  /\ sess' = [sess EXCEPT ![conn.sock].is = "cut"]
  /\ UNCHANGED <<driver, history, durable, ran, misread, told>>

-----------------------------------------------------------------------------
(* One exchange on the connection: execCommand, or the sendQryHead,        *)
(* sendQryParams and recvResult of a statement.  netFlush sends all of     *)
(* sbuff, the request at its end.                                          *)
AllOf(cmd) == Append(conn.sbuff, cmd)
InStep == conn.sbuff = <<>> /\ ~conn.behind
Room(q) == Len(q) <= MaxKept
MayWait(q) == Len(q) <= MaxKept + 1

(* The status byte.  The answer of a statement may end with no status,     *)
(* which leaves tran_status as it was; the server reports a transaction    *)
(* with work in it before or with the answer that begins it.               *)
IgnoreStatus(b) == conn.tran                         \* mutant: the byte is skipped
TranStatus(b) == b

Succeeds(cmd) ==
  /\ Up(conn.sock) /\ InStep
  /\ LET s == sess[conn.sock] IN
       /\ sess' = [sess EXCEPT ![conn.sock] = AfterRun(s, cmd)]
       /\ durable' = durable \union MadeDurable(s, cmd)
       /\ \E b \in BOOLEAN :
            /\ (AfterRun(s, cmd).work # {}) => b
            /\ conn' = [conn EXCEPT !.tran = TranStatus(b)]
  /\ UNCHANGED <<fd0, breaks, misread, dropped>>

(* 'E': no status byte follows. *)
Fails ==
  /\ Up(conn.sock) /\ InStep
  /\ \/ UNCHANGED <<sess, dropped>>
     \/ /\ RollbkAll
        /\ sess' = [sess EXCEPT ![conn.sock].work = {}]
        /\ dropped' = dropped \union sess[conn.sock].work
  /\ UNCHANGED <<conn, fd0, durable, breaks, misread>>

(* The answer read is not that of cmd: the request follows others, or      *)
(* unread answers; or srv_sock is 0, so that netFlush sends nothing and    *)
(* readData leaves the byte uninitialised.                                 *)
Misread(cmd, b) ==
  /\ misread < MaxMisread /\ misread' = misread + 1
  /\ \/ /\ Up(conn.sock) /\ ~InStep
        /\ LET q == sess[conn.sock].late \o AllOf(cmd)
           IN MayWait(q) /\ sess' = [sess EXCEPT ![conn.sock].late = q]
        /\ conn' = [conn EXCEPT !.sbuff = <<>>, !.behind = TRUE, !.tran = b]
     \/ /\ ~Up(conn.sock) /\ conn.sock # 0 /\ conn.behind
        /\ conn' = [conn EXCEPT !.sbuff = <<>>, !.tran = b] /\ UNCHANGED sess
     \/ /\ conn.sock = 0 /\ Room(AllOf(cmd))
        /\ conn' = [conn EXCEPT !.sbuff = AllOf(cmd), !.tran = b] /\ UNCHANGED sess
  /\ UNCHANGED <<fd0, durable, breaks, dropped>>

MisreadSuccess(cmd) == \E b \in BOOLEAN : Misread(cmd, b)
MisreadError(cmd) == Misread(cmd, conn.tran)

(* IOEx: the socket is dead already, or dies with the request under way.   *)
(* If the send fails all stays in sbuff, although what precedes the last   *)
(* request may have arrived; if not, sbuff is empty and the answer is lost *)
(* (a dead socket may still take what is sent).                            *)
KeptOf(cmd) == {<<>>, AllOf(cmd)}
Arrived(cmd, kept) == IF kept = <<>> THEN AllOf(cmd) ELSE conn.sbuff

CutOff(cmd, kept) ==
  [sess EXCEPT ![conn.sock].is = "cut", ![conn.sock].late = @ \o Arrived(cmd, kept)]
Dying(cmd, kept) == IF Up(conn.sock) THEN CutOff(cmd, kept) ELSE sess

IOEx(cmd, kept) ==
  /\ conn.sock # 0 /\ Room(kept)
  /\ \/ ~Up(conn.sock) /\ UNCHANGED breaks
     \/ /\ Up(conn.sock) /\ breaks < MaxBreaks /\ breaks' = breaks + 1
        /\ MayWait(sess[conn.sock].late \o Arrived(cmd, kept))

NetError(cmd) ==
  /\ \E kept \in KeptOf(cmd) :
       /\ IOEx(cmd, kept)
       /\ sess' = Dying(cmd, kept) /\ conn' = [conn EXCEPT !.sbuff = kept]
  /\ UNCHANGED <<fd0, durable, misread, dropped>>

(* execCommand returns KCI_ERROR. *)
Error(cmd) == Fails \/ MisreadError(cmd) \/ NetError(cmd)

-----------------------------------------------------------------------------
(* buildPhyConn, from the socket to the answer to LOGIN.  It never closes  *)
(* a socket and touches neither tran_status nor the buffers.  A refused    *)
(* login leaves srv_sock at the new socket.  LOGIN itself does not go      *)
(* through sbuff, but what is in rbuff is read as its answer.              *)

TakenSocket(i, kept, b) == [conn EXCEPT !.sock = i, !.sbuff = kept, !.behind = b]
NextSess(i) == sess[i].is = "none" /\ \A j \in Sess : j < i => sess[j].is # "none"

(* "Create socket failed": socket() returned 0, and nobody closes it. *)
NoSocket == fd0 = "nobody" /\ fd0' = "socket"
Unreachable == fd0 # "nobody" /\ UNCHANGED fd0
Unconnected(kept) == (NoSocket \/ Unreachable) /\ conn' = [conn EXCEPT !.sbuff = kept]

NewSession(old, kept, s) ==
  /\ fd0 # "nobody" /\ UNCHANGED fd0
  /\ \E i \in Sess, b \in {FALSE, conn.behind} :
       /\ NextSess(i)
       /\ sess' = [old EXCEPT ![i] = s]
       /\ conn' = TakenSocket(i, kept, b)
Refused(old, kept) == NewSession(old, kept, Gone)
Connected(old, kept) == NewSession(old, kept, LoggedIn)

(* Sessions the application turns its back on while they are open. *)
Leaves == IF Up(conn.sock) THEN left \union {conn.sock} ELSE left

-----------------------------------------------------------------------------
(* Calls *)

(* KCIServerAttach, and KCIAttrSet of the server: a PhyConn without a      *)
(* socket.  The one before is forgotten.                                   *)
KCIServerAttach ==
  /\ conn' = NewConn
  /\ svc' = [svc EXCEPT !.server = TRUE]
  /\ left' = Leaves /\ mine' = {}
  /\ told' = "ok"
  /\ UNCHANGED <<fd0, server, by, undone, dropped, lost>>

(* KCIAttrSet of the session and of the transaction. *)
SetSession ==
  /\ ~svc.sess /\ svc' = [svc EXCEPT !.sess = TRUE] /\ told' = "ok"
  /\ UNCHANGED <<conn, fd0, server, history>>
SetTrans ==
  /\ ~svc.trans /\ svc' = [svc EXCEPT !.trans = TRUE] /\ told' = "ok"
  /\ UNCHANGED <<conn, fd0, server, history>>

(* KCISessionBegin. *)
BeginSucceeds ==
  /\ Attached
  /\ Connected(sess, conn.sbuff) \/ (Refused(sess, conn.sbuff) /\ conn'.behind)
  /\ left' = Leaves /\ mine' = {} /\ told' = "ok"
  /\ UNCHANGED <<svc, durable, ran, breaks, misread, by, undone, dropped, lost>>
BeginFails ==
  /\ Attached
  /\ \/ Unconnected(conn.sbuff) /\ UNCHANGED <<sess, left>>
     \/ /\ Refused(sess, conn.sbuff) \/ (Connected(sess, conn.sbuff) /\ conn'.behind)
        /\ left' = Leaves
  /\ mine' = {} /\ told' = "error"
  /\ UNCHANGED <<svc, durable, ran, breaks, misread, by, undone, dropped, lost>>
KCISessionBegin == BeginSucceeds \/ BeginFails

(* KCISessionEnd only takes the handles apart. *)
KCISessionEnd ==
  /\ svc.sess /\ svc' = [svc EXCEPT !.sess = FALSE] /\ told' = "ok"
  /\ UNCHANGED <<conn, fd0, server, history>>

(* KCITransStart with KCI_TRANS_NEW; the other flags do nothing. *)
KCITransStart ==
  /\ Attached /\ svc.trans
  /\ \/ (Succeeds(OFF) \/ MisreadSuccess(OFF)) /\ told' = "ok"
     \/ Error(OFF) /\ told' = "error"
  /\ UNCHANGED <<svc, ran, by, mine, undone, left, lost>>

(* A large object is bound: with no transaction handle set, the bind calls *)
(* make one and start it, whatever comes of it.                            *)
BindLob ==
  /\ Attached /\ ~svc.trans
  /\ svc' = [svc EXCEPT !.trans = TRUE]
  /\ Succeeds(OFF) \/ MisreadSuccess(OFF) \/ Error(OFF)
  /\ told' = "ok"
  /\ UNCHANGED <<ran, by, mine, undone, left, lost>>

KCITransDetach ==
  /\ svc.trans /\ svc' = [svc EXCEPT !.trans = FALSE] /\ told' = "ok"
  /\ UNCHANGED <<conn, fd0, server, history>>

(* Commit and Rollback succeed at once when no transaction is known. *)
InTransaction == conn.tran

Skip(answer) ==
  /\ ~InTransaction /\ told' = answer
  /\ UNCHANGED <<conn, fd0, sess, durable, breaks, misread, dropped>>

CommitRollsBack == ROLLBACK                          \* mutant: the wrong command
CommitText == COMMIT
KCITransCommit ==
  /\ Attached
  /\ \/ /\ \/ Skip("committed")
           \/ InTransaction /\ Succeeds(CommitText) /\ told' = "committed"
        /\ mine' = {}
        /\ lost' = IF conn.behind THEN lost ELSE lost \union (mine \ durable')
     \/ /\ InTransaction /\ MisreadSuccess(CommitText) /\ told' = "committed"
        /\ mine' = {} /\ UNCHANGED lost
     \/ InTransaction /\ Error(CommitText) /\ told' = "error" /\ UNCHANGED <<mine, lost>>
  /\ UNCHANGED <<svc, ran, by, undone, left>>

RollbackCommits == COMMIT                            \* mutant: the wrong command
RollbackText == ROLLBACK
KCITransRollback ==
  /\ Attached
  /\ \/ /\ \/ Skip("rolled back") /\ UNCHANGED undone
           \/ /\ InTransaction /\ Succeeds(RollbackText) /\ told' = "rolled back"
              /\ undone' = undone \union sess[conn.sock].work
           \/ /\ InTransaction /\ MisreadSuccess(RollbackText) /\ told' = "rolled back"
              /\ UNCHANGED undone
        /\ mine' = {}
     \/ InTransaction /\ Error(RollbackText) /\ told' = "error" /\ UNCHANGED <<mine, undone>>
  /\ UNCHANGED <<svc, ran, by, left, lost>>

(* KCIStmtExecute of a changing statement.  A parameter that cannot be     *)
(* converted ends the call with the head of the request in sbuff.  On a    *)
(* broken connection reConnect logs on again with the session of the       *)
(* service context, and the call fails whether or not that works.          *)
ExecuteSucceeds(w) ==
  /\ \/ /\ Succeeds(DML(w))
        /\ by' = [by EXCEPT ![w] = conn.sock] /\ mine' = mine \union {w}
     \/ MisreadSuccess(DML(w)) /\ UNCHANGED <<by, mine>>
  /\ told' = "ok"

NotSent(w) ==
  /\ Room(AllOf(DML(w))) /\ conn' = [conn EXCEPT !.sbuff = AllOf(DML(w))]
  /\ UNCHANGED <<fd0, sess, durable, breaks, misread, dropped>>
ExecuteFails(w) ==
  /\ Fails \/ MisreadError(DML(w)) \/ NotSent(w)
  /\ told' = "error" /\ UNCHANGED <<by, mine>>

reConnect(cmd) ==
  /\ \E kept \in KeptOf(cmd) :
       /\ IOEx(cmd, kept)
       /\ \/ Unconnected(kept) /\ sess' = Dying(cmd, kept)
          \/ Refused(Dying(cmd, kept), kept) \/ Connected(Dying(cmd, kept), kept)
  /\ told' = "error"
  /\ UNCHANGED <<durable, misread, dropped, by, mine>>

KCIStmtExecute ==
  /\ Attached /\ svc.sess /\ ran < MaxWork
  /\ ran' = ran + 1
  /\ ExecuteSucceeds(ran + 1) \/ ExecuteFails(ran + 1) \/ reConnect(DML(ran + 1))
  /\ UNCHANGED <<svc, undone, left, lost>>

(* KCIServerDetach: closePhyConn rolls back a known transaction, whatever  *)
(* comes of it, and closes srv_sock, 0 when there never was a socket.      *)
(* phy_conn is left pointing at the freed PhyConn.                         *)
DetachText == ROLLBACK
LeavesOpen(i) == FALSE                               \* mutant: the socket stays open
Closes(i) == TRUE

(* A session that has received what it has not run ends behind it. *)
Closed ==
  IF ~Up(conn.sock) \/ ~Closes(conn.sock) THEN sess
  ELSE [sess EXCEPT ![conn.sock] =
          IF @.late = <<>> THEN Gone ELSE [@ EXCEPT !.is = "cut"]]

TakesBack ==
  /\ Up(conn.sock) /\ InStep /\ sess' = Closed
  /\ durable' = durable \union MadeDurable(sess[conn.sock], DetachText)
  /\ undone' = undone \union sess[conn.sock].work
  /\ UNCHANGED breaks

(* Out of step ROLLBACK is sent, and whatever is read closes the socket. *)
SentOnly ==
  /\ Up(conn.sock) /\ IF InStep THEN breaks < MaxBreaks /\ breaks' = breaks + 1
                     ELSE UNCHANGED breaks
  /\ MayWait(sess[conn.sock].late \o AllOf(DetachText))
  /\ sess' = CutOff(DetachText, <<>>)
  /\ UNCHANGED <<durable, undone>>

KCIServerDetach ==
  /\ Attached
  /\ conn' = [NewConn EXCEPT !.at = "freed"]
  /\ fd0' = IF conn.sock = 0 /\ Closes(0) THEN "nobody" ELSE fd0
  /\ \/ InTransaction /\ (TakesBack \/ SentOnly)
     \/ /\ InTransaction => ~Up(conn.sock)
        /\ sess' = Closed /\ UNCHANGED <<durable, undone, breaks>>
  /\ mine' = {} /\ told' = "ok"
  /\ UNCHANGED <<svc, ran, misread, by, dropped, left, lost>>

Next ==
  \/ KCIServerAttach \/ SetSession \/ SetTrans \/ KCISessionBegin \/ KCISessionEnd
  \/ KCITransStart \/ BindLob \/ KCITransDetach \/ KCITransCommit \/ KCITransRollback
  \/ KCIStmtExecute \/ KCIServerDetach \/ Break
  \/ \E i \in Sess : LateRun(i) \/ SessionEnds(i)

Spec == Init /\ [][Next]_vars

-----------------------------------------------------------------------------
(* Types, by part of the state. *)
ConnType == [at : {"none", "set", "freed"}, sock : 0 .. MaxSess, tran : BOOLEAN,
             sbuff : Seq(Cmds), behind : BOOLEAN]
HandleTypes ==
  /\ svc \in [server : BOOLEAN, sess : BOOLEAN, trans : BOOLEAN]
  /\ conn \in ConnType
  /\ fd0 \in {"process", "nobody", "socket"}

SessionType == [is : {"none", "up", "cut", "gone"}, auto : BOOLEAN,
                work : SUBSET Work, late : Seq(Cmds)]
SessTypes ==
  /\ sess \in [Sess -> SessionType]
  /\ \A i \in Sess : sess[i].is \in {"none", "gone"} => sess[i].work = {}
  /\ \A i \in Sess : sess[i].late # <<>> => sess[i].is \in {"up", "cut"}

CountTypes ==
  ran \in 0 .. MaxWork /\ breaks \in 0 .. MaxBreaks /\ misread \in 0 .. MaxMisread
  /\ durable \subseteq 1 .. ran

(* Types; only the current session takes new work; a freed PhyConn has no  *)
(* open session; the histories of commit and rollback cover what ran.      *)
TypeOK ==
  /\ HandleTypes /\ SessTypes /\ CountTypes
  /\ by \in [Work -> 0 .. MaxSess]
  /\ (mine \union undone) \subseteq {w \in Work : by[w] # 0}

(* tran_status never misses a transaction: as long as the socket is alive, *)
(* the driver is not an answer behind, and the server's session holds      *)
(* uncommitted work, bit 0 is set, so that Commit, Rollback and Detach do  *)
(* not take their shortcut.                                                *)
NoHiddenWork ==
  (Attached /\ Up(conn.sock) /\ ~conn.behind /\ sess[conn.sock].work # {}) => conn.tran

(* When KCITransCommit succeeds, with or without asking the server, on a   *)
(* connection that is not an answer behind, every statement that succeeded *)
(* in the server session under it is durable, or was rolled back before.   *)
CommitTakesAll ==
  told = "committed" /\ ~conn.behind =>
    \A w \in Work : by[w] # 0 /\ by[w] = conn.sock =>
      w \in durable \union undone \union dropped

(* What a rollback or a detach took back never becomes durable, not even   *)
(* by a request kept in sbuff or under way when a connection broke; and a  *)
(* rollback that succeeds on a connection that is not an answer behind     *)
(* leaves nothing in the session under it.                                 *)
RollbackTakesAll ==
  /\ undone \intersect durable = {}
  /\ told = "rolled back" /\ Up(conn.sock) /\ ~conn.behind => sess[conn.sock].work = {}

(* A session of the server that is open is the one under the connection,   *)
(* unless a second Attach or Begin turned its back on it: reConnect and    *)
(* Detach leave none behind, with its locks and its transaction.           *)
NoOrphan ==
  \A i \in Sess : Up(i) => (conn.at = "set" /\ conn.sock = i) \/ i \in left

(* kci_trans.cpp:150: KCITransCommit returns with a status indicating that *)
(* the transaction has either been committed or rolled back.  So success   *)
(* means that the statements that succeeded since the last one are kept,   *)
(* as long as no answer is mistaken for another.                           *)
CommitMeansKept == lost = {}

(* The driver knows of the server's transaction, through every call that    *)
(* fails and every connection that breaks, until it is an answer behind.    *)
TransactionKnown == TypeOK /\ NoHiddenWork
=============================================================================
