--------------------------- MODULE SessionProofs ---------------------------
(***************************************************************************)
(* For any number of statements, sessions and breaking connections: as     *)
(* long as the driver is not an answer behind it never misses a            *)
(* transaction, commit takes all of it, and rollback takes it back; what   *)
(* it takes back is never kept, and no session of the server is left open. *)
(***************************************************************************)
EXTENDS Session, SequenceTheorems, TLAPS

In(x, q) == \E k \in 1 .. Len(q) : q[k] = x

(* Uncommitted work belongs to the session that ran it.  A session may     *)
(* also hold a statement whose success nobody learned of.                  *)
WorkOwned ==
  \A i \in Sess : \A w \in sess[i].work : w <= ran /\ (by[w] = i \/ by[w] = 0)

(* Statements are numbered as they run, and each ran in a session that had *)
(* begun: a new statement, and a new session, are fresh.                   *)
RunsKnown == \A w \in Work : by[w] # 0 => w <= ran /\ sess[by[w]].is # "none"

(* A statement that waits in sbuff or in a session is not known to have    *)
(* succeeded, and none that has is sent again.                             *)
LateUnknown ==
  /\ \A w \in Work : In(DML(w), conn.sbuff) => w <= ran /\ by[w] = 0
  /\ \A i \in Sess : \A w \in Work : In(DML(w), sess[i].late) => w <= ran /\ by[w] = 0

(* A driver that is not behind knows what its session has done and that    *)
(* nothing waits there, even if requests wait in sbuff.                    *)
NothingWaits ==
  Up(conn.sock) /\ ~conn.behind =>
    sess[conn.sock].late = <<>> /\ \A w \in sess[conn.sock].work : by[w] # 0

(* What becomes of a statement that succeeded. *)
Settled(w) == w \in durable \union undone \union dropped

(* An open session still holds what is not settled; the session under a    *)
(* connection without a known transaction holds nothing back.              *)
NothingForgotten ==
  \A w \in Work : by[w] # 0 /\ by[w] = conn.sock /\ ~conn.behind =>
    /\ Up(conn.sock) => Settled(w) \/ w \in sess[conn.sock].work
    /\ conn.at = "set" /\ ~conn.tran => Settled(w)

(* Work is uncommitted or durable or taken back, never two of them, unless *)
(* it is that of a statement that was sent twice.                          *)
Apart ==
  /\ undone \intersect durable = {}
  /\ \A i \in Sess :
       /\ sess[i].work \intersect undone = {}
       /\ \A w \in sess[i].work : by[w] # 0 => w \notin durable

SessionInv ==
  /\ TypeOK /\ NoHiddenWork
  /\ WorkOwned /\ RunsKnown /\ LateUnknown /\ NothingWaits /\ NothingForgotten /\ Apart
  /\ CommitTakesAll /\ RollbackTakesAll

(* What is in a sequence made of others. *)
LEMMA InFacts ==
  ASSUME NEW S, NEW p \in Seq(S), NEW q \in Seq(S), NEW c \in S
  PROVE  /\ \A x : ~In(x, <<>>)
         /\ Append(p, c) \in Seq(S) /\ p \o q \in Seq(S)
         /\ \A x : In(x, Append(p, c)) => In(x, p) \/ x = c
         /\ \A x : In(x, p \o q) => In(x, p) \/ In(x, q)
         /\ p # <<>> => /\ Head(p) \in S /\ Tail(p) \in Seq(S) /\ In(Head(p), p)
                        /\ \A x : In(x, Tail(p)) => In(x, p)
<1>1. \A x : ~In(x, <<>>)
  BY EmptySeq DEF In
<1>2. Append(p, c) \in Seq(S) /\ \A x : In(x, Append(p, c)) => In(x, p) \/ x = c
  BY AppendProperties DEF In
<1>3. p \o q \in Seq(S) /\ \A x : In(x, p \o q) => In(x, p) \/ In(x, q)
  <2>1. p \o q \in Seq(S)
    BY ConcatProperties
  <2>2. ASSUME NEW x, NEW k \in 1 .. Len(p \o q), (p \o q)[k] = x
        PROVE  In(x, p) \/ In(x, q)
    <3>1. Len(p \o q) = Len(p) + Len(q) /\ Len(p) \in Nat /\ Len(q) \in Nat
      BY LenProperties, ConcatProperties
    <3>2. CASE k <= Len(p)
      BY <2>2, <3>1, <3>2, ConcatProperties DEF In
    <3>3. CASE k > Len(p)
      <4>1. k - Len(p) \in 1 .. Len(q) /\ q[k - Len(p)] = x
        BY <2>2, <3>1, <3>3, ConcatProperties
      <4> QED
        BY <4>1 DEF In
    <3> QED
      BY <3>1, <3>2, <3>3
  <2> QED
    BY <2>1, <2>2 DEF In
<1>4. ASSUME p # <<>>
      PROVE  /\ Head(p) \in S /\ Tail(p) \in Seq(S) /\ In(Head(p), p)
             /\ \A x : In(x, Tail(p)) => In(x, p)
  <2>1. /\ Head(p) = p[1] /\ Tail(p) \in Seq(S) /\ Len(Tail(p)) = Len(p) - 1
        /\ \A k \in 1 .. Len(Tail(p)) : Tail(p)[k] = p[k + 1]
        /\ Len(p) \in Nat /\ Len(p) >= 1
    BY <1>4, HeadTailProperties, EmptySeq, LenProperties
  <2>2. 1 \in 1 .. Len(p) /\ \A k \in 1 .. Len(Tail(p)) : k + 1 \in 1 .. Len(p)
    BY <2>1
  <2>3. p[1] \in S
    BY <2>2, ElementOfSeq
  <2> QED
    BY <2>1, <2>2, <2>3 DEF In
<1> QED
  BY <1>1, <1>2, <1>3, <1>4

(* The commands differ, and no statement is one of them. *)
LEMMA CmdsDistinct ==
  /\ OFF # COMMIT /\ OFF # ROLLBACK /\ COMMIT # ROLLBACK
  /\ \A w \in Work : DML(w) # OFF /\ DML(w) # COMMIT /\ DML(w) # ROLLBACK /\ DML(w)[2] = w
  /\ \A cmd \in Cmds : cmd \in {OFF, COMMIT, ROLLBACK} \/ \E w \in Work : cmd = DML(w)
  /\ OFF \in Cmds /\ COMMIT \in Cmds /\ ROLLBACK \in Cmds /\ \A w \in Work : DML(w) \in Cmds
BY DEF OFF, COMMIT, ROLLBACK, DML, Cmds

(* A socket number other than 0 is a session. *)
LEMMA SessFacts ==
  0 \notin Sess /\ Sess \subseteq 0 .. MaxSess /\ \A i \in 0 .. MaxSess : i # 0 => i \in Sess
BY BoundsAssumption DEF Sess

(* What running a request leaves in a session, and what it makes durable. *)
LEMMA AfterRunShape ==
  ASSUME NEW s \in SessionType, NEW cmd \in Cmds
  PROVE  /\ AfterRun(s, cmd) \in SessionType
         /\ AfterRun(s, cmd).is = s.is /\ AfterRun(s, cmd).late = s.late
         /\ cmd = OFF => AfterRun(s, cmd).work = s.work /\ MadeDurable(s, cmd) = {}
         /\ cmd = COMMIT => AfterRun(s, cmd).work = {} /\ MadeDurable(s, cmd) = s.work
         /\ cmd = ROLLBACK => AfterRun(s, cmd).work = {} /\ MadeDurable(s, cmd) = {}
         /\ \A w \in Work : cmd = DML(w) =>
              IF s.auto THEN AfterRun(s, cmd).work = s.work /\ MadeDurable(s, cmd) = {w}
                        ELSE AfterRun(s, cmd).work = s.work \union {w} /\ MadeDurable(s, cmd) = {}
<1>1. CASE cmd = OFF
  BY <1>1, CmdsDistinct DEF AfterRun, MadeDurable, SessionType
<1>2. CASE cmd = COMMIT
  BY <1>2, CmdsDistinct DEF AfterRun, MadeDurable, SessionType
<1>3. CASE cmd = ROLLBACK
  BY <1>3, CmdsDistinct DEF AfterRun, MadeDurable, SessionType
<1>4. ASSUME NEW w \in Work, cmd = DML(w)
      PROVE /\ AfterRun(s, cmd) \in SessionType
            /\ AfterRun(s, cmd).is = s.is /\ AfterRun(s, cmd).late = s.late
            /\ IF s.auto THEN AfterRun(s, cmd).work = s.work /\ MadeDurable(s, cmd) = {w}
                        ELSE AfterRun(s, cmd).work = s.work \union {w} /\ MadeDurable(s, cmd) = {}
  <2>1. /\ AfterRun(s, cmd) = IF s.auto THEN s ELSE [s EXCEPT !.work = @ \union {w}]
        /\ MadeDurable(s, cmd) = IF s.auto THEN {w} ELSE {}
    BY <1>4, CmdsDistinct DEF AfterRun, MadeDurable
  <2> QED
    BY <2>1 DEF SessionType
<1> QED
  BY <1>1, <1>2, <1>3, <1>4, CmdsDistinct

(* Uncommitted work is among the statements that ran. *)
LEMMA Numbers ==
  ASSUME SessionInv
  PROVE  /\ ran \in Nat /\ ran <= MaxWork
         /\ \A i \in Sess : sess[i].work \subseteq Work /\ sess[i].work \subseteq 1 .. ran
<1>1. ran \in Nat /\ ran <= MaxWork
  BY BoundsAssumption DEF SessionInv, TypeOK, CountTypes
<1>2. \A i \in Sess : sess[i].work \subseteq Work
  BY DEF SessionInv, TypeOK, SessTypes, SessionType
<1>3. \A w \in Work : w <= ran => w \in 1 .. ran
  BY <1>1, BoundsAssumption DEF Work
<1> QED
  BY <1>1, <1>2, <1>3 DEF SessionInv, WorkOwned

(* Nothing has run, nothing is open. *)
LEMMA InitInv == Init => SessionInv
<1> SUFFICES ASSUME Init PROVE SessionInv
  OBVIOUS
<1>1. /\ \A i \in Sess : /\ sess[i].is = "none" /\ sess[i].work = {} /\ sess[i].late = <<>>
      /\ \A w \in Work : by[w] = 0
      /\ conn.at = "none" /\ conn.sock = 0 /\ ~conn.tran /\ told = "nothing"
      /\ conn.sbuff = <<>>
  BY DEF Init, Unborn, NewConn
<1>2. HandleTypes
  <2>1. svc \in [server : BOOLEAN, sess : BOOLEAN, trans : BOOLEAN]
    BY DEF Init
  <2>2. conn \in ConnType
    <3>1. <<>> \in Seq(Cmds) /\ 0 \in 0 .. MaxSess
      BY EmptySeq, BoundsAssumption
    <3>2. conn = [at |-> "none", sock |-> 0, tran |-> FALSE, sbuff |-> <<>>, behind |-> FALSE]
      BY DEF Init, NewConn
    <3> QED
      BY <3>1, <3>2 DEF ConnType
  <2> QED
    BY <2>1, <2>2 DEF Init, HandleTypes
<1>3. SessTypes
  <2>1. sess \in [Sess -> SessionType]
    BY DEF Init, Unborn, SessionType
  <2> QED
    BY <1>1, <2>1 DEF SessTypes
<1>4. CountTypes
  BY BoundsAssumption DEF Init, CountTypes
<1>5. TypeOK
  BY <1>2, <1>3, <1>4, BoundsAssumption DEF Init, TypeOK
<1>6. NoHiddenWork /\ CommitTakesAll /\ RollbackTakesAll
  BY <1>1 DEF Init, NoHiddenWork, CommitTakesAll, RollbackTakesAll, Attached
<1>7. WorkOwned /\ RunsKnown /\ NothingWaits /\ NothingForgotten
  BY <1>1 DEF WorkOwned, RunsKnown, NothingWaits, NothingForgotten, Up
<1>8. LateUnknown
  <2>1. \A x : ~In(x, <<>>)
    BY EmptySeq DEF In
  <2> QED
    BY <1>1, <2>1 DEF LateUnknown
<1>9. Apart
  BY <1>1 DEF Init, Apart
<1> QED
  BY <1>5, <1>6, <1>7, <1>8, <1>9 DEF SessionInv

(* An exchange that succeeds: starting a transaction, committing it, or    *)
(* rolling it back, under a known transaction or a new one.                *)
LEMMA SucceedsStep ==
  ASSUME SessionInv, NEW cmd \in {OFF, COMMIT, ROLLBACK}, Succeeds(cmd),
         HandleTypes', mine' \subseteq mine, UNCHANGED <<ran, by>>,
         undone' = IF cmd = ROLLBACK THEN undone \union sess[conn.sock].work ELSE undone,
         told' = "committed" => cmd = COMMIT, told' = "rolled back" => cmd = ROLLBACK
  PROVE  SessionInv'
<1> DEFINE c == conn.sock
           a == AfterRun(sess[c], cmd)
<1>1. /\ c \in Sess /\ sess[c].is = "up" /\ c # 0 /\ conn'.at = conn.at /\ conn'.sock = c
      /\ conn'.sbuff = conn.sbuff /\ conn'.behind = conn.behind /\ ~conn.behind
      /\ \A w \in sess[c].work : by[w] = c /\ w \notin durable
      /\ sess[c] \in SessionType /\ sess \in [Sess -> SessionType] /\ cmd \in Cmds
  <2>1. /\ c \in Sess /\ sess[c].is = "up" /\ conn'.at = conn.at /\ conn'.sock = c
        /\ conn'.sbuff = conn.sbuff /\ conn'.behind = conn.behind /\ ~conn.behind
    BY DEF HandleTypes, ConnType, Succeeds, InStep, Up, SessionInv, TypeOK
  <2>4. \A w \in sess[c].work : by[w] = c /\ w \notin durable
    BY <2>1 DEF SessionInv, NothingWaits, WorkOwned, Apart, Up
  <2>2. sess \in [Sess -> SessionType]
    BY DEF SessionInv, TypeOK, SessTypes
  <2>3. cmd \in Cmds
    BY CmdsDistinct
  <2> QED
    BY <2>1, <2>2, <2>3, <2>4, SessFacts
<1>2. /\ a \in SessionType /\ a.is = "up" /\ a.late = sess[c].late
      /\ a.work = IF cmd = OFF THEN sess[c].work ELSE {}
      /\ durable' = IF cmd = COMMIT THEN durable \union sess[c].work ELSE durable
  <2>1. a \in SessionType /\ a.is = "up" /\ a.late = sess[c].late
    BY <1>1, AfterRunShape
  <2>2. a.work = IF cmd = OFF THEN sess[c].work ELSE {}
    BY <1>1, AfterRunShape
  <2>3. MadeDurable(sess[c], cmd) = IF cmd = COMMIT THEN sess[c].work ELSE {}
    BY <1>1, AfterRunShape, CmdsDistinct
  <2> QED
    BY <2>1, <2>2, <2>3 DEF Succeeds
<1>3. sess' = [sess EXCEPT ![c] = a] /\ (a.work # {} => conn'.tran)
  BY <1>1 DEF Succeeds, SessionInv, TypeOK, HandleTypes, ConnType, TranStatus
<1>4. /\ sess' \in [Sess -> SessionType] /\ sess'[c] = a
      /\ \A i \in Sess : i # c => sess'[i] = sess[i]
  BY <1>1, <1>2, <1>3
<1>5. \A i \in Sess : /\ sess[i].work \subseteq Work /\ sess'[i].work \subseteq sess[i].work
                      /\ sess'[i].is = sess[i].is /\ sess'[i].late = sess[i].late
  BY <1>1, <1>2, <1>4 DEF SessionType
<1> HIDE DEF a
<1>6. TypeOK'
  <2>1. SessTypes'
    <3>1. sess' \in [Sess -> SessionType]
      BY <1>4
    <3>2. \A i \in Sess : sess'[i].is \in {"none", "gone"} => sess'[i].work = {}
      BY <1>5 DEF SessionInv, TypeOK, SessTypes
    <3>3. \A i \in Sess : sess'[i].late # <<>> => sess'[i].is \in {"up", "cut"}
      BY <1>5 DEF SessionInv, TypeOK, SessTypes
    <3> QED
      BY <3>1, <3>2, <3>3 DEF SessTypes
  <2>2. CountTypes'
    <3>1. sess[c].work \subseteq 1 .. ran
      BY <1>1, Numbers
    <3> QED
      BY <1>2, <3>1 DEF SessionInv, TypeOK, CountTypes, Succeeds
  <2>3. (mine' \union undone') \subseteq {w \in Work : by'[w] # 0}
    <3>1. (mine \union undone) \subseteq {w \in Work : by[w] # 0}
      BY DEF SessionInv, TypeOK
    <3>2. ASSUME NEW w \in sess[c].work
          PROVE  w \in Work /\ by[w] # 0
      BY <1>1, <1>5
    <3>3. mine' \union undone' \subseteq mine \union undone \union sess[c].work
      OBVIOUS
    <3> QED
      BY <3>1, <3>2, <3>3
  <2> QED
    BY <2>1, <2>2, <2>3 DEF SessionInv, TypeOK
<1>7. NoHiddenWork'
  BY <1>1, <1>3, <1>4 DEF SessionInv, NoHiddenWork, Up
<1>8. WorkOwned'
  BY <1>5 DEF SessionInv, WorkOwned
<1>9. RunsKnown'
  BY <1>5, SessFacts DEF SessionInv, RunsKnown, TypeOK
<1>10. LateUnknown' /\ NothingWaits'
  BY <1>1, <1>5 DEF SessionInv, LateUnknown, NothingWaits, Up
<1>11. NothingForgotten'
  BY <1>1, <1>2, <1>3, <1>4, ZenonT(60) DEF SessionInv, NothingForgotten, Settled, Up, Succeeds
<1>12. Apart'
  <2>2. undone' \intersect durable' = {}
    BY <1>1, <1>2, CmdsDistinct DEF SessionInv, Apart
  <2>3. ASSUME NEW i \in Sess
        PROVE  /\ sess'[i].work \intersect undone' = {}
               /\ \A w \in sess'[i].work : by[w] # 0 => w \notin durable'
    <3>1. CASE i = c
      BY <1>1, <1>2, <1>4, <3>1, CmdsDistinct DEF SessionInv, Apart
    <3>2. CASE i # c
      <4>1. sess[i].work \intersect sess[c].work = {}
        BY <1>1, <3>2 DEF SessionInv, WorkOwned
      <4> QED
        BY <1>2, <1>4, <3>2, <4>1 DEF SessionInv, Apart
    <3> QED
      BY <3>1, <3>2
  <2> QED
    BY <2>2, <2>3 DEF Apart
<1>13. CommitTakesAll'
  BY <1>1, <1>2, CmdsDistinct, ZenonT(40)
     DEF SessionInv, CommitTakesAll, NothingForgotten, Settled, Up, Succeeds
<1>14. RollbackTakesAll'
  BY <1>1, <1>2, <1>4, <1>12, CmdsDistinct DEF RollbackTakesAll, Apart
<1> QED
  BY <1>6, <1>7, <1>8, <1>9, <1>10, <1>11, <1>12, <1>13, <1>14 DEF SessionInv

(* What may become of a session in a step that settles no work: it is cut  *)
(* off, or requests join what waits there, none of them known to succeed.  *)
Held(i) ==
  /\ sess'[i].work = sess[i].work
  /\ sess'[i].is = sess[i].is \/ (sess[i].is = "up" /\ sess'[i].is = "cut")
  /\ sess'[i].late # <<>> => sess'[i].is \in {"up", "cut"}
  /\ \A w \in Work : In(DML(w), sess'[i].late) => w <= ran' /\ by[w] = 0
Empty(s) == s.is \in {"up", "gone"} /\ s.work = {} /\ s.late = <<>>

SameConn ==
  /\ conn'.sock = conn.sock
  /\ ~conn'.behind => /\ ~conn.behind /\ conn'.tran = conn.tran
                      /\ Up(conn.sock)' => sess'[conn.sock].late = <<>>
  /\ conn'.at = "set" => conn.at = "set"
  /\ svc'.server => svc.server \/ conn.at # "set"
FreshConn == conn'.sock = 0 \/ (conn'.sock \in Sess /\ sess[conn'.sock].is = "none")
SbuffUnknown == \A w \in Work : In(DML(w), conn'.sbuff) => w <= ran' /\ by[w] = 0

(* A step that settles no work: sessions begin, end or are cut off, and    *)
(* the connection is as it was or looks at a session nobody used before.   *)
LEMMA QuietStep ==
  ASSUME SessionInv, HandleTypes', CountTypes', sess' \in [Sess -> SessionType],
         ran <= ran', mine' \subseteq mine, UNCHANGED <<durable, by, undone, dropped>>,
         \A i \in Sess : \/ Held(i)
                         \/ sess[i].is = "none" /\ Empty(sess'[i])
                         \/ sess'[i].is = "gone" /\ Empty(sess'[i]),
         SbuffUnknown,
         \/ FreshConn /\ (told' \in {"ok", "error"} \/ conn'.sock = 0)
         \/ SameConn /\ (told' \in {told, "ok", "error"} \/ conn'.behind)
  PROVE  SessionInv'
<1>1. \A i \in Sess : sess'[i].work \subseteq sess[i].work /\ sess[i].work \subseteq Work
  BY Numbers DEF Held, Empty
<1>2. \A i \in Sess :
        /\ sess'[i].is = "up" => \/ sess'[i].work = sess[i].work /\ sess[i].is = "up"
                                 \/ sess[i].is = "none" /\ Empty(sess'[i])
        /\ sess[i].is # "none" => sess'[i].is # "none"
  BY DEF Held, Empty
<1>3. TypeOK'
  <2>1. SessTypes'
    <3>1. sess' \in [Sess -> SessionType]
      OBVIOUS
    <3>2. \A i \in Sess : sess'[i].is \in {"none", "gone"} => sess'[i].work = {}
      BY DEF SessionInv, TypeOK, SessTypes, Held, Empty
    <3>3. \A i \in Sess : sess'[i].late # <<>> => sess'[i].is \in {"up", "cut"}
      BY DEF SessionInv, TypeOK, SessTypes, Held, Empty
    <3> QED
      BY <3>1, <3>2, <3>3 DEF SessTypes
  <2> QED
    BY <2>1 DEF SessionInv, TypeOK
<1>4. ran \in Nat /\ ran' \in Nat
  BY Numbers, BoundsAssumption DEF CountTypes
<1>5. WorkOwned'
  <2> SUFFICES ASSUME NEW i \in Sess, NEW w \in sess'[i].work
               PROVE  w <= ran' /\ (by[w] = i \/ by[w] = 0)
    BY DEF WorkOwned
  <2>1. w <= ran /\ (by[w] = i \/ by[w] = 0) /\ w \in Nat
    BY <1>1 DEF SessionInv, WorkOwned, Work
  <2> QED
    BY <1>4, <2>1
<1>6. RunsKnown'
  <2> SUFFICES ASSUME NEW w \in Work, by[w] # 0
               PROVE  w <= ran' /\ sess'[by[w]].is # "none"
    BY DEF RunsKnown
  <2>1. w <= ran /\ sess[by[w]].is # "none" /\ by[w] \in Sess /\ w \in Nat
    BY SessFacts DEF SessionInv, RunsKnown, TypeOK, Work
  <2> QED
    BY <1>2, <1>4, <2>1
<1>7. LateUnknown'
  <2> SUFFICES ASSUME NEW i \in Sess, NEW w \in Work, In(DML(w), sess'[i].late)
               PROVE  w <= ran' /\ by[w] = 0
    BY DEF LateUnknown, SbuffUnknown
  <2>1. CASE Held(i)
    BY <2>1 DEF Held
  <2>2. CASE Empty(sess'[i])
    BY <2>2, EmptySeq DEF In, Empty
  <2> QED
    BY <2>1, <2>2
<1>8. NothingForgotten'
  <2> SUFFICES ASSUME NEW w \in Work, by[w] # 0, by[w] = conn'.sock, ~conn'.behind
               PROVE  /\ Up(conn.sock)' => Settled(w)' \/ w \in sess'[conn'.sock].work
                      /\ conn'.at = "set" /\ ~conn'.tran => Settled(w)'
    BY DEF NothingForgotten
  <2>1. Settled(w)' <=> Settled(w)
    BY DEF Settled
  <2>2. by[w] \in Sess /\ sess[by[w]].is # "none"
    BY SessFacts DEF SessionInv, RunsKnown, TypeOK
  <2>3. SameConn
    BY <2>2 DEF FreshConn
  <2>4. Up(conn.sock)' => Up(conn.sock) /\ sess'[conn.sock].work = sess[conn.sock].work
    BY <1>2, <2>2, <2>3 DEF Up, SameConn
  <2> QED
    BY <2>1, <2>3, <2>4 DEF SessionInv, NothingForgotten, SameConn
<1>9. Apart'
  BY <1>1 DEF SessionInv, Apart
<1>10. ASSUME Up(conn.sock)', ~conn'.behind, ~Empty(sess'[conn'.sock])
       PROVE  SameConn /\ Up(conn.sock) /\ sess'[conn.sock].work = sess[conn.sock].work
  <2>1. conn'.sock \in Sess /\ sess[conn'.sock].is = "up"
        /\ sess'[conn'.sock].work = sess[conn'.sock].work
    BY <1>2, <1>10 DEF Up
  <2>2. SameConn
    BY <2>1, SessFacts DEF FreshConn
  <2> QED
    BY <2>1, <2>2 DEF SameConn, Up
<1>11. NoHiddenWork' /\ NothingWaits'
  <2>1. CASE Up(conn.sock)' /\ ~conn'.behind /\ ~Empty(sess'[conn'.sock])
    BY <1>10, <2>1 DEF SessionInv, NoHiddenWork, NothingWaits, Up, Attached, SameConn
  <2>2. CASE Empty(sess'[conn'.sock])
    BY <2>2 DEF NoHiddenWork, NothingWaits, Empty
  <2> QED
    BY <2>1, <2>2 DEF NoHiddenWork, NothingWaits
<1>12. CommitTakesAll'
  BY SessFacts DEF SessionInv, CommitTakesAll, RunsKnown, SameConn, FreshConn
<1>13. RollbackTakesAll'
  <2> SUFFICES ASSUME told' = "rolled back", Up(conn.sock)', ~conn'.behind
               PROVE  sess'[conn'.sock].work = {}
    BY <1>9 DEF RollbackTakesAll, Apart
  <2>1. conn'.sock # 0
    BY SessFacts DEF Up
  <2> QED
    BY <1>10, <2>1 DEF SessionInv, RollbackTakesAll, SameConn, Empty, Up
<1> QED
  BY <1>3, <1>5, <1>6, <1>7, <1>8, <1>9, <1>11, <1>12, <1>13 DEF SessionInv

(* The server answers with an error, and may take the transaction back.   *)
LEMMA FailsStep ==
  ASSUME SessionInv, Fails, HandleTypes', CountTypes', ran <= ran', mine' \subseteq mine,
         told' \in {"ok", "error"}, UNCHANGED <<by, undone>>, svc'.server => svc.server
  PROVE  SessionInv'
<1> DEFINE c == conn.sock
           s == [sess[c] EXCEPT !.work = {}]
<1>1. sess \in [Sess -> SessionType]
  BY DEF SessionInv, TypeOK, SessTypes, SessionType
<1>4. ran \in Nat /\ ran' \in Nat /\ SbuffUnknown
  <2>1. ran \in Nat /\ ran' \in Nat
    BY Numbers, BoundsAssumption DEF CountTypes
  <2> QED
    BY <2>1 DEF Fails, SessionInv, LateUnknown, SbuffUnknown, Work
<1>5. Up(conn.sock) /\ ~conn.behind /\ sess[conn.sock].late = <<>> /\ UNCHANGED <<conn, durable>>
  BY DEF Fails, InStep, SessionInv, NothingWaits
<1>2. CASE UNCHANGED <<sess, dropped>>
  <2>1. SameConn
    BY <1>2, <1>5 DEF SameConn
  <2>2. \A i \in Sess : Held(i)
    BY <1>2, <1>4 DEF Held, SessionInv, LateUnknown, TypeOK, SessTypes, Work
  <2> QED
    BY <1>1, <1>2, <1>4, <1>5, <2>1, <2>2, QuietStep
<1>3. CASE sess' = [sess EXCEPT ![c].work = {}] /\ dropped' = dropped \union sess[c].work
  <2>1. c \in Sess /\ sess[c].is = "up" /\ UNCHANGED <<conn, durable>>
    BY <1>5 DEF Up
  <2>2. s \in SessionType /\ s.is = "up" /\ s.late = sess[c].late /\ s.work = {}
    BY <1>1, <2>1 DEF SessionType
  <2>3. sess' = [sess EXCEPT ![c] = s]
    BY <1>3
  <2>4. /\ sess' \in [Sess -> SessionType] /\ sess'[c] = s
        /\ \A i \in Sess : i # c => sess'[i] = sess[i]
    BY <1>1, <2>1, <2>2, <2>3
  <2> HIDE DEF s
  <2>5. \A i \in Sess : /\ sess'[i].work \subseteq sess[i].work
                        /\ sess'[i].is = sess[i].is /\ sess'[i].late = sess[i].late
    BY <2>1, <2>2, <2>4
  <2>6. ran \in Nat /\ ran' \in Nat /\ \A i \in Sess : sess[i].work \subseteq Nat
    BY Numbers, BoundsAssumption DEF CountTypes, Work
  <2>7. TypeOK'
    <3>1. SessTypes'
      <4>1. sess' \in [Sess -> SessionType]
        BY <2>4
      <4>2. \A i \in Sess : sess'[i].is \in {"none", "gone"} => sess'[i].work = {}
        BY <2>5 DEF SessionInv, TypeOK, SessTypes
      <4>3. \A i \in Sess : sess'[i].late # <<>> => sess'[i].is \in {"up", "cut"}
        BY <2>5 DEF SessionInv, TypeOK, SessTypes
      <4> QED
        BY <4>1, <4>2, <4>3 DEF SessTypes
    <3> QED
      BY <3>1 DEF SessionInv, TypeOK
  <2>8. NoHiddenWork'
    BY <2>1, <2>2, <2>4 DEF SessionInv, NoHiddenWork, Up
  <2>9. WorkOwned'
    <3> SUFFICES ASSUME NEW i \in Sess, NEW w \in sess'[i].work
                 PROVE  w <= ran' /\ (by[w] = i \/ by[w] = 0)
      BY DEF WorkOwned
    <3>1. w \in sess[i].work /\ w \in Nat
      BY <2>5, <2>6
    <3> QED
      BY <2>5, <2>6, <3>1 DEF SessionInv, WorkOwned
  <2>10. RunsKnown' /\ LateUnknown' /\ NothingWaits'
    <3>1. ASSUME NEW w \in Work, by[w] # 0
          PROVE  w <= ran' /\ sess'[by[w]].is # "none"
      <4>1. by[w] \in Sess /\ w \in Nat
        BY <3>1, SessFacts DEF SessionInv, TypeOK, Work
      <4> QED
        BY <2>5, <2>6, <3>1, <4>1 DEF SessionInv, RunsKnown
    <3>2. ASSUME NEW i \in Sess, NEW w \in Work, In(DML(w), sess'[i].late)
          PROVE  w <= ran' /\ by[w] = 0
      BY <2>5, <2>6, <3>2 DEF SessionInv, LateUnknown, Work
    <3>3. NothingWaits'
      BY <2>1, <2>4, <2>2 DEF SessionInv, NothingWaits, Up
    <3> QED
      BY <1>4, <3>1, <3>2, <3>3 DEF RunsKnown, LateUnknown, SbuffUnknown
  <2>11. NothingForgotten'
    BY <1>3, <2>1, <2>4, <2>5 DEF SessionInv, NothingForgotten, Settled, Up
  <2>12. Apart'
    BY <2>1, <2>5 DEF SessionInv, Apart
  <2>13. CommitTakesAll' /\ RollbackTakesAll'
    BY <2>12 DEF CommitTakesAll, RollbackTakesAll, Apart
  <2> QED
    BY <2>7, <2>8, <2>9, <2>10, <2>11, <2>12, <2>13 DEF SessionInv
<1> QED
  BY <1>2, <1>3 DEF Fails

(* A changing statement succeeds: its number is new, its session known.   *)
LEMMA RunStep ==
  ASSUME SessionInv, ran < MaxWork, Succeeds(DML(ran + 1)), HandleTypes', ran' = ran + 1,
         by' = [by EXCEPT ![ran + 1] = conn.sock], mine' = mine \union {ran + 1},
         UNCHANGED undone, told' = "ok"
  PROVE  SessionInv'
<1> DEFINE c == conn.sock
           n == ran + 1
           a == AfterRun(sess[c], DML(n))
<1>1. /\ c \in Sess /\ sess[c].is = "up" /\ c # 0 /\ conn'.at = conn.at /\ conn'.sock = c
      /\ sess[c] \in SessionType /\ sess \in [Sess -> SessionType]
      /\ conn'.sbuff = conn.sbuff /\ conn'.behind = conn.behind /\ ~conn.behind
  <2>1. /\ conn'.at = conn.at /\ conn'.sock = c /\ ~conn.behind
        /\ conn'.sbuff = conn.sbuff /\ conn'.behind = conn.behind
    BY DEF SessionInv, TypeOK, HandleTypes, ConnType, Succeeds, InStep
  <2> QED
    BY <2>1, SessFacts DEF SessionInv, TypeOK, SessTypes, SessionType, Succeeds, Up
<1>2. ran \in Nat /\ n \in Work /\ n \in Nat /\ n > ran
  BY Numbers, BoundsAssumption DEF Work
<1>3. /\ by[n] = 0 /\ n \notin durable /\ n \notin undone
      /\ \A i \in Sess : n \notin sess[i].work
  <2>1. by[n] = 0
    BY <1>2 DEF SessionInv, RunsKnown
  <2>2. n \notin durable
    BY <1>2 DEF SessionInv, TypeOK, CountTypes
  <2>3. \A i \in Sess : n \notin sess[i].work
    BY <1>2 DEF SessionInv, WorkOwned
  <2> QED
    BY <2>1, <2>2, <2>3 DEF SessionInv, TypeOK
<1>4. /\ by' \in [Work -> 0 .. MaxSess] /\ by'[n] = c
      /\ \A w \in Work : w # n => by'[w] = by[w]
  BY <1>1, <1>2, SessFacts DEF SessionInv, TypeOK
<1>5. a \in SessionType /\ a.is = "up" /\ a.late = sess[c].late
  BY <1>1, <1>2, AfterRunShape, CmdsDistinct
<1>6. \/ a.work = sess[c].work /\ durable' = durable \union {n}
      \/ a.work = sess[c].work \union {n} /\ durable' = durable
  <2>1. \/ a.work = sess[c].work /\ MadeDurable(sess[c], DML(n)) = {n}
        \/ a.work = sess[c].work \union {n} /\ MadeDurable(sess[c], DML(n)) = {}
    BY <1>1, <1>2, AfterRunShape, CmdsDistinct, ZenonT(60)
  <2>2. durable' = durable \union MadeDurable(sess[c], DML(n))
    BY DEF Succeeds
  <2> QED
    BY <2>1, <2>2
<1>7. sess' = [sess EXCEPT ![c] = a] /\ (a.work # {} => conn'.tran) /\ UNCHANGED dropped
  BY <1>1 DEF Succeeds, SessionInv, TypeOK, HandleTypes, ConnType, TranStatus
<1> HIDE DEF a
<1>8. /\ sess' \in [Sess -> SessionType] /\ sess'[c] = a
      /\ \A i \in Sess : i # c => sess'[i] = sess[i]
  BY <1>1, <1>5, <1>7
<1>9. \A i \in Sess : sess'[i].is = sess[i].is /\ sess'[i].late = sess[i].late
  BY <1>1, <1>5, <1>8
<1>10. TypeOK'
  <2>1. SessTypes'
    <3>1. sess' \in [Sess -> SessionType]
      BY <1>8
    <3>2. \A i \in Sess : sess'[i].is \in {"none", "gone"} => sess'[i].work = {}
      BY <1>1, <1>8, <1>9 DEF SessionInv, TypeOK, SessTypes
    <3>3. \A i \in Sess : sess'[i].late # <<>> => sess'[i].is \in {"up", "cut"}
      BY <1>9 DEF SessionInv, TypeOK, SessTypes
    <3> QED
      BY <3>1, <3>2, <3>3 DEF SessTypes
  <2>2. CountTypes'
    <3>1. durable' \subseteq 1 .. ran + 1
      <4>1. durable \subseteq 1 .. ran
        BY DEF SessionInv, TypeOK, CountTypes
      <4>2. 1 .. ran \subseteq 1 .. ran + 1 /\ n \in 1 .. ran + 1
        BY <1>2
      <4> QED
        BY <1>6, <4>1, <4>2
    <3>2. ran + 1 \in 0 .. MaxWork
      BY <1>2, BoundsAssumption
    <3> QED
      BY <3>1, <3>2 DEF SessionInv, TypeOK, CountTypes, Succeeds
  <2>3. (mine' \union undone') \subseteq {w \in Work : by'[w] # 0}
    BY <1>1, <1>2, <1>3, <1>4 DEF SessionInv, TypeOK
  <2> QED
    BY <1>4, <2>1, <2>2, <2>3 DEF SessionInv, TypeOK
<1>11. NoHiddenWork'
  BY <1>1, <1>7, <1>8 DEF SessionInv, NoHiddenWork, Up
<1>12. \A i \in Sess : /\ sess[i].work \subseteq Work /\ sess[i].work \subseteq Nat
                       /\ \A w \in sess[i].work : w # n
  BY <1>3, Numbers, BoundsAssumption DEF Work
<1>13. WorkOwned'
  <2> SUFFICES ASSUME NEW i \in Sess, NEW w \in sess'[i].work
               PROVE  w <= n /\ (by'[w] = i \/ by'[w] = 0)
    BY DEF WorkOwned
  <2>1. CASE w \in sess[i].work
    <3>1. w <= ran /\ (by[w] = i \/ by[w] = 0) /\ w \in Nat
      BY <1>12, <2>1 DEF SessionInv, WorkOwned
    <3>2. w <= n
      BY <1>2, <3>1
    <3> QED
      BY <1>4, <1>9, <1>12, <2>1, <3>1, <3>2
  <2>2. CASE w \notin sess[i].work
    BY <1>2, <1>4, <1>6, <1>8, <2>2
  <2> QED
    BY <2>1, <2>2
<1>14. RunsKnown'
  <2> SUFFICES ASSUME NEW w \in Work, by'[w] # 0
               PROVE  w <= n /\ sess'[by'[w]].is # "none"
    BY DEF RunsKnown
  <2>1. CASE w = n
    BY <1>1, <1>2, <1>4, <1>9, <2>1
  <2>2. CASE w # n
    <3>1. by'[w] = by[w] /\ by[w] \in Sess /\ w <= ran /\ w \in Nat /\ sess[by[w]].is # "none"
      BY <1>4, <2>2, SessFacts DEF SessionInv, RunsKnown, TypeOK, Work
    <3> QED
      BY <1>2, <1>9, <3>1
  <2> QED
    BY <2>1, <2>2
<1>15. LateUnknown' /\ NothingWaits'
  <2>1. ASSUME NEW w \in Work, w <= ran, by[w] = 0
        PROVE  w <= n /\ by'[w] = 0
    BY <1>2, <1>4, <2>1 DEF Work
  <2>2. LateUnknown'
    BY <1>1, <1>9, <2>1 DEF SessionInv, LateUnknown
  <2>3. NothingWaits'
    BY <1>1, <1>4, <1>5, <1>6, <1>8, <1>12 DEF SessionInv, NothingWaits, Up
  <2> QED
    BY <2>2, <2>3
<1>16. NothingForgotten'
  <2> SUFFICES ASSUME NEW w \in Work, by'[w] # 0, by'[w] = conn'.sock
               PROVE  /\ Settled(w)' \/ w \in sess'[c].work
                      /\ ~conn'.tran => Settled(w)'
    BY <1>1 DEF NothingForgotten
  <2>1. CASE w = n
    BY <1>1, <1>4, <1>6, <1>7, <1>8, <2>1 DEF Settled
  <2>2. CASE w # n
    <3>1. by[w] = c /\ by[w] # 0 /\ (Settled(w) => Settled(w)')
      BY <1>1, <1>4, <1>6, <1>7, <2>2 DEF Settled
    <3>2. Settled(w)' \/ w \in sess'[c].work
      BY <1>1, <1>6, <1>8, <3>1 DEF SessionInv, NothingForgotten, Up
    <3> QED
      BY <1>7, <1>8, <3>2
  <2> QED
    BY <2>1, <2>2
<1>17. Apart'
  <2>1. undone' \intersect durable' = {}
    BY <1>3, <1>6 DEF SessionInv, Apart
  <2>2. ASSUME NEW i \in Sess
        PROVE  /\ sess'[i].work \intersect undone' = {}
               /\ \A w \in sess'[i].work : by'[w] # 0 => w \notin durable'
    <3>1. \A w \in sess[i].work : w # n /\ (by'[w] # 0 => w \notin durable')
      BY <1>4, <1>6, <1>12 DEF SessionInv, Apart
    <3>2. sess'[i].work = sess[i].work \/ (sess'[i].work = sess[i].work \union {n} /\ durable' = durable)
      BY <1>6, <1>8
    <3> QED
      BY <1>3, <3>1, <3>2 DEF SessionInv, Apart
  <2> QED
    BY <2>1, <2>2 DEF Apart
<1>18. CommitTakesAll' /\ RollbackTakesAll'
  BY <1>17 DEF CommitTakesAll, RollbackTakesAll, Apart
<1> QED
  BY <1>10, <1>11, <1>13, <1>14, <1>15, <1>16, <1>17, <1>18 DEF SessionInv

(* A session runs what waits there, or fails to: what it settles was never *)
(* taken back, and is not held by another; a driver that is not behind     *)
(* does not look at this session while it is open.                         *)
LateResult(i, s, D) ==
  /\ s.is = sess[i].is /\ s.late = Tail(sess[i].late)
  /\ \A w \in s.work \union D : w \in sess[i].work \/ (w \in Work /\ w <= ran /\ by[w] = 0)
  /\ \A w \in s.work : by[w] # 0 => w \notin D

(* What LateRun leaves of the session is such a result. *)
LEMMA LateRunShape ==
  ASSUME SessionInv, NEW i \in Sess, LateRun(i)
  PROVE  \E s \in SessionType, D \in SUBSET Work :
           /\ sess' = [sess EXCEPT ![i] = s] /\ durable' = durable \union D
           /\ dropped \subseteq dropped' /\ LateResult(i, s, D)
<1> DEFINE o == sess[i]
           t == [o EXCEPT !.late = Tail(@)]
           cmd == Head(o.late)
<1>1. /\ o \in SessionType /\ o.late \in Seq(Cmds) /\ o.late # <<>> /\ o.work \subseteq Work
  BY DEF LateRun, SessionInv, TypeOK, SessTypes, SessionType
<1>2. cmd \in Cmds /\ Tail(o.late) \in Seq(Cmds) /\ In(cmd, o.late)
  <2>1. \A p \in Seq(Cmds) : p # <<>> => Head(p) \in Cmds /\ Tail(p) \in Seq(Cmds) /\ In(Head(p), p)
    BY InFacts, CmdsDistinct
  <2> QED
    BY <1>1, <2>1
<1>3. t \in SessionType /\ t.is = o.is /\ t.late = Tail(o.late) /\ t.work = o.work
  BY <1>1, <1>2 DEF SessionType
<1>4. \/ sess' = [sess EXCEPT ![i] = AfterRun(t, cmd)] /\ durable' = durable \union MadeDurable(t, cmd)
         /\ UNCHANGED dropped
      \/ sess' = [sess EXCEPT ![i] = t] /\ UNCHANGED <<durable, dropped>>
      \/ /\ sess' = [sess EXCEPT ![i] = [t EXCEPT !.work = {}]]
         /\ dropped' = dropped \union t.work /\ UNCHANGED durable
  BY DEF LateRun
<1>5. \A w \in Work : cmd = DML(w) => w <= ran /\ by[w] = 0
  BY <1>2 DEF SessionInv, LateUnknown
<1> HIDE DEF o, t, cmd
<1>6. CASE sess' = [sess EXCEPT ![i] = AfterRun(t, cmd)] /\ durable' = durable \union MadeDurable(t, cmd)
           /\ UNCHANGED dropped
  <2> DEFINE a == AfterRun(t, cmd)
             D == MadeDurable(t, cmd)
  <2>1. a \in SessionType /\ a.is = t.is /\ a.late = t.late
    BY <1>2, <1>3, AfterRunShape
  <2>2. /\ D \subseteq Work
        /\ \A w \in a.work \union D : w \in t.work \/ (w \in Work /\ w <= ran /\ by[w] = 0)
        /\ \A w \in a.work : by[w] # 0 => w \notin D
    <3>1. CASE cmd \in {OFF, COMMIT, ROLLBACK}
      <4>1. \/ a.work = t.work /\ D = {}
            \/ a.work = {} /\ D \subseteq t.work
        BY <1>2, <1>3, <3>1, AfterRunShape
      <4> QED
        BY <1>1, <1>3, <4>1
    <3>2. ASSUME NEW w \in Work, cmd = DML(w)
          PROVE  /\ D \subseteq Work
                 /\ \A v \in a.work \union D : v \in t.work \/ (v \in Work /\ v <= ran /\ by[v] = 0)
                 /\ \A v \in a.work : by[v] # 0 => v \notin D
      <4>1. w <= ran /\ by[w] = 0
        BY <1>5, <3>2
      <4>2. \/ a.work = t.work /\ D = {w}
            \/ a.work = t.work \union {w} /\ D = {}
        BY <1>2, <1>3, <3>2, AfterRunShape, ZenonT(60)
      <4> QED
        BY <4>1, <4>2
    <3> QED
      BY <1>2, <3>1, <3>2, CmdsDistinct
  <2> HIDE DEF a, D
  <2>3. LateResult(i, a, D)
    BY <1>3, <2>1, <2>2 DEF LateResult, o
  <2> QED
    BY <1>6, <2>1, <2>2, <2>3 DEF a, D
<1>7. CASE sess' = [sess EXCEPT ![i] = t] /\ UNCHANGED <<durable, dropped>>
  <2>1. LateResult(i, t, {})
    BY <1>3 DEF LateResult, o
  <2> QED
    BY <1>3, <1>7, <2>1
<1>8. CASE /\ sess' = [sess EXCEPT ![i] = [t EXCEPT !.work = {}]]
           /\ dropped' = dropped \union t.work /\ UNCHANGED durable
  <2> DEFINE s == [t EXCEPT !.work = {}]
  <2>1. s \in SessionType /\ s.is = t.is /\ s.late = t.late /\ s.work = {}
    BY <1>3 DEF SessionType
  <2> HIDE DEF s
  <2>2. LateResult(i, s, {})
    BY <1>3, <2>1 DEF LateResult, o
  <2> QED
    BY <1>8, <2>1, <2>2 DEF s
<1> QED
  BY <1>4, <1>6, <1>7, <1>8

(* A session cut off, or ahead of its driver, runs or fails what waits. *)
LEMMA LateRunStep ==
  ASSUME SessionInv, NEW i \in Sess, LateRun(i)
  PROVE  SessionInv'
<1> PICK s \in SessionType, D \in SUBSET Work :
      /\ sess' = [sess EXCEPT ![i] = s] /\ durable' = durable \union D
      /\ dropped \subseteq dropped' /\ LateResult(i, s, D)
  BY LateRunShape
<1>1. /\ s.is = sess[i].is /\ s.late = Tail(sess[i].late)
      /\ \A w \in s.work \union D : w \in sess[i].work \/ (w \in Work /\ w <= ran /\ by[w] = 0)
      /\ \A w \in s.work : by[w] # 0 => w \notin D
  BY DEF LateResult
<1>2. /\ UNCHANGED <<svc, conn, fd0>> /\ UNCHANGED <<by, mine, undone, ran, breaks, misread, told>>
      /\ sess[i].late # <<>>
  BY DEF LateRun, driver
<1>3. /\ sess' \in [Sess -> SessionType] /\ sess'[i] = s
      /\ \A j \in Sess : j # i => sess'[j] = sess[j]
  BY DEF SessionInv, TypeOK, SessTypes, SessionType
<1>4. \A j \in Sess : sess'[j].is = sess[j].is
  BY <1>1, <1>3
<1>5. \A x : In(x, s.late) => In(x, sess[i].late)
  <2>1. \A p \in Seq(Cmds) : p # <<>> => \A x : In(x, Tail(p)) => In(x, p)
    BY InFacts, CmdsDistinct
  <2>2. sess[i].late \in Seq(Cmds)
    BY DEF SessionInv, TypeOK, SessTypes, SessionType
  <2> QED
    BY <1>1, <1>2, <2>1, <2>2
<1>6. D \subseteq 1 .. ran
  BY <1>1, Numbers, BoundsAssumption DEF Work
<1>7. D \intersect undone = {} /\ s.work \intersect undone = {}
  <2>1. sess[i].work \intersect undone = {} /\ \A w \in Work : by[w] = 0 => w \notin undone
    BY DEF SessionInv, Apart, TypeOK
  <2> QED
    BY <1>1, <2>1
<1>8. Up(conn.sock) /\ ~conn.behind => conn.sock # i
  BY <1>2 DEF SessionInv, NothingWaits
<1>9. Up(conn.sock)' <=> Up(conn.sock)
  BY <1>2, <1>4 DEF Up
<1>10. TypeOK'
  <2>1. SessTypes'
    <3>1. sess' \in [Sess -> SessionType]
      BY <1>3
    <3>2. sess[i].is \in {"up", "cut"}
      BY <1>2 DEF SessionInv, TypeOK, SessTypes
    <3>3. \A j \in Sess : sess'[j].is \in {"none", "gone"} => sess'[j].work = {}
      BY <1>3, <1>4, <3>2 DEF SessionInv, TypeOK, SessTypes
    <3>4. \A j \in Sess : sess'[j].late # <<>> => sess'[j].is \in {"up", "cut"}
      BY <1>3, <1>4, <3>2 DEF SessionInv, TypeOK, SessTypes
    <3> QED
      BY <3>1, <3>3, <3>4 DEF SessTypes
  <2>2. HandleTypes'
    BY <1>2 DEF SessionInv, TypeOK, HandleTypes
  <2>3. CountTypes'
    BY <1>2, <1>6 DEF SessionInv, TypeOK, CountTypes
  <2> QED
    BY <1>2, <2>1, <2>2, <2>3 DEF SessionInv, TypeOK
<1>11. NoHiddenWork' /\ NothingWaits'
  <2>1. Up(conn.sock) /\ ~conn.behind => sess'[conn.sock] = sess[conn.sock]
    BY <1>3, <1>8 DEF Up
  <2> QED
    BY <1>2, <1>9, <2>1 DEF SessionInv, NoHiddenWork, NothingWaits, Attached
<1>12. WorkOwned'
  BY <1>1, <1>2, <1>3, ZenonT(60) DEF SessionInv, WorkOwned
<1>13. RunsKnown'
  BY <1>2, <1>4, SessFacts DEF SessionInv, RunsKnown, TypeOK
<1>14. LateUnknown'
  BY <1>2, <1>3, <1>5 DEF SessionInv, LateUnknown
<1>15. NothingForgotten'
  <2>1. \A w \in Work : Settled(w) => Settled(w)'
    BY <1>2 DEF Settled
  <2>2. Up(conn.sock) /\ ~conn.behind => sess'[conn.sock] = sess[conn.sock]
    BY <1>3, <1>8 DEF Up
  <2> QED
    BY <1>2, <1>9, <2>1, <2>2 DEF SessionInv, NothingForgotten
<1>16. Apart'
  <2>1. undone' \intersect durable' = {}
    BY <1>2, <1>7 DEF SessionInv, Apart
  <2>2. ASSUME NEW j \in Sess
        PROVE  sess'[j].work \intersect undone' = {}
    BY <1>2, <1>3, <1>7 DEF SessionInv, Apart
  <2>3. ASSUME NEW j \in Sess, NEW w \in sess'[j].work, by[w] # 0
        PROVE  w \notin durable'
    <3>1. CASE j = i
      BY <1>1, <1>3, <2>3, <3>1 DEF SessionInv, Apart
    <3>2. CASE j # i
      <4>1. w \in sess[j].work /\ by[w] = j /\ w \notin durable
        BY <1>3, <2>3, <3>2 DEF SessionInv, WorkOwned, Apart
      <4>2. w \notin sess[i].work
        BY <2>3, <3>2, <4>1 DEF SessionInv, WorkOwned
      <4> QED
        BY <1>1, <2>3, <4>1, <4>2
    <3> QED
      BY <3>1, <3>2
  <2> QED
    BY <1>2, <2>1, <2>2, <2>3 DEF Apart
<1>17. CommitTakesAll'
  BY <1>2 DEF SessionInv, CommitTakesAll
<1>18. RollbackTakesAll'
  <2>1. Up(conn.sock) /\ ~conn.behind => sess'[conn.sock] = sess[conn.sock]
    BY <1>3, <1>8 DEF Up
  <2> QED
    BY <1>2, <1>9, <1>16, <2>1 DEF SessionInv, RollbackTakesAll, Apart
<1> QED
  BY <1>10, <1>11, <1>12, <1>13, <1>14, <1>15, <1>16, <1>17, <1>18 DEF SessionInv

(* A session that has ended, one that has begun, and a PhyConn zeroed. *)
LEMMA GoneShape ==
  /\ Gone \in SessionType /\ Empty(Gone) /\ Gone.is = "gone"
  /\ LoggedIn \in SessionType /\ Empty(LoggedIn)
<1>1. <<>> \in Seq(Cmds)
  BY EmptySeq
<1>2. Unborn \in SessionType /\ Unborn.work = {} /\ Unborn.late = <<>>
  BY <1>1 DEF Unborn, SessionType
<1> QED
  BY <1>2 DEF Gone, LoggedIn, Empty, SessionType

(* A PhyConn as KCIServerAttach makes it, and as Detach leaves it. *)
LEMMA NewConnShape ==
  /\ NewConn \in ConnType /\ NewConn.sock = 0 /\ NewConn.sbuff = <<>> /\ NewConn.at = "set"
  /\ [NewConn EXCEPT !.at = "freed"] \in ConnType
  /\ [NewConn EXCEPT !.at = "freed"].sock = 0 /\ [NewConn EXCEPT !.at = "freed"].sbuff = <<>>
  /\ [NewConn EXCEPT !.at = "freed"].at = "freed"
<1>1. <<>> \in Seq(Cmds) /\ 0 \in 0 .. MaxSess
  BY EmptySeq, BoundsAssumption
<1>2. NewConn \in ConnType /\ NewConn.sock = 0 /\ NewConn.sbuff = <<>> /\ NewConn.at = "set"
  BY <1>1 DEF NewConn, ConnType
<1> QED
  BY <1>2 DEF ConnType

(* Detach takes a known transaction back, and the session ends.           *)
LEMMA TakenBackStep ==
  ASSUME SessionInv, Up(conn.sock), conn'.at = "freed", conn'.sock = 0, conn'.sbuff = <<>>,
         HandleTypes', ~conn.behind, sess' = [sess EXCEPT ![conn.sock] = Gone],
         undone' = undone \union sess[conn.sock].work, mine' = {}, told' = "ok",
         UNCHANGED <<durable, by, dropped, ran, breaks, misread>>
  PROVE  SessionInv'
<1> DEFINE c == conn.sock
<1>1. /\ c \in Sess /\ sess[c].is = "up" /\ sess \in [Sess -> SessionType]
      /\ ~Up(conn.sock)'
  BY SessFacts DEF Up, SessionInv, TypeOK, HandleTypes, SessTypes, SessionType
<1>2. Gone \in SessionType /\ Empty(Gone) /\ Gone.is = "gone"
  BY GoneShape
<1>3. /\ sess' \in [Sess -> SessionType] /\ sess'[c] = Gone
      /\ \A i \in Sess : i # c => sess'[i] = sess[i]
  BY <1>1, <1>2
<1>4. \A w \in sess[c].work : w \in Work /\ by[w] = c /\ by[w] # 0 /\ w \notin durable
  BY <1>1, Numbers, SessFacts DEF SessionInv, WorkOwned, Apart, NothingWaits
<1>5. TypeOK'
  <2>1. SessTypes'
    <3>1. sess' \in [Sess -> SessionType]
      BY <1>3
    <3>2. \A i \in Sess : sess'[i].is \in {"none", "gone"} => sess'[i].work = {}
      BY <1>2, <1>3 DEF SessionInv, TypeOK, SessTypes, Empty
    <3>3. \A i \in Sess : sess'[i].late # <<>> => sess'[i].is \in {"up", "cut"}
      BY <1>2, <1>3 DEF SessionInv, TypeOK, SessTypes, Empty
    <3> QED
      BY <3>1, <3>2, <3>3 DEF SessTypes
  <2>2. CountTypes'
    BY DEF SessionInv, TypeOK, CountTypes
  <2> QED
    BY <1>4, <2>1, <2>2 DEF SessionInv, TypeOK
<1>6. NoHiddenWork' /\ NothingWaits'
  BY <1>1 DEF NoHiddenWork, NothingWaits
<1>7. WorkOwned'
  BY <1>2, <1>3, ZenonT(60) DEF SessionInv, WorkOwned, Empty
<1>8. RunsKnown'
  BY <1>2, <1>3, SessFacts DEF SessionInv, RunsKnown, TypeOK, Empty
<1>9. LateUnknown'
  <2>1. \A x : ~In(x, <<>>)
    BY EmptySeq DEF In
  <2> QED
    BY <1>2, <1>3, <2>1 DEF SessionInv, LateUnknown, Empty
<1>10. NothingForgotten'
  BY <1>1 DEF NothingForgotten
<1>11. Apart'
  <2>1. undone' \intersect durable' = {}
    BY <1>4 DEF SessionInv, Apart
  <2>2. ASSUME NEW i \in Sess
        PROVE  /\ sess'[i].work \intersect undone' = {}
               /\ \A w \in sess'[i].work : by[w] # 0 => w \notin durable'
    <3>1. CASE i = c
      BY <1>2, <1>3, <3>1 DEF Empty
    <3>2. CASE i # c
      <4>1. sess[i].work \intersect sess[c].work = {}
        BY <1>4, <3>2 DEF SessionInv, WorkOwned
      <4> QED
        BY <1>3, <3>2, <4>1 DEF SessionInv, Apart
    <3> QED
      BY <3>1, <3>2
  <2> QED
    BY <2>1, <2>2 DEF Apart
<1>12. CommitTakesAll' /\ RollbackTakesAll'
  BY <1>11 DEF CommitTakesAll, RollbackTakesAll, Apart
<1> QED
  BY <1>5, <1>6, <1>7, <1>8, <1>9, <1>10, <1>11, <1>12 DEF SessionInv

(* The parts of the invariant that every action needs. *)
LEMMA Types ==
  ASSUME SessionInv
  PROVE  /\ sess \in [Sess -> SessionType]
         /\ HandleTypes /\ CountTypes /\ ran <= ran /\ mine \subseteq mine
         /\ conn \in ConnType /\ conn.sbuff \in Seq(Cmds) /\ conn.sock \in 0 .. MaxSess
         /\ conn.sock # 0 => conn.sock \in Sess
         /\ \A i \in Sess : sess[i].late \in Seq(Cmds) /\ sess[i] \in SessionType
BY Numbers, SessFacts DEF SessionInv, TypeOK, SessTypes, SessionType, HandleTypes, ConnType

(* A request that may be sent, or wait: if it is a changing statement, its *)
(* number is used in this step at the latest, and it has not succeeded.    *)
Fresh(cmd) == cmd \in Cmds /\ \A w \in Work : cmd = DML(w) => w <= ran' /\ by[w] = 0
Unknown(q) == \A w \in Work : In(DML(w), q) => w <= ran' /\ by[w] = 0

(* The commands of a transaction are fresh, and so is the next statement.  *)
LEMMA FreshCmds ==
  /\ \A cmd \in {OFF, COMMIT, ROLLBACK} : Fresh(cmd)
  /\ SessionInv /\ ran < MaxWork /\ ran' = ran + 1 => Fresh(DML(ran + 1))
<1>1. \A cmd \in {OFF, COMMIT, ROLLBACK} : Fresh(cmd)
  BY CmdsDistinct DEF Fresh
<1>2. ASSUME SessionInv, ran < MaxWork, ran' = ran + 1
      PROVE  Fresh(DML(ran + 1))
  <2>1. /\ ran + 1 \in Work /\ ran + 1 \in Nat /\ ran \in Nat /\ by[ran + 1] = 0
        /\ ran + 1 <= ran'
    BY <1>2, Numbers, BoundsAssumption DEF Work, SessionInv, RunsKnown
  <2>2. \A w \in Work : DML(ran + 1) = DML(w) => w = ran + 1
    BY <2>1, CmdsDistinct
  <2> QED
    BY <2>1, <2>2, CmdsDistinct DEF Fresh
<1> QED
  BY <1>1, <1>2

(* What an exchange leaves in sbuff, and what it puts in a session. *)
LEMMA QueueFacts ==
  ASSUME SessionInv, ran' \in Nat, ran <= ran', NEW cmd, Fresh(cmd)
  PROVE  /\ <<>> \in Seq(Cmds) /\ Unknown(<<>>) /\ Unknown(conn.sbuff)
         /\ AllOf(cmd) \in Seq(Cmds) /\ Unknown(AllOf(cmd))
         /\ \A kept \in KeptOf(cmd) : kept \in Seq(Cmds) /\ Unknown(kept)
         /\ \A i \in Sess :
              /\ Unknown(sess[i].late)
              /\ sess[i].late \o AllOf(cmd) \in Seq(Cmds) /\ Unknown(sess[i].late \o AllOf(cmd))
              /\ \A kept \in KeptOf(cmd) :
                   /\ sess[i].late \o Arrived(cmd, kept) \in Seq(Cmds)
                   /\ Unknown(sess[i].late \o Arrived(cmd, kept))
<1>1. /\ \A p \in Seq(Cmds), q \in Seq(Cmds) :
           p \o q \in Seq(Cmds) /\ \A x : In(x, p \o q) => In(x, p) \/ In(x, q)
      /\ \A p \in Seq(Cmds) :
           Append(p, cmd) \in Seq(Cmds) /\ \A x : In(x, Append(p, cmd)) => In(x, p) \/ x = cmd
  BY InFacts DEF Fresh
<1>2. <<>> \in Seq(Cmds) /\ Unknown(<<>>)
  BY EmptySeq DEF Unknown, In
<1>3. ran \in Nat /\ \A w \in Work : w <= ran => w <= ran'
  BY Numbers DEF Work
<1>4. Unknown(conn.sbuff) /\ \A i \in Sess : Unknown(sess[i].late)
  BY <1>3 DEF SessionInv, LateUnknown, Unknown
<1>5. AllOf(cmd) \in Seq(Cmds) /\ Unknown(AllOf(cmd))
  BY <1>1, <1>4, Types DEF AllOf, Unknown, Fresh
<1>6. \A p \in Seq(Cmds), q \in Seq(Cmds) : Unknown(p) /\ Unknown(q) => Unknown(p \o q)
  BY <1>1 DEF Unknown
<1>7. \A i \in Sess, q \in {conn.sbuff, AllOf(cmd)} :
        sess[i].late \o q \in Seq(Cmds) /\ Unknown(sess[i].late \o q)
  BY <1>1, <1>4, <1>5, <1>6, Types
<1>8. \A kept \in KeptOf(cmd) : Arrived(cmd, kept) \in {conn.sbuff, AllOf(cmd)}
  BY DEF Arrived
<1> QED
  BY <1>2, <1>4, <1>5, <1>7, <1>8 DEF KeptOf

(* A session as a step that settles no work may leave it. *)
HeldAs(i, s) ==
  /\ s.work = sess[i].work
  /\ s.is = sess[i].is \/ (sess[i].is = "up" /\ s.is = "cut")
  /\ s.late # <<>> => s.is \in {"up", "cut"}
  /\ Unknown(s.late)

(* A session that did not move is so left. *)
LEMMA HeldSame ==
  ASSUME SessionInv, ran' \in Nat, ran <= ran', NEW i \in Sess
  PROVE  HeldAs(i, sess[i])
<1>1. ran \in Nat
  BY Numbers
<1> QED
  BY <1>1 DEF HeldAs, Unknown, SessionInv, TypeOK, SessTypes, LateUnknown, Work

(* Only the session under the connection is cut off, with its work. *)
LEMMA CutShape ==
  ASSUME SessionInv, ran' \in Nat, ran <= ran', NEW cmd, Fresh(cmd), NEW kept \in KeptOf(cmd),
         Up(conn.sock)
  PROVE  /\ CutOff(cmd, kept) \in [Sess -> SessionType]
         /\ \A j \in Sess : HeldAs(j, CutOff(cmd, kept)[j])
         /\ \A j \in Sess : j # conn.sock => CutOff(cmd, kept)[j] = sess[j]
         /\ CutOff(cmd, kept)[conn.sock].is = "cut"
<1> DEFINE c == conn.sock
           q == sess[c].late \o Arrived(cmd, kept)
           s == [sess[c] EXCEPT !.is = "cut", !.late = q]
<1>1. /\ c \in Sess /\ sess \in [Sess -> SessionType] /\ sess[c] \in SessionType
      /\ sess[c].is = "up"
  BY Types DEF Up
<1>2. q \in Seq(Cmds) /\ Unknown(q)
  BY <1>1, QueueFacts
<1>3. CutOff(cmd, kept) = [sess EXCEPT ![c] = s]
  BY <1>1 DEF CutOff, SessionType
<1> HIDE DEF q
<1>4. s \in SessionType /\ s.is = "cut" /\ s.work = sess[c].work /\ s.late = q
  BY <1>1, <1>2 DEF SessionType
<1> HIDE DEF s
<1>5. HeldAs(c, s)
  BY <1>1, <1>2, <1>4 DEF HeldAs
<1> QED
  BY <1>1, <1>3, <1>4, <1>5, HeldSame

(* A dead socket, or one that dies, leaves no open session under it. *)
LEMMA DyingShape ==
  ASSUME SessionInv, ran' \in Nat, ran <= ran', NEW cmd, Fresh(cmd), NEW kept \in KeptOf(cmd)
  PROVE  /\ Dying(cmd, kept) \in [Sess -> SessionType]
         /\ \A j \in Sess : /\ HeldAs(j, Dying(cmd, kept)[j])
                            /\ sess[j].is # "up" => Dying(cmd, kept)[j] = sess[j]
         /\ \A j \in Sess : Dying(cmd, kept)[j].is = "up" => sess[j].is = "up" /\ j # conn.sock
<1>1. CASE Up(conn.sock)
  BY <1>1, CutShape DEF Dying, Up
<1>2. CASE ~Up(conn.sock)
  BY <1>2, HeldSame, Types DEF Dying, Up
<1> QED
  BY <1>1, <1>2

(* The connection breaks between two calls. *)
LEMMA BreakStep ==
  ASSUME SessionInv, Break
  PROVE  SessionInv' /\ \A i \in Sess : sess'[i].is = "up" => sess[i].is = "up"
<1> DEFINE c == conn.sock
           s == [sess[c] EXCEPT !.is = "cut"]
<1>1. /\ Up(c) /\ c \in Sess /\ sess[c].is = "up" /\ sess' = [sess EXCEPT ![c] = s]
      /\ UNCHANGED <<svc, conn, fd0, durable, ran, misread, told, by, mine, undone, dropped>>
  BY Types DEF Break, Up, driver, history
<1>2. s \in SessionType /\ s.is = "cut" /\ s.work = sess[c].work /\ s.late = sess[c].late
  BY <1>1, Types DEF SessionType
<1> HIDE DEF s
<1>3. /\ sess' \in [Sess -> SessionType] /\ sess'[c] = s
      /\ \A j \in Sess : j # c => sess'[j] = sess[j]
  BY <1>1, <1>2, Types
<1>4. ran' \in Nat /\ ran <= ran'
  BY <1>1, Numbers
<1>5. \A j \in Sess : Held(j)
  BY <1>1, <1>2, <1>3, <1>4, HeldSame DEF Held, HeldAs, Unknown
<1>6. CountTypes' /\ HandleTypes'
  <2>1. breaks' \in 0 .. MaxBreaks
    BY Types, BoundsAssumption DEF Break, CountTypes
  <2> QED
    BY <1>1, <2>1, Types DEF CountTypes, HandleTypes
<1>7. SameConn /\ SbuffUnknown
  <2>1. ~Up(conn.sock)'
    BY <1>1, <1>2, <1>3 DEF Up
  <2> QED
    BY <1>1, <2>1 DEF SameConn, SbuffUnknown, SessionInv, LateUnknown
<1>8. SessionInv'
  BY <1>1, <1>3, <1>4, <1>5, <1>6, <1>7, QuietStep
<1> QED
  BY <1>1, <1>3, <1>8

(* An exchange reads an answer that is not its own. *)
LEMMA MisreadShape ==
  ASSUME SessionInv, ran' \in Nat, ran <= ran', NEW cmd, Fresh(cmd), NEW b \in BOOLEAN,
         Misread(cmd, b)
  PROVE  /\ conn' \in ConnType /\ conn'.at = conn.at /\ conn'.sock = conn.sock
         /\ conn.sock = 0 \/ conn'.behind
         /\ sess' \in [Sess -> SessionType] /\ SbuffUnknown
         /\ \A j \in Sess : Held(j) /\ sess'[j].is = sess[j].is
<1> DEFINE c == conn.sock
<1>1. CASE Up(c) /\ ~InStep
  <2> DEFINE q == sess[c].late \o AllOf(cmd)
             s == [sess[c] EXCEPT !.late = q]
  <2>1. /\ c \in Sess /\ sess \in [Sess -> SessionType] /\ sess[c] \in SessionType
        /\ sess[c].is = "up" /\ c # 0
    BY <1>1, Types, SessFacts DEF Up
  <2>2. q \in Seq(Cmds) /\ Unknown(q) /\ <<>> \in Seq(Cmds) /\ Unknown(<<>>)
    BY <2>1, QueueFacts
  <2>3. sess' = [sess EXCEPT ![c] = s]
        /\ conn' = [conn EXCEPT !.sbuff = <<>>, !.behind = TRUE, !.tran = b]
    BY <1>1, <2>1 DEF Misread
  <2> HIDE DEF q
  <2>4. s \in SessionType /\ s.is = "up" /\ s.work = sess[c].work /\ s.late = q
    BY <2>1, <2>2 DEF SessionType
  <2> HIDE DEF s
  <2>5. HeldAs(c, s)
    BY <2>1, <2>2, <2>4 DEF HeldAs
  <2>6. /\ conn' \in ConnType /\ conn'.at = conn.at /\ conn'.sock = conn.sock
        /\ conn'.behind /\ conn'.sbuff = <<>>
    BY <2>2, <2>3, Types DEF ConnType
  <2>7. \A j \in Sess : HeldAs(j, sess'[j]) /\ sess'[j].is = sess[j].is
    BY <2>1, <2>3, <2>4, <2>5, HeldSame
  <2> QED
    BY <2>1, <2>2, <2>3, <2>4, <2>6, <2>7 DEF Held, HeldAs, Unknown, SbuffUnknown
<1>2. CASE ~Up(c) /\ c # 0 /\ conn.behind
  <2>1. UNCHANGED sess /\ conn' = [conn EXCEPT !.sbuff = <<>>, !.tran = b]
    BY <1>2 DEF Misread
  <2>2. /\ <<>> \in Seq(Cmds) /\ Unknown(<<>>)
    BY QueueFacts
  <2>3. /\ conn' \in ConnType /\ conn'.at = conn.at /\ conn'.sock = conn.sock
        /\ conn'.behind /\ conn'.sbuff = <<>>
    BY <1>2, <2>1, <2>2, Types DEF ConnType
  <2> QED
    BY <2>1, <2>2, <2>3, Types, HeldSame DEF Held, HeldAs, Unknown, SbuffUnknown
<1>3. CASE c = 0
  <2>1. UNCHANGED sess /\ conn' = [conn EXCEPT !.sbuff = AllOf(cmd), !.tran = b]
    BY <1>3, SessFacts DEF Misread, Up
  <2>2. AllOf(cmd) \in Seq(Cmds) /\ Unknown(AllOf(cmd))
    BY QueueFacts
  <2>3. /\ conn' \in ConnType /\ conn'.at = conn.at /\ conn'.sock = conn.sock
        /\ conn'.sbuff = AllOf(cmd)
    BY <2>1, <2>2, Types DEF ConnType
  <2> QED
    BY <1>3, <2>1, <2>2, <2>3, Types, HeldSame DEF Held, HeldAs, Unknown, SbuffUnknown
<1> QED
  BY <1>1, <1>2, <1>3 DEF Misread

(* What the histories and the handles do in a step that settles nothing. *)
Quiet ==
  /\ svc' \in [server : BOOLEAN, sess : BOOLEAN, trans : BOOLEAN]
  /\ svc'.server = svc.server
  /\ ran' \in 0 .. MaxWork /\ ran <= ran'
  /\ mine' \subseteq mine /\ UNCHANGED <<by, undone>>

(* It settles nothing, and the driver is behind, or has no socket. *)
LEMMA MisreadStep ==
  ASSUME SessionInv, NEW cmd, Fresh(cmd), NEW b \in BOOLEAN, Misread(cmd, b), Quiet
  PROVE  SessionInv'
<1>1. ran' \in Nat /\ ran <= ran' /\ ran \in Nat
  <2>1. ran \in Nat /\ ran' \in 0 .. MaxWork /\ ran <= ran'
    BY Numbers DEF Quiet
  <2> QED
    BY <2>1, BoundsAssumption
<1>2. /\ conn' \in ConnType /\ conn'.at = conn.at /\ conn'.sock = conn.sock
      /\ conn.sock = 0 \/ conn'.behind
      /\ sess' \in [Sess -> SessionType] /\ SbuffUnknown
      /\ \A j \in Sess : Held(j)
  BY <1>1, MisreadShape
<1>3. /\ UNCHANGED <<fd0, durable, breaks, dropped>> /\ misread' = misread + 1
      /\ misread < MaxMisread
  BY DEF Misread
<1>4. CountTypes'
  <2>1. misread' \in 0 .. MaxMisread
    <3>1. misread \in 0 .. MaxMisread /\ MaxMisread \in Nat
      BY Types, BoundsAssumption DEF CountTypes
    <3> QED
      BY <1>3, <3>1
  <2>2. durable' \subseteq 1 .. ran'
    <3>1. durable \subseteq 1 .. ran /\ 1 .. ran \subseteq 1 .. ran'
      BY <1>1, Types DEF CountTypes
    <3> QED
      BY <1>3, <3>1
  <2> QED
    BY <1>3, <2>1, <2>2, Types DEF CountTypes, Quiet
<1>5. HandleTypes'
  BY <1>2, <1>3, Types DEF HandleTypes, Quiet
<1>6. \/ FreshConn /\ conn'.sock = 0
      \/ SameConn /\ conn'.behind
  BY <1>2 DEF FreshConn, SameConn, Quiet
<1> QED
  BY <1>1, <1>2, <1>3, <1>4, <1>5, <1>6, QuietStep DEF Quiet

(* An exchange meets a dead connection, or breaks it. *)
LEMMA NetErrorStep ==
  ASSUME SessionInv, NEW cmd, Fresh(cmd), NetError(cmd), Quiet, told' \in {"ok", "error"}
  PROVE  SessionInv'
<1>1. ran' \in Nat /\ ran <= ran' /\ ran \in Nat
  BY Numbers, BoundsAssumption DEF Quiet
<1> PICK kept \in KeptOf(cmd) :
      IOEx(cmd, kept) /\ sess' = Dying(cmd, kept) /\ conn' = [conn EXCEPT !.sbuff = kept]
  BY DEF NetError
<1>2. /\ kept \in Seq(Cmds) /\ Unknown(kept)
      /\ sess' \in [Sess -> SessionType]
      /\ \A j \in Sess : HeldAs(j, sess'[j])
      /\ \A j \in Sess : sess'[j].is = "up" => sess[j].is = "up" /\ j # conn.sock
  BY <1>1, QueueFacts, DyingShape
<1>3. /\ conn' \in ConnType /\ conn'.at = conn.at /\ conn'.sock = conn.sock
      /\ conn'.tran = conn.tran /\ conn'.behind = conn.behind /\ conn'.sbuff = kept
  BY <1>2, Types DEF ConnType
<1>4. UNCHANGED <<fd0, durable, misread, dropped>>
  BY DEF NetError
<1>5. CountTypes'
  <2>1. breaks' \in 0 .. MaxBreaks /\ 1 .. ran \subseteq 1 .. ran'
    BY <1>1, Types, BoundsAssumption DEF CountTypes, IOEx
  <2> QED
    BY <1>4, <2>1, Types DEF CountTypes, Quiet
<1>6. HandleTypes'
  BY <1>3, <1>4, Types DEF HandleTypes, Quiet
<1>7. SameConn
  BY <1>2, <1>3 DEF SameConn, Quiet, Up
<1>8. SbuffUnknown /\ \A j \in Sess : Held(j)
  BY <1>2, <1>3 DEF SbuffUnknown, Held, HeldAs, Unknown
<1> QED
  BY <1>1, <1>2, <1>4, <1>5, <1>6, <1>7, <1>8, QuietStep DEF Quiet

(* execCommand returns KCI_ERROR, for any reason. *)
LEMMA ErrorStep ==
  ASSUME SessionInv, NEW cmd, Fresh(cmd), Error(cmd), Quiet, told' \in {"ok", "error"}
  PROVE  SessionInv'
<1>1. CASE NetError(cmd)
  BY <1>1, NetErrorStep
<1>2. CASE Fails
  <2>1. ran' \in Nat /\ ran <= ran' /\ ran \in Nat
    BY Numbers, BoundsAssumption DEF Quiet
  <2>2. 1 .. ran \subseteq 1 .. ran'
    BY <2>1
  <2>3. HandleTypes' /\ CountTypes'
    BY <1>2, <2>2, Types DEF Fails, CountTypes, HandleTypes, Quiet
  <2> QED
    BY <1>2, <2>3, FailsStep DEF Quiet
<1>3. CASE MisreadError(cmd)
  <2>1. conn.tran \in BOOLEAN
    BY Types DEF ConnType
  <2> QED
    BY <1>3, <2>1, MisreadStep DEF MisreadError
<1> QED
  BY <1>1, <1>2, <1>3 DEF Error

(* Nothing but the session under the connection, or the handles, moved. *)
LEMMA StillStep ==
  ASSUME SessionInv, ran' \in Nat, ran <= ran', UNCHANGED sess
  PROVE  /\ \A j \in Sess : Held(j)
         /\ \A kept \in {conn.sbuff, conn'.sbuff} : kept = conn.sbuff => Unknown(kept)
<1>1. \A j \in Sess : HeldAs(j, sess'[j])
  BY HeldSame
<1>2. ran \in Nat
  BY Numbers
<1> QED
  BY <1>1, <1>2 DEF Held, HeldAs, Unknown, SessionInv, LateUnknown, Work

(* A session that was cut off ends, and its work with it. *)
LEMMA SessionEndsStep ==
  ASSUME SessionInv, NEW i \in Sess, SessionEnds(i)
  PROVE  SessionInv' /\ \A j \in Sess : sess'[j].is = "up" => sess[j].is = "up"
<1>1. /\ UNCHANGED <<svc, conn, fd0, ran, breaks, misread, told>>
      /\ UNCHANGED <<durable, by, mine, undone, dropped>>
  BY DEF SessionEnds, driver, history
<1>2. ran' \in Nat /\ ran <= ran'
  BY <1>1, Numbers
<1>3. Gone \in SessionType /\ Empty(Gone) /\ Gone.is = "gone"
  BY GoneShape
<1>4. sess' = [sess EXCEPT ![i] = Gone]
  BY DEF SessionEnds
<1>5. /\ sess' \in [Sess -> SessionType] /\ sess'[i] = Gone
      /\ \A j \in Sess : j # i => sess'[j] = sess[j]
  BY <1>3, <1>4, Types
<1>6. \A j \in Sess : Held(j) \/ (sess'[j].is = "gone" /\ Empty(sess'[j]))
  BY <1>2, <1>3, <1>5, HeldSame DEF Held, HeldAs, Unknown
<1>7. CountTypes' /\ HandleTypes'
  BY <1>1, Types DEF CountTypes, HandleTypes
<1>8. SbuffUnknown
  BY <1>1 DEF SbuffUnknown, SessionInv, LateUnknown
<1>9. SameConn
  <2>1. Up(conn.sock)' => Up(conn.sock) /\ sess'[conn.sock] = sess[conn.sock]
    BY <1>1, <1>3, <1>5 DEF Up
  <2> QED
    BY <1>1, <2>1 DEF SameConn, SessionInv, NothingWaits
<1>10. SessionInv'
  BY <1>1, <1>2, <1>5, <1>6, <1>7, <1>8, <1>9, QuietStep
<1> QED
  BY <1>3, <1>5, <1>10

(* A call that only takes handles apart or together. *)
LEMMA HandleStep ==
  ASSUME SessionInv, \/ SetSession \/ SetTrans \/ KCISessionEnd \/ KCITransDetach
  PROVE  SessionInv'
<1>1. /\ UNCHANGED <<conn, fd0, sess, durable, ran, breaks, misread>> /\ told' = "ok"
      /\ UNCHANGED <<by, mine, undone, dropped>>
  BY DEF SetSession, SetTrans, KCISessionEnd, KCITransDetach, server, history
<1>2. svc' \in [server : BOOLEAN, sess : BOOLEAN, trans : BOOLEAN] /\ svc'.server = svc.server
  BY Types DEF SetSession, SetTrans, KCISessionEnd, KCITransDetach, HandleTypes
<1>3. ran' \in Nat /\ ran <= ran'
  BY <1>1, Numbers
<1>4. HandleTypes' /\ CountTypes'
  BY <1>1, <1>2, Types DEF HandleTypes, CountTypes
<1>5. SameConn /\ SbuffUnknown
  BY <1>1, <1>2 DEF SameConn, SbuffUnknown, SessionInv, LateUnknown, NothingWaits, Up
<1> QED
  BY <1>1, <1>3, <1>4, <1>5, Types, StillStep, QuietStep

(* KCIServerAttach: a connection without a socket. *)
LEMMA AttachStep ==
  ASSUME SessionInv, KCIServerAttach
  PROVE  SessionInv'
<1>1. /\ UNCHANGED <<fd0, sess, durable, ran, breaks, misread, by, undone, dropped>>
      /\ mine' = {} /\ told' = "ok" /\ conn' = NewConn
  BY DEF KCIServerAttach, server
<1>2. conn' \in ConnType /\ conn'.sock = 0 /\ conn'.sbuff = <<>>
  BY <1>1, NewConnShape
<1>3. svc' \in [server : BOOLEAN, sess : BOOLEAN, trans : BOOLEAN]
  BY Types DEF KCIServerAttach, HandleTypes
<1>4. HandleTypes' /\ CountTypes' /\ FreshConn
  BY <1>1, <1>2, <1>3, Types DEF HandleTypes, CountTypes, FreshConn
<1>5. ran' \in Nat /\ ran <= ran'
  BY <1>1, Numbers
<1>6. SbuffUnknown
  BY <1>2, EmptySeq DEF SbuffUnknown, In
<1> QED
  BY <1>1, <1>2, <1>4, <1>5, <1>6, Types, StillStep, QuietStep

(* A new socket under the connection, with or without a session behind it. *)
LEMMA NewSessionShape ==
  ASSUME SessionInv, NEW old \in [Sess -> SessionType],
         \A j \in Sess : sess[j].is # "up" => old[j] = sess[j],
         NEW kept \in Seq(Cmds), Refused(old, kept) \/ Connected(old, kept)
  PROVE  /\ fd0' = fd0
         /\ \E i \in Sess :
              /\ sess[i].is = "none" /\ conn' \in ConnType
              /\ conn'.at = conn.at /\ conn'.sock = i /\ conn'.sbuff = kept
              /\ sess' \in [Sess -> SessionType] /\ Empty(sess'[i])
              /\ \A j \in Sess : j # i => sess'[j] = old[j]
<1>1. PICK s \in {Gone, LoggedIn} : NewSession(old, kept, s)
  BY DEF Refused, Connected
<1>2. PICK i \in Sess, b \in {FALSE, conn.behind} :
        /\ NextSess(i) /\ sess' = [old EXCEPT ![i] = s] /\ conn' = TakenSocket(i, kept, b)
  BY <1>1 DEF NewSession
<1>3. s \in SessionType /\ Empty(s)
  BY GoneShape
<1>4. sess[i].is = "none" /\ i \in 0 .. MaxSess /\ b \in BOOLEAN
  BY <1>2, SessFacts, Types DEF NextSess, ConnType
<1>5. /\ conn' \in ConnType /\ conn'.at = conn.at /\ conn'.sock = i /\ conn'.sbuff = kept
  BY <1>2, <1>4, Types DEF TakenSocket, ConnType
<1>6. fd0' = fd0
  BY <1>1 DEF NewSession
<1> QED
  BY <1>2, <1>3, <1>4, <1>5, <1>6

(* buildPhyConn, from a session that may have died: whether or not a new   *)
(* one comes of it, nothing is settled.                                    *)
LEMMA BuildStep ==
  ASSUME SessionInv, NEW old \in [Sess -> SessionType], NEW kept \in Seq(Cmds), Unknown(kept),
         Quiet, CountTypes', told' \in {"ok", "error"}, UNCHANGED <<durable, dropped>>,
         \A j \in Sess : HeldAs(j, old[j]) /\ (sess[j].is # "up" => old[j] = sess[j]),
         \/ /\ Unconnected(kept) /\ sess' = old
            /\ (sess' = sess /\ kept = conn.sbuff) \/ \A j \in Sess : old[j].is = "up" => j # conn.sock
         \/ Refused(old, kept) \/ Connected(old, kept)
  PROVE  SessionInv'
<1>1. ran' \in Nat /\ ran <= ran' /\ ran \in Nat
  BY Numbers, BoundsAssumption DEF Quiet
<1>2. CASE /\ Unconnected(kept) /\ sess' = old
           /\ (sess' = sess /\ kept = conn.sbuff) \/ \A j \in Sess : old[j].is = "up" => j # conn.sock
  <2>1. conn' = [conn EXCEPT !.sbuff = kept] /\ fd0' \in {"process", "nobody", "socket"}
    BY <1>2, Types DEF Unconnected, NoSocket, Unreachable, HandleTypes
  <2>2. /\ conn' \in ConnType /\ conn'.at = conn.at /\ conn'.sock = conn.sock
        /\ conn'.tran = conn.tran /\ conn'.behind = conn.behind /\ conn'.sbuff = kept
    BY <2>1, Types DEF ConnType
  <2>3. HandleTypes' /\ SbuffUnknown
    BY <2>1, <2>2, Types DEF HandleTypes, Quiet, SbuffUnknown, Unknown
  <2>4. SameConn
    BY <1>2, <2>2 DEF SameConn, Quiet, Up, SessionInv, NothingWaits
  <2>5. \A j \in Sess : Held(j)
    BY <1>2 DEF Held, HeldAs, Unknown
  <2> QED
    BY <1>1, <1>2, <2>3, <2>4, <2>5, QuietStep DEF Quiet
<1>3. CASE Refused(old, kept) \/ Connected(old, kept)
  <2>1. fd0' = fd0
    BY <1>3, NewSessionShape
  <2>2. PICK i \in Sess :
              /\ sess[i].is = "none" /\ conn' \in ConnType
              /\ conn'.at = conn.at /\ conn'.sock = i /\ conn'.sbuff = kept
              /\ sess' \in [Sess -> SessionType] /\ Empty(sess'[i])
              /\ \A j \in Sess : j # i => sess'[j] = old[j]
    BY <1>3, NewSessionShape
  <2>3. HandleTypes' /\ FreshConn /\ SbuffUnknown
    BY <2>1, <2>2, Types DEF HandleTypes, Quiet, FreshConn, SbuffUnknown, Unknown
  <2>4. \A j \in Sess : Held(j) \/ (sess[j].is = "none" /\ Empty(sess'[j]))
    BY <2>2 DEF Held, HeldAs, Unknown
  <2> QED
    BY <1>1, <2>2, <2>3, <2>4, QuietStep DEF Quiet
<1> QED
  BY <1>2, <1>3

(* KCISessionBegin, whether or not a session comes of it. *)
LEMMA BeginStep ==
  ASSUME SessionInv, KCISessionBegin
  PROVE  SessionInv'
<1>1. /\ UNCHANGED <<svc, durable, ran, breaks, misread, by, undone, dropped>>
      /\ mine' = {} /\ told' \in {"ok", "error"}
  BY DEF KCISessionBegin, BeginSucceeds, BeginFails
<1>2. CountTypes' /\ Quiet
  BY <1>1, Types DEF CountTypes, Quiet, HandleTypes
<1>3. /\ sess \in [Sess -> SessionType] /\ conn.sbuff \in Seq(Cmds)
      /\ ran' \in Nat /\ ran <= ran'
  BY <1>1, Types, Numbers
<1>4. /\ Unknown(conn.sbuff)
      /\ \A j \in Sess : HeldAs(j, sess[j]) /\ (sess[j].is # "up" => sess[j] = sess[j])
  BY <1>1, <1>3, HeldSame DEF SessionInv, LateUnknown, Unknown
<1>5. \/ Unconnected(conn.sbuff) /\ sess' = sess
      \/ Refused(sess, conn.sbuff) \/ Connected(sess, conn.sbuff)
  BY DEF KCISessionBegin, BeginSucceeds, BeginFails
<1> QED
  BY <1>1, <1>2, <1>3, <1>4, <1>5, BuildStep

(* KCIStmtExecute on a broken connection: the old session is cut off with  *)
(* the statement under way, and a new one may begin, in the same step.     *)
LEMMA ReConnectStep ==
  ASSUME SessionInv, NEW cmd, Fresh(cmd), reConnect(cmd), Quiet
  PROVE  SessionInv'
<1>1. ran' \in Nat /\ ran <= ran' /\ ran \in Nat
  BY Numbers, BoundsAssumption DEF Quiet
<1> PICK kept \in KeptOf(cmd) :
      /\ IOEx(cmd, kept)
      /\ \/ Unconnected(kept) /\ sess' = Dying(cmd, kept)
         \/ Refused(Dying(cmd, kept), kept) \/ Connected(Dying(cmd, kept), kept)
  BY DEF reConnect
<1> DEFINE old == Dying(cmd, kept)
<1>2. /\ kept \in Seq(Cmds) /\ Unknown(kept)
      /\ old \in [Sess -> SessionType]
      /\ \A j \in Sess : HeldAs(j, old[j]) /\ (sess[j].is # "up" => old[j] = sess[j])
      /\ \A j \in Sess : old[j].is = "up" => j # conn.sock
  BY <1>1, QueueFacts, DyingShape
<1>3. UNCHANGED <<durable, misread, dropped>> /\ told' \in {"ok", "error"}
  BY DEF reConnect
<1>4. CountTypes'
  <2>1. breaks' \in 0 .. MaxBreaks /\ 1 .. ran \subseteq 1 .. ran'
    BY <1>1, Types, BoundsAssumption DEF CountTypes, IOEx
  <2> QED
    BY <1>3, <2>1, Types DEF CountTypes, Quiet
<1> HIDE DEF old
<1>5. \/ Unconnected(kept) /\ sess' = old
      \/ Refused(old, kept) \/ Connected(old, kept)
  BY DEF old
<1> QED
  BY <1>2, <1>3, <1>4, <1>5, BuildStep

(* KCITransStart, and the bind of a large object that calls it. *)
LEMMA TransStartStep ==
  ASSUME SessionInv, KCITransStart \/ BindLob
  PROVE  SessionInv'
<1>1. /\ UNCHANGED <<ran, by, mine, undone>> /\ told' \in {"ok", "error"} /\ Quiet
  BY Types DEF KCITransStart, BindLob, HandleTypes, Quiet, CountTypes
<1>2. CASE Succeeds(OFF)
  <2>1. HandleTypes'
    BY <1>1, <1>2, Types DEF Succeeds, HandleTypes, ConnType, TranStatus, Quiet
  <2> QED
    BY <1>1, <1>2, <2>1, SucceedsStep, CmdsDistinct
<1>3. CASE Error(OFF)
  BY <1>1, <1>3, FreshCmds, ErrorStep
<1>4. CASE MisreadSuccess(OFF)
  BY <1>1, <1>4, FreshCmds, MisreadStep DEF MisreadSuccess
<1> QED
  BY <1>2, <1>3, <1>4 DEF KCITransStart, BindLob

(* KCITransCommit: with no transaction known, nothing is left to commit.  *)
LEMMA CommitStep ==
  ASSUME SessionInv, KCITransCommit
  PROVE  SessionInv'
<1>1. UNCHANGED <<svc, ran, by, undone>> /\ mine' \subseteq mine /\ Quiet
  BY Types DEF KCITransCommit, Quiet, HandleTypes, CountTypes
<1>2. CASE Skip("committed")
  <2>1. /\ UNCHANGED <<conn, fd0, sess, durable, breaks, misread, dropped>> /\ told' = "committed"
        /\ ~conn.tran /\ conn.at = "set"
    BY <1>2 DEF Skip, InTransaction, KCITransCommit, Attached
  <2>2. TypeOK'
    BY <1>1, <2>1 DEF SessionInv, TypeOK, HandleTypes, SessTypes, CountTypes
  <2>3. /\ NoHiddenWork' /\ WorkOwned' /\ RunsKnown' /\ LateUnknown' /\ NothingWaits' /\ Apart'
    BY <1>1, <2>1 DEF SessionInv, NoHiddenWork, WorkOwned, RunsKnown, LateUnknown, NothingWaits,
                      Apart, Attached, Up
  <2>4. NothingForgotten'
    BY <1>1, <2>1 DEF SessionInv, NothingForgotten, Settled, Up
  <2>5. CommitTakesAll'
    BY <2>1, <2>4 DEF CommitTakesAll, NothingForgotten, Settled
  <2>6. RollbackTakesAll'
    BY <2>1, <2>3 DEF RollbackTakesAll, Apart
  <2> QED
    BY <2>2, <2>3, <2>4, <2>5, <2>6 DEF SessionInv
<1>3. CASE Succeeds(CommitText) /\ told' = "committed"
  <2>1. HandleTypes'
    BY <1>1, <1>3, Types DEF Succeeds, HandleTypes, ConnType, TranStatus
  <2> QED
    BY <1>1, <1>3, <2>1, SucceedsStep, CmdsDistinct DEF CommitText
<1>4. CASE Error(CommitText) /\ told' = "error"
  BY <1>1, <1>4, FreshCmds, ErrorStep DEF CommitText
<1>5. CASE MisreadSuccess(CommitText)
  BY <1>1, <1>5, FreshCmds, MisreadStep DEF CommitText, MisreadSuccess
<1> QED
  BY <1>2, <1>3, <1>4, <1>5 DEF KCITransCommit

(* KCITransRollback, likewise. *)
LEMMA RollbackStep ==
  ASSUME SessionInv, KCITransRollback
  PROVE  SessionInv'
<1>1. /\ UNCHANGED <<svc, ran, by>> /\ mine' \subseteq mine
      /\ UNCHANGED undone => Quiet
  BY Types DEF KCITransRollback, Quiet, HandleTypes, CountTypes
<1>2. CASE Skip("rolled back") /\ UNCHANGED undone
  <2>1. /\ UNCHANGED <<conn, fd0, sess, durable, breaks, misread, dropped>>
        /\ told' = "rolled back" /\ ~conn.tran /\ Attached
    BY <1>2 DEF Skip, InTransaction, KCITransRollback
  <2>2. TypeOK'
    BY <1>1, <1>2, <2>1 DEF SessionInv, TypeOK, HandleTypes, SessTypes, CountTypes
  <2>3. NoHiddenWork' /\ WorkOwned' /\ RunsKnown' /\ LateUnknown' /\ NothingWaits' /\ Apart'
    BY <1>1, <1>2, <2>1 DEF SessionInv, NoHiddenWork, WorkOwned, RunsKnown, LateUnknown,
                            NothingWaits, Apart, Attached, Up
  <2>4. NothingForgotten' /\ CommitTakesAll'
    BY <1>1, <1>2, <2>1 DEF SessionInv, NothingForgotten, CommitTakesAll, Settled, Up
  <2>5. RollbackTakesAll'
    BY <2>1, <2>3 DEF SessionInv, RollbackTakesAll, Apart, NoHiddenWork, Up
  <2> QED
    BY <2>2, <2>3, <2>4, <2>5 DEF SessionInv
<1>3. CASE /\ Succeeds(RollbackText) /\ told' = "rolled back"
           /\ undone' = undone \union sess[conn.sock].work
  <2>1. HandleTypes'
    BY <1>1, <1>3, Types DEF Succeeds, HandleTypes, ConnType, TranStatus
  <2> QED
    BY <1>1, <1>3, <2>1, SucceedsStep, CmdsDistinct DEF RollbackText
<1>4. CASE Error(RollbackText) /\ told' = "error" /\ UNCHANGED undone
  BY <1>1, <1>4, FreshCmds, ErrorStep DEF RollbackText
<1>5. CASE MisreadSuccess(RollbackText) /\ UNCHANGED undone
  BY <1>1, <1>5, FreshCmds, MisreadStep DEF RollbackText, MisreadSuccess
<1> QED
  BY <1>2, <1>3, <1>4, <1>5 DEF KCITransRollback

(* A parameter is not converted: the head of the request stays in sbuff. *)
LEMMA NotSentStep ==
  ASSUME SessionInv, ran < MaxWork, ran' = ran + 1, NotSent(ran + 1), Quiet, told' = "error"
  PROVE  SessionInv'
<1> DEFINE q == AllOf(DML(ran + 1))
<1>1. /\ UNCHANGED <<fd0, sess, durable, breaks, misread, dropped>>
      /\ conn' = [conn EXCEPT !.sbuff = q]
  BY DEF NotSent
<1>2. ran' \in Nat /\ ran <= ran' /\ ran \in Nat
  BY Numbers, BoundsAssumption DEF Quiet
<1>3. q \in Seq(Cmds) /\ Unknown(q)
  BY <1>2, FreshCmds, QueueFacts
<1> HIDE DEF q
<1>4. /\ conn' \in ConnType /\ conn'.at = conn.at /\ conn'.sock = conn.sock
      /\ conn'.tran = conn.tran /\ conn'.behind = conn.behind /\ conn'.sbuff = q
  BY <1>1, <1>3, Types DEF ConnType
<1>5. CountTypes'
  <2>1. 1 .. ran \subseteq 1 .. ran'
    BY <1>2
  <2> QED
    BY <1>1, <2>1, Types DEF CountTypes, Quiet
<1>6. HandleTypes' /\ SbuffUnknown
  BY <1>1, <1>3, <1>4, Types DEF HandleTypes, Quiet, SbuffUnknown, Unknown
<1>7. SameConn
  BY <1>1, <1>4 DEF SameConn, Quiet, SessionInv, NothingWaits, Up
<1> QED
  BY <1>1, <1>2, <1>5, <1>6, <1>7, Types, StillStep, QuietStep DEF Quiet

(* KCIStmtExecute of a changing statement: its outcomes. *)
LEMMA ExecuteStep ==
  ASSUME SessionInv, KCIStmtExecute
  PROVE  SessionInv'
<1>1. ran < MaxWork /\ ran' = ran + 1 /\ UNCHANGED <<svc, undone>>
  BY DEF KCIStmtExecute
<1>2. ran <= ran' /\ 1 .. ran \subseteq 1 .. ran' /\ ran' \in 0 .. MaxWork
  BY <1>1, Numbers, BoundsAssumption
<1>3. UNCHANGED <<by, mine>> => Quiet
  BY <1>1, <1>2, Types DEF Quiet, HandleTypes
<1>4. Fresh(DML(ran + 1))
  BY <1>1, FreshCmds
<1>5. CASE Succeeds(DML(ran + 1)) /\ by' = [by EXCEPT ![ran + 1] = conn.sock]
           /\ mine' = mine \union {ran + 1} /\ told' = "ok"
  <2>1. HandleTypes'
    BY <1>1, <1>5, Types DEF Succeeds, HandleTypes, ConnType, TranStatus
  <2> QED
    BY <1>1, <1>5, <2>1, RunStep
<1>6. CASE MisreadSuccess(DML(ran + 1)) /\ UNCHANGED <<by, mine>>
  BY <1>3, <1>4, <1>6, MisreadStep DEF MisreadSuccess
<1>7. CASE ExecuteFails(ran + 1)
  <2>1. UNCHANGED <<by, mine>> /\ told' = "error"
    BY <1>7 DEF ExecuteFails
  <2>2. CASE Fails
    <3>1. HandleTypes' /\ CountTypes'
      BY <1>1, <1>2, <2>2, Types DEF Fails, HandleTypes, CountTypes
    <3> QED
      BY <1>1, <1>2, <2>1, <2>2, <3>1, Types, FailsStep
  <2>3. CASE MisreadError(DML(ran + 1))
    BY <1>3, <1>4, <2>1, <2>3, ErrorStep DEF Error
  <2>4. CASE NotSent(ran + 1)
    BY <1>1, <1>3, <2>1, <2>4, NotSentStep
  <2> QED
    BY <1>7, <2>2, <2>3, <2>4 DEF ExecuteFails
<1>8. CASE reConnect(DML(ran + 1))
  <2>1. UNCHANGED <<by, mine>>
    BY <1>8 DEF reConnect
  <2> QED
    BY <1>3, <1>4, <1>8, <2>1, ReConnectStep
<1> QED
  BY <1>5, <1>6, <1>7, <1>8 DEF KCIStmtExecute, ExecuteSucceeds

(* The session of a connection that is closed ends, or runs what waits and *)
(* ends behind it; the others do not move.                                 *)
LEMMA ClosedShape ==
  ASSUME SessionInv
  PROVE  /\ Closed \in [Sess -> SessionType]
         /\ \A i \in Sess : i # conn.sock => Closed[i] = sess[i]
         /\ \A i \in Sess : Closed[i].is = "up" => sess[i].is = "up" /\ i # conn.sock
         /\ \A i \in Sess : /\ Closed[i].late = sess[i].late
                            /\ \/ Closed[i].is = "gone" /\ Empty(Closed[i])
                               \/ /\ Closed[i].work = sess[i].work
                                  /\ Closed[i].is = sess[i].is
                                     \/ (sess[i].is = "up" /\ Closed[i].is = "cut")
<1> DEFINE c == conn.sock
           s == IF sess[c].late = <<>> THEN Gone ELSE [sess[c] EXCEPT !.is = "cut"]
<1>1. CASE ~Up(c)
  BY <1>1, Types DEF Closed, Up
<1>2. CASE Up(c)
  <2>1. c \in Sess /\ sess[c].is = "up" /\ sess[c] \in SessionType
    BY <1>2, Types DEF Up
  <2>2. Closed = [sess EXCEPT ![c] = s]
    BY <1>2 DEF Closed, Closes
  <2>3. /\ s \in SessionType /\ s.late = sess[c].late /\ s.is # "up"
        /\ \/ s.is = "gone" /\ Empty(s)
           \/ s.work = sess[c].work /\ s.is = "cut"
    <3>1. CASE sess[c].late = <<>>
      BY <3>1, GoneShape DEF Empty
    <3>2. CASE sess[c].late # <<>>
      BY <2>1, <3>2 DEF SessionType
    <3> QED
      BY <3>1, <3>2
  <2> HIDE DEF s
  <2> QED
    BY <2>1, <2>2, <2>3, Types
<1> QED
  BY <1>1, <1>2

(* KCIServerDetach: closePhyConn, whatever comes of its rollback. *)
LEMMA DetachStep ==
  ASSUME SessionInv, KCIServerDetach
  PROVE  SessionInv'
<1>1. /\ UNCHANGED <<svc, ran, misread, by, dropped>> /\ mine' = {} /\ told' = "ok"
      /\ conn' \in ConnType /\ conn'.at = "freed" /\ conn'.sock = 0 /\ conn'.sbuff = <<>>
  BY NewConnShape DEF KCIServerDetach
<1>2. HandleTypes' /\ FreshConn /\ SbuffUnknown
  <2>1. fd0' \in {"process", "nobody", "socket"}
    BY Types DEF KCIServerDetach, HandleTypes
  <2>2. SbuffUnknown
    BY <1>1, EmptySeq DEF SbuffUnknown, In
  <2> QED
    BY <1>1, <2>1, <2>2, Types DEF HandleTypes, FreshConn
<1>3. ran' \in Nat /\ ran <= ran'
  BY <1>1, Numbers
<1>4. CASE TakesBack
  <2>1. Up(conn.sock) /\ ~conn.behind /\ sess[conn.sock].late = <<>>
    BY <1>4 DEF TakesBack, InStep, SessionInv, NothingWaits
  <2>2. sess' = [sess EXCEPT ![conn.sock] = Gone]
    BY <1>4, <2>1 DEF TakesBack, Closed, Closes
  <2>3. durable' = durable /\ undone' = undone \union sess[conn.sock].work /\ UNCHANGED breaks
    BY <1>4, CmdsDistinct DEF TakesBack, MadeDurable, DetachText
  <2> QED
    BY <1>1, <1>2, <2>1, <2>2, <2>3, TakenBackStep
<1>5. CASE SentOnly
  <2>1. /\ Up(conn.sock) /\ sess' = CutOff(ROLLBACK, <<>>) /\ UNCHANGED <<durable, undone>>
        /\ (breaks < MaxBreaks /\ breaks' = breaks + 1) \/ breaks' = breaks
    BY <1>5 DEF SentOnly, DetachText
  <2>2. CountTypes'
    <3>1. breaks' \in 0 .. MaxBreaks
      BY <2>1, Types, BoundsAssumption DEF CountTypes
    <3> QED
      BY <1>1, <2>1, <3>1, Types DEF CountTypes
  <2>3. Fresh(ROLLBACK) /\ <<>> \in KeptOf(ROLLBACK)
    BY FreshCmds DEF KeptOf
  <2>4. sess' \in [Sess -> SessionType] /\ \A j \in Sess : HeldAs(j, sess'[j])
    BY <1>3, <2>1, <2>3, CutShape
  <2>5. \A j \in Sess : Held(j)
    BY <2>4 DEF Held, HeldAs, Unknown
  <2> QED
    BY <1>1, <1>2, <1>3, <2>1, <2>2, <2>4, <2>5, QuietStep
<1>6. CASE sess' = Closed /\ UNCHANGED <<durable, undone, breaks>>
  <2>1. CountTypes'
    BY <1>1, <1>6, Types DEF CountTypes
  <2>2. /\ sess' \in [Sess -> SessionType]
        /\ \A j \in Sess : Held(j) \/ (sess'[j].is = "gone" /\ Empty(sess'[j]))
    BY <1>1, <1>3, <1>6, ClosedShape, HeldSame DEF Held, HeldAs, Unknown
  <2> QED
    BY <1>1, <1>2, <1>3, <1>6, <2>1, <2>2, QuietStep
<1> QED
  BY <1>4, <1>5, <1>6 DEF KCIServerDetach

(* Every step of the specification keeps the invariant. *)
LEMMA NextInv == SessionInv /\ [Next]_vars => SessionInv'
<1> SUFFICES ASSUME SessionInv, [Next]_vars PROVE SessionInv'
  OBVIOUS
<1>1. CASE UNCHANGED vars
  <2>1. UNCHANGED <<svc, conn, fd0, sess, durable, ran, breaks, misread, told, by, mine,
                    undone, dropped>>
    BY <1>1 DEF vars
  <2>2. HandleTypes' /\ CountTypes' /\ SameConn /\ SbuffUnknown /\ ran' \in Nat /\ ran <= ran'
    BY <2>1, Types, Numbers DEF HandleTypes, CountTypes, SameConn, SbuffUnknown, SessionInv,
                                LateUnknown, NothingWaits, Up
  <2> QED
    BY <2>1, <2>2, Types, StillStep, QuietStep
<1>2. CASE Next
  BY <1>2, AttachStep, HandleStep, BeginStep, TransStartStep, CommitStep, RollbackStep,
     ExecuteStep, DetachStep, BreakStep, LateRunStep, SessionEndsStep DEF Next
<1> QED
  BY <1>1, <1>2

(* For every number of statements, sessions, breaks, kept and misread      *)
(* requests: SessionInv holds in every state the calls reach.              *)
THEOREM SessionSafety == Spec => []SessionInv
BY InitInv, NextInv, PTL DEF Spec

(* As long as the driver is not an answer behind, tran_status never misses *)
(* a transaction with work in it, through every call that fails, every     *)
(* connection that breaks, and every request that is left in sbuff.        *)
THEOREM DriverKnows == Spec => []TransactionKnown
<1>1. SessionInv => TransactionKnown
  BY DEF SessionInv, TransactionKnown
<1> QED
  BY <1>1, SessionSafety, PTL

(* When KCITransCommit returns success, by its shortcut or by an answer,   *)
(* and the driver is not an answer behind, nothing that succeeded in the   *)
(* session under the connection is left uncommitted.                       *)
THEOREM CommitComplete == Spec => []CommitTakesAll
<1>1. SessionInv => CommitTakesAll
  BY DEF SessionInv
<1> QED
  BY <1>1, SessionSafety, PTL

(* What KCITransRollback or KCIServerDetach took back never becomes        *)
(* durable, behind or not, not even by a request kept in sbuff or under    *)
(* way when a connection broke; a rollback that succeeds on a connection   *)
(* that is not an answer behind leaves nothing in its session.             *)
THEOREM RollbackComplete == Spec => []RollbackTakesAll
<1>1. SessionInv => RollbackTakesAll
  BY DEF SessionInv
<1> QED
  BY <1>1, SessionSafety, PTL

-----------------------------------------------------------------------------
(* A step under which the connection keeps its socket opens no session. *)
LEMMA ExchangeOpensNone ==
  ASSUME SessionInv, ran' \in Nat, ran <= ran', NEW cmd, Fresh(cmd),
         Succeeds(cmd) \/ Error(cmd) \/ MisreadSuccess(cmd)
  PROVE  /\ conn'.at = conn.at /\ conn'.sock = conn.sock
         /\ \A i \in Sess : sess'[i].is = "up" => sess[i].is = "up"
<1>1. CASE Succeeds(cmd)
  <2>1. /\ conn.sock \in Sess /\ sess[conn.sock].is = "up"
        /\ sess' = [sess EXCEPT ![conn.sock] = AfterRun(sess[conn.sock], cmd)]
    BY <1>1 DEF Succeeds, Up
  <2>2. conn'.at = conn.at /\ conn'.sock = conn.sock
    BY <1>1, Types DEF Succeeds, ConnType
  <2> QED
    BY <2>1, <2>2, Types
<1>2. CASE Fails
  BY <1>2, Types DEF Fails, Up, SessionType
<1>3. CASE NetError(cmd)
  <2>1. PICK kept \in KeptOf(cmd) : sess' = Dying(cmd, kept) /\ conn' = [conn EXCEPT !.sbuff = kept]
    BY <1>3 DEF NetError
  <2>2. conn'.at = conn.at /\ conn'.sock = conn.sock
    BY <2>1, Types DEF ConnType
  <2> QED
    BY <2>1, <2>2, DyingShape
<1>4. CASE MisreadSuccess(cmd) \/ MisreadError(cmd)
  <2>1. PICK b \in BOOLEAN : Misread(cmd, b)
    BY <1>4, Types DEF MisreadSuccess, MisreadError, ConnType
  <2> QED
    BY <2>1, MisreadShape
<1> QED
  BY <1>1, <1>2, <1>3, <1>4 DEF Error

(* Every action: what it opens is under the connection or left behind.    *)
LEMMA OrphanStep ==
  ASSUME SessionInv, NoOrphan, Next
  PROVE  NoOrphan'
<1>1. ASSUME conn'.at = conn.at, conn'.sock = conn.sock, left \subseteq left',
             \A i \in Sess : sess'[i].is = "up" => sess[i].is = "up"
      PROVE  NoOrphan'
  BY <1>1 DEF NoOrphan, Up
<1>2. ASSUME conn.at = "set" => conn'.at = "set", left' = Leaves,
             \A i \in Sess : sess'[i].is = "up" =>
               sess[i].is = "up" \/ (conn'.at = "set" /\ conn'.sock = i)
      PROVE  NoOrphan'
  BY <1>2 DEF NoOrphan, Up, Leaves
<1>3. CASE KCIServerAttach
  BY <1>2, <1>3, NewConnShape DEF KCIServerAttach, server
<1>4. CASE SetSession \/ SetTrans \/ KCISessionEnd \/ KCITransDetach
  BY <1>1, <1>4 DEF SetSession, SetTrans, KCISessionEnd, KCITransDetach, server, history
<1>5. CASE KCISessionBegin
  <2>1. CASE (Refused(sess, conn.sbuff) \/ Connected(sess, conn.sbuff)) /\ left' = Leaves
    <3>1. PICK i \in Sess : /\ conn'.at = conn.at /\ conn'.sock = i
                            /\ \A j \in Sess : j # i => sess'[j] = sess[j]
      BY <2>1, Types, NewSessionShape
    <3>2. conn.at = "set"
      BY <1>5 DEF KCISessionBegin, BeginSucceeds, BeginFails, Attached
    <3> QED
      BY <1>2, <2>1, <3>1, <3>2
  <2>2. CASE Unconnected(conn.sbuff) /\ UNCHANGED <<sess, left>>
    <3>1. conn'.at = conn.at /\ conn'.sock = conn.sock
      BY <2>2, Types DEF Unconnected, ConnType
    <3> QED
      BY <1>1, <2>2, <3>1
  <2> QED
    BY <1>5, <2>1, <2>2 DEF KCISessionBegin, BeginSucceeds, BeginFails
<1>6. CASE KCITransStart \/ BindLob
  <2>1. ran' \in Nat /\ ran <= ran' /\ Fresh(OFF) /\ UNCHANGED left
    BY <1>6, FreshCmds, Numbers DEF KCITransStart, BindLob
  <2>2. Succeeds(OFF) \/ Error(OFF) \/ MisreadSuccess(OFF)
    BY <1>6 DEF KCITransStart, BindLob
  <2> QED
    BY <1>1, <2>1, <2>2, ExchangeOpensNone
<1>7. CASE KCITransCommit
  <2>1. ran' \in Nat /\ ran <= ran' /\ Fresh(COMMIT) /\ UNCHANGED left
    BY <1>7, FreshCmds, Numbers DEF KCITransCommit
  <2>2. \/ Succeeds(COMMIT) \/ Error(COMMIT) \/ MisreadSuccess(COMMIT)
        \/ UNCHANGED <<conn, sess>>
    BY <1>7 DEF KCITransCommit, CommitText, Skip
  <2> QED
    BY <1>1, <2>1, <2>2, ExchangeOpensNone
<1>8. CASE KCITransRollback
  <2>1. ran' \in Nat /\ ran <= ran' /\ Fresh(ROLLBACK) /\ UNCHANGED left
    <3>1. UNCHANGED <<ran, left>>
      BY <1>8 DEF KCITransRollback
    <3> QED
      BY <3>1, FreshCmds, Numbers
  <2>2. \/ Succeeds(ROLLBACK) \/ Error(ROLLBACK) \/ MisreadSuccess(ROLLBACK)
        \/ UNCHANGED <<conn, sess>>
    BY <1>8 DEF KCITransRollback, RollbackText, Skip
  <2> QED
    BY <1>1, <2>1, <2>2, ExchangeOpensNone
<1>9. CASE KCIStmtExecute
  <2> DEFINE cmd == DML(ran + 1)
  <2>1. /\ UNCHANGED left /\ ran' \in Nat /\ ran <= ran' /\ Fresh(cmd)
    <3>1. UNCHANGED left /\ ran < MaxWork /\ ran' = ran + 1
      BY <1>9 DEF KCIStmtExecute
    <3> QED
      BY <3>1, Numbers, FreshCmds
  <2>2. \/ Succeeds(cmd) \/ Error(cmd) \/ MisreadSuccess(cmd)
        \/ NotSent(ran + 1) \/ reConnect(cmd)
    BY <1>9 DEF KCIStmtExecute, ExecuteSucceeds, ExecuteFails, Error
  <2> HIDE DEF cmd
  <2>3. CASE Succeeds(cmd) \/ Error(cmd) \/ MisreadSuccess(cmd)
    BY <1>1, <2>1, <2>3, ExchangeOpensNone
  <2>4. CASE NotSent(ran + 1)
    <3>1. conn'.at = conn.at /\ conn'.sock = conn.sock /\ UNCHANGED sess
      BY <2>4, Types DEF NotSent, ConnType
    <3> QED
      BY <1>1, <2>1, <3>1
  <2>5. CASE reConnect(cmd)
    <3> PICK kept \in KeptOf(cmd) :
          \/ Unconnected(kept) /\ sess' = Dying(cmd, kept)
          \/ Refused(Dying(cmd, kept), kept) \/ Connected(Dying(cmd, kept), kept)
      BY <2>5 DEF reConnect
    <3> DEFINE old == Dying(cmd, kept)
    <3>1. /\ old \in [Sess -> SessionType] /\ kept \in Seq(Cmds)
          /\ \A j \in Sess : sess[j].is # "up" => old[j] = sess[j]
          /\ \A j \in Sess : old[j].is = "up" => sess[j].is = "up" /\ j # conn.sock
      BY <2>1, DyingShape, QueueFacts
    <3> HIDE DEF old
    <3>2. CASE Unconnected(kept) /\ sess' = old
      <4>1. conn'.at = conn.at /\ conn'.sock = conn.sock
        BY <3>1, <3>2, Types DEF Unconnected, ConnType
      <4> QED
        BY <1>1, <2>1, <3>1, <3>2, <4>1
    <3>3. CASE Refused(old, kept) \/ Connected(old, kept)
      <4>1. PICK i \in Sess : /\ conn'.at = conn.at /\ conn'.sock = i
                              /\ \A j \in Sess : j # i => sess'[j] = old[j]
        BY <3>1, <3>3, NewSessionShape
      <4>2. conn'.at = "set" /\ conn'.sock = i
        BY <1>9, <4>1 DEF KCIStmtExecute, Attached
      <4> QED
        BY <2>1, <3>1, <4>1, <4>2 DEF NoOrphan, Up
    <3> QED
      BY <3>2, <3>3 DEF old
  <2> QED
    BY <2>2, <2>3, <2>4, <2>5
<1>10. CASE KCIServerDetach
  <2>1. UNCHANGED left /\ ran' \in Nat /\ ran <= ran'
    BY <1>10, Numbers DEF KCIServerDetach
  <2>2. \A i \in Sess : sess'[i].is = "up" => sess[i].is = "up" /\ i # conn.sock
    <3>1. CASE SentOnly
      <4>1. Up(conn.sock) /\ sess' = CutOff(ROLLBACK, <<>>)
        BY <3>1 DEF SentOnly, DetachText
      <4>2. Fresh(ROLLBACK) /\ <<>> \in KeptOf(ROLLBACK)
        BY FreshCmds DEF KeptOf
      <4> QED
        BY <2>1, <4>1, <4>2, CutShape
    <3>2. CASE sess' = Closed
      BY <3>2, ClosedShape
    <3> QED
      BY <1>10, <3>1, <3>2 DEF KCIServerDetach, TakesBack
  <2> QED
    BY <2>1, <2>2 DEF NoOrphan, Up
<1>11. CASE Break
  BY <1>1, <1>11, BreakStep DEF Break, driver, history
<1>12. ASSUME NEW i \in Sess, LateRun(i) PROVE NoOrphan'
  <2>1. PICK s \in SessionType, D \in SUBSET Work :
          sess' = [sess EXCEPT ![i] = s] /\ LateResult(i, s, D)
    BY <1>12, LateRunShape
  <2>2. \A j \in Sess : sess'[j].is = "up" => sess[j].is = "up"
    BY <2>1, Types DEF LateResult
  <2> QED
    BY <1>1, <1>12, <2>2 DEF LateRun, driver
<1>13. ASSUME NEW i \in Sess, SessionEnds(i) PROVE NoOrphan'
  BY <1>1, <1>13, SessionEndsStep DEF SessionEnds, driver, history
<1> QED
  BY <1>3, <1>4, <1>5, <1>6, <1>7, <1>8, <1>9, <1>10, <1>11, <1>12, <1>13 DEF Next

(* No call leaves a session of the server open behind the application,     *)
(* except a second Attach or Begin: reConnect and Detach close or lose it. *)
THEOREM OrphansNone == Spec => []NoOrphan
<1>1. Init => NoOrphan
  BY DEF Init, NoOrphan, Up, Unborn
<1>2. SessionInv /\ NoOrphan /\ [Next]_vars => NoOrphan'
  <2>1. ASSUME NoOrphan, UNCHANGED vars PROVE NoOrphan'
    BY <2>1 DEF NoOrphan, Up, vars
  <2> QED
    BY <2>1, OrphanStep
<1> QED
  BY <1>1, <1>2, SessionSafety, PTL DEF Spec
=============================================================================
