---------------------------- MODULE RequestProofs ----------------------------
(***************************************************************************)
(* Proofs about Request, for any number of statements, rows, requests,     *)
(* messages, pieces and broken connections.                                *)
(*                                                                         *)
(* Line is what is on its way to the server, from up through sbuff to what *)
(* the call in progress is about to put: a call, a flush and a send move   *)
(* tokens along it, and the server takes them from its front.              *)
(***************************************************************************)
EXTENDS Request, SequenceTheorems, TLAPS

Line == up \o sbuff \o put

Kinds == {"head", "row", "part", "piece", "stop"}
Objects == {"none", "callback", "pieces", COMMAND}
Numbers == {0} \union Reqs

TokenType  == [t : Kinds, req : Numbers, rows : Nat, lob : Objects]
AnswerType == [kind : {"more", "S", "E", "K"}, req : Numbers]

Types ==
  /\ call \in [by : Stmts \union {COMMAND, "nobody"},
               at : {"idle", "put", "flush", "read", "lost"},
               path : {"none", "one", "many", "gives up", "piece", "command"},
               req : Numbers, asked : BOOLEAN]
  /\ up \in Seq(TokenType) /\ sbuff \in Seq(TokenType) /\ put \in Seq(TokenType)
  /\ down \in Seq(AnswerType)
  /\ srv \in [mode : {"request", "rows", "part", "stream", "run", "lost"},
              req : Numbers, left : Nat, lob : Objects, more : Nat]

(* No more rows than a call may send. *)
Bounded(n) == \A m \in Iters : (\A k \in Iters : k <= m) => n \in 0 .. m

(* While it waits for rows, some are to come. *)
Announced == srv.mode = "rows" => srv.left > 0

(* A lost connection has lost what was under way to the server.            *)
Cut == ~linked => up = <<>> /\ srv = Fresh

(* Requests that were begun. *)
Numbered(q, n) ==
  \A i \in 1 .. Len(q) : q[i].t = "head" =>
    q[i].req \in 1 .. n /\ q[i].rows > 0 /\ Bounded(q[i].rows)

(* Unless a failed send has kept it (K), a request is on its way, at the   *)
(* server or has been run: one of the three, and in one place.             *)
Waiting(q, n, f, x, K) ==
  /\ Numbered(q, n)
  /\ \A i \in 1 .. Len(q) : q[i].t = "head" /\ q[i].req \notin K =>
       f[q[i].req] = 0 /\ q[i].req # x
  /\ \A i, j \in 1 .. Len(q) :
       i < j /\ q[i].t = "head" /\ q[j].t = "head" /\ q[i].req \notin K => q[i].req # q[j].req

OnePlace ==
  /\ Waiting(Line, reqs, ran, srv.req, kept)
  /\ srv.req # 0 => srv.req \in 1 .. reqs /\ (srv.req \notin kept => ran[srv.req] = 0)
  /\ srv.mode = "request" => srv.req = 0
  /\ srv.mode \in {"rows", "run", "stream"} => srv.req # 0
  /\ \A r \in Reqs : (r \notin kept => ran[r] <= 1) /\ (r > reqs => ran[r] = 0)

(* What a send that fails would leave in sbuff, and what one has left. *)
Sent ==
  /\ delivered \in Seq(TokenType) /\ Numbered(delivered, reqs)
  /\ kept \subseteq 1 .. reqs

(* These hold on any connection, spoiled or not. *)
Always == TypeOK /\ Types /\ Announced /\ Cut /\ OnePlace

-----------------------------------------------------------------------------
(* The rest holds on a connection that is not spoiled.                     *)

(* The call in progress, and the statement that waits for a piece.         *)
Callers ==
  /\ Busy => \A s \in Stmts : ~Pending(s)
  /\ \A s \in Stmts : stmts[s].piece_mode => Pending(s) \/ (Busy /\ call.by = s)
  /\ \A s, t \in Stmts : Pending(s) /\ Pending(t) => s = t
  /\ \A s \in Stmts : Pending(s) => stmts[s].req \in 1 .. reqs
  /\ \A s \in Stmts : Busy /\ call.by = s => stmts[s].req = call.req
  /\ Busy => call.by # "nobody" /\ call.path # "gives up" /\ call.req \in 1 .. reqs
  /\ \A s \in Stmts : stmts[s].piece_mode => stmts[s].lob = "pieces"
  /\ \A s \in Stmts : Busy /\ call.by = s /\ call.asked => stmts[s].lob = "callback"
  /\ Busy /\ call.asked => ByStmt

(* The request of the call in progress or of the statement that waits.     *)
Mine == {r \in Numbers : \/ Busy /\ r = call.req
                         \/ \E s \in Stmts : Pending(s) /\ r = stmts[s].req}

(* The server is given what it expects. *)
Fits(q, x) ==
  \/ x.mode \in {"request", "run", "stream"} /\ q = <<>>
  \/ /\ x.mode = "request" /\ q # <<>> /\ q[1].t = "head" /\ Len(q) = q[1].rows + 1
     /\ \A i \in 2 .. Len(q) : q[i].t = "row"
  \/ x.mode = "rows" /\ Len(q) = x.left /\ \A i \in 1 .. Len(q) : q[i].t = "row"
  \/ /\ x.mode = "stream" /\ q # <<>> /\ q[Len(q)].t = "stop"
     /\ \A i \in 1 .. Len(q) - 1 : q[i].t = "piece"

(* What it answers belongs to the request, and an answer is over when it   *)
(* asks for a piece or ends.                                               *)
Answers ==
  /\ \A i \in 1 .. Len(down) : down[i].req \in Mine
  /\ \A i \in 1 .. Len(down) :
        /\ down[i].kind # "more" => i = Len(down)
        /\ down[i].kind = "K" => ran[down[i].req] = 1
        /\ down[i].kind = "S" => Line = <<>> /\ (linked => srv.mode = "stream")
        /\ EndsAnswer(down[i].kind) => Line = <<>> /\ srv = Fresh
        /\ call.by = COMMAND => down[i].kind # "more"

Expected ==
  /\ linked => Fits(Line, srv) /\ (srv.req = 0 \/ srv.req \in Mine)
  /\ linked => \A i \in 1 .. Len(Line) : Line[i].t = "head" => Line[i].req \in Mine
  /\ call.by = COMMAND =>
       /\ \A i \in 1 .. Len(Line) : Line[i].t = "head" => Line[i].lob = COMMAND
       /\ srv.mode # "request" => srv.lob = COMMAND
       /\ srv.mode # "stream"

(* Between two calls nothing is left behind, nor by a failed send, and no  *)
(* call puts a request before it has read what there was to read.          *)
Quiet ==
  /\ kept = {}
  /\ call.at = "idle" => sbuff = <<>> /\ up = <<>> /\ down = <<>>
  /\ call.at = "put" => down = <<>>
  /\ call.at = "idle" /\ (\A s \in Stmts : ~Pending(s)) => srv = Fresh
  /\ linked => \A s \in Stmts : Pending(s) => srv.mode = "stream"
  /\ call.at = "flush" /\ sbuff # <<>> => down = <<>>

(* Success was told of a request that has been run.                        *)
Succeeded ==
  \A s \in Stmts : told[s] = "success" => stmts[s].req \in Reqs /\ ran[stmts[s].req] = 1

Clean ==
  /\ Callers /\ Answers /\ Expected /\ Quiet
  /\ Succeeded /\ ~mixed

RequestInv == Always /\ Sent /\ (~spoiled => Clean)
-----------------------------------------------------------------------------
(* Sequences. *)

(* A stretch of a sequence. *)
Within(p, q) == \E a \in Nat : Len(p) + a <= Len(q) /\ \A i \in 1 .. Len(p) : p[i] = q[i + a]

LEMMA WithinSelf ==
  ASSUME NEW S, NEW q \in Seq(S)
  PROVE  Within(q, q)
<1>1. Len(q) \in Nat
  BY LenProperties
<1>2. 0 \in Nat /\ Len(q) + 0 <= Len(q) /\ \A i \in 1 .. Len(q) : q[i] = q[i + 0]
  BY <1>1
<1> QED
  BY <1>2 DEF Within

LEMMA WithinEmpty ==
  ASSUME NEW S, NEW q \in Seq(S)
  PROVE  Within(<<>>, q)
<1>1. Len(q) \in Nat /\ Len(<<>>) = 0
  BY LenProperties, EmptySeq
<1> QED
  BY <1>1 DEF Within

LEMMA WithinSubSeq ==
  ASSUME NEW S, NEW q \in Seq(S), NEW m \in 1 .. Len(q) + 1, NEW n \in 0 .. Len(q)
  PROVE  /\ SubSeq(q, m, n) \in Seq(S)
         /\ Within(SubSeq(q, m, n), q)
         /\ Len(SubSeq(q, m, n)) = IF m <= n THEN n - m + 1 ELSE 0
         /\ \A i \in 1 .. n - m + 1 : SubSeq(q, m, n)[i] = q[m + i - 1]
<1>1. Len(q) \in Nat /\ \A i \in m .. n : q[i] \in S
  BY LenProperties, ElementOfSeq
<1>2. /\ SubSeq(q, m, n) \in Seq(S)
      /\ Len(SubSeq(q, m, n)) = IF m <= n THEN n - m + 1 ELSE 0
      /\ \A i \in 1 .. n - m + 1 : SubSeq(q, m, n)[i] = q[m + i - 1]
  BY <1>1, SubSeqProperties
<1>3. Within(SubSeq(q, m, n), q)
  <2>1. (m - 1 \in Nat /\ Len(SubSeq(q, m, n)) + (m - 1) <= Len(q)) \/ Len(SubSeq(q, m, n)) = 0
    BY <1>1, <1>2
  <2>2. CASE Len(SubSeq(q, m, n)) = 0
    BY <1>1, <2>2 DEF Within
  <2>3. CASE Len(SubSeq(q, m, n)) # 0
    <3> DEFINE p == SubSeq(q, m, n)
    <3>1. Len(p) = n - m + 1 /\ Len(p) + (m - 1) <= Len(q) /\ m - 1 \in Nat
      BY <1>1, <1>2, <2>3
    <3>2. \A i \in 1 .. Len(p) : p[i] = q[i + (m - 1)]
      BY <1>2, <3>1
    <3> HIDE DEF p
    <3>3. Within(p, q)
      BY <3>1, <3>2 DEF Within
    <3> QED
      BY <3>3 DEF p
  <2> QED
    BY <2>2, <2>3
<1> QED
  BY <1>2, <1>3

LEMMA WithinConcat ==
  ASSUME NEW S, NEW p \in Seq(S), NEW q \in Seq(S)
  PROVE  Within(q, p \o q)
<1>1. /\ Len(p) \in Nat /\ Len(q) \in Nat /\ Len(p \o q) = Len(p) + Len(q)
      /\ \A i \in 1 .. Len(p) + Len(q) :
           (p \o q)[i] = IF i <= Len(p) THEN p[i] ELSE q[i - Len(p)]
  BY LenProperties, ConcatProperties
<1> DEFINE r == p \o q
<1>2. ASSUME NEW i \in 1 .. Len(q) PROVE q[i] = r[i + Len(p)]
  <2>1. i + Len(p) \in 1 .. Len(p) + Len(q) /\ ~(i + Len(p) <= Len(p)) /\ (i + Len(p)) - Len(p) = i
    BY <1>1
  <2> QED
    BY <1>1, <2>1
<1>3. Len(q) + Len(p) <= Len(r)
  BY <1>1
<1> HIDE DEF r
<1>4. Within(q, r)
  BY <1>1, <1>2, <1>3 DEF Within
<1> QED
  BY <1>4 DEF r

LEMMA WithinTail ==
  ASSUME NEW S, NEW q \in Seq(S), q # <<>>
  PROVE  Within(Tail(q), q)
<1>1. /\ Len(q) \in Nat /\ Len(Tail(q)) = Len(q) - 1
      /\ \A i \in 1 .. Len(Tail(q)) : Tail(q)[i] = q[i + 1]
  BY LenProperties, HeadTailProperties
<1> QED
  BY <1>1 DEF Within

LEMMA EmptyIffNone ==
  ASSUME NEW S, NEW q \in Seq(S)
  PROVE  (q = <<>> <=> Len(q) = 0) /\ (q # <<>> => 1 \in 1 .. Len(q) /\ Len(q) \in 1 .. Len(q))
<1>1. Len(q) \in Nat /\ (q # <<>> => Len(q) \in Nat \ {0}) /\ Len(<<>>) = 0
  BY LenProperties, EmptySeq
<1> QED
  BY <1>1

LEMMA Regroup == \A p, q, r \in Seq(TokenType) : (p \o q) \o r = p \o (q \o r)
BY ConcatAssociative, SMTT(40)

(* A flush, or the sends of a call, move tokens along the line.            *)
LEMMA MoveAlong ==
  ASSUME NEW a \in Seq(TokenType), NEW b \in Seq(TokenType), NEW k \in 0 .. Len(b)
  PROVE  (a \o SubSeq(b, 1, k)) \o SubSeq(b, k + 1, Len(b)) = a \o b
<1>1. Len(b) \in Nat
  BY LenProperties
<1>2. SubSeq(b, 1, k) \in Seq(TokenType) /\ SubSeq(b, k + 1, Len(b)) \in Seq(TokenType)
  BY <1>1, WithinSubSeq
<1>3. SubSeq(b, 1, k) \o SubSeq(b, k + 1, Len(b)) = SubSeq(b, 1, Len(b))
  <2>1. 1 \in 1 .. Len(b) + 1 /\ k \in 1 - 1 .. Len(b) /\ Len(b) \in k .. Len(b)
    BY <1>1
  <2> QED
    BY <2>1, ConcatAdjacentSubSeq
<1>4. SubSeq(b, 1, Len(b)) = b
  BY SubSeqFull
<1>5. SubSeq(b, 1, k) \o SubSeq(b, k + 1, Len(b)) = b
  BY <1>3, <1>4, Zenon
<1> QED
  <2> DEFINE x == SubSeq(b, 1, k)
             y == SubSeq(b, k + 1, Len(b))
  <2> HIDE DEF x, y
  <2>1. x \in Seq(TokenType) /\ y \in Seq(TokenType) /\ x \o y = b
    BY <1>2, <1>5 DEF x, y
  <2>2. (a \o x) \o y = a \o b
    BY <2>1, Regroup, ZenonT(60)
  <2> QED
    BY <2>2 DEF x, y

-----------------------------------------------------------------------------
(* Requests that wait on the line. *)

LEMMA WaitingWithin ==
  ASSUME NEW p \in Seq(TokenType), NEW q \in Seq(TokenType), Within(p, q),
         NEW n, NEW f, NEW x, NEW K, Waiting(q, n, f, x, K)
  PROVE  Waiting(p, n, f, x, K)
<1>1. PICK a \in Nat : Len(p) + a <= Len(q) /\ \A i \in 1 .. Len(p) : p[i] = q[i + a]
  BY DEF Within
<1>2. Len(p) \in Nat /\ Len(q) \in Nat
  BY LenProperties
<1>3. \A i \in 1 .. Len(p) : i + a \in 1 .. Len(q)
  BY <1>1, <1>2
<1>4. \A i, j \in 1 .. Len(p) : i < j => i + a < j + a
  BY <1>1, <1>2
<1>5. ASSUME NEW i \in 1 .. Len(p), p[i].t = "head"
      PROVE  /\ p[i].req \in 1 .. n /\ p[i].rows > 0 /\ Bounded(p[i].rows)
             /\ p[i].req \notin K => f[p[i].req] = 0 /\ p[i].req # x
  <2>1. i + a \in 1 .. Len(q) /\ q[i + a] = p[i]
    BY <1>1, <1>3
  <2> QED
    BY <1>5, <2>1 DEF Waiting, Numbered
<1>6. ASSUME NEW i \in 1 .. Len(p), NEW j \in 1 .. Len(p), i < j,
             p[i].t = "head", p[j].t = "head", p[i].req \notin K
      PROVE  p[i].req # p[j].req
  <2>1. /\ i + a \in 1 .. Len(q) /\ q[i + a] = p[i]
        /\ j + a \in 1 .. Len(q) /\ q[j + a] = p[j] /\ i + a < j + a
    BY <1>1, <1>3, <1>4, <1>6
  <2> QED
    BY <1>6, <2>1 DEF Waiting
<1> QED
  BY <1>5, <1>6 DEF Waiting, Numbered

(* The requests of a stretch, and of two sequences. *)
LEMMA NumberedWithin ==
  ASSUME NEW p \in Seq(TokenType), NEW q \in Seq(TokenType), Within(p, q), NEW n, Numbered(q, n)
  PROVE  Numbered(p, n)
<1>1. PICK a \in Nat : Len(p) + a <= Len(q) /\ \A i \in 1 .. Len(p) : p[i] = q[i + a]
  BY DEF Within
<1>2. Len(p) \in Nat /\ Len(q) \in Nat
  BY LenProperties
<1>3. \A i \in 1 .. Len(p) : i + a \in 1 .. Len(q) /\ q[i + a] = p[i]
  BY <1>1, <1>2
<1> QED
  BY <1>3 DEF Numbered

LEMMA NumberedConcat ==
  ASSUME NEW p \in Seq(TokenType), NEW q \in Seq(TokenType), NEW n, Numbered(p, n), Numbered(q, n)
  PROVE  p \o q \in Seq(TokenType) /\ Numbered(p \o q, n)
<1> DEFINE r == p \o q
<1>1. /\ Len(p) \in Nat /\ Len(q) \in Nat /\ Len(r) = Len(p) + Len(q) /\ r \in Seq(TokenType)
      /\ \A i \in 1 .. Len(p) + Len(q) : r[i] = IF i <= Len(p) THEN p[i] ELSE q[i - Len(p)]
  BY LenProperties, ConcatProperties
<1> HIDE DEF r
<1>2. ASSUME NEW i \in 1 .. Len(r), r[i].t = "head"
      PROVE  r[i].req \in 1 .. n /\ r[i].rows > 0 /\ Bounded(r[i].rows)
  <2>1. CASE i <= Len(p)
    <3>1. i \in 1 .. Len(p) /\ r[i] = p[i]
      BY <1>1, <2>1
    <3> QED
      BY <1>2, <3>1 DEF Numbered
  <2>2. CASE ~(i <= Len(p))
    <3>1. i - Len(p) \in 1 .. Len(q) /\ r[i] = q[i - Len(p)]
      BY <1>1, <2>2
    <3> QED
      BY <1>2, <3>1 DEF Numbered
  <2> QED
    BY <2>1, <2>2
<1>3. Numbered(r, n)
  BY <1>2 DEF Numbered
<1> QED
  BY <1>1, <1>3 DEF r

(* What a failed send leaves is kept. *)
LEMMA KeptWaits ==
  ASSUME NEW q, NEW n, NEW f, NEW x, NEW K, Numbered(q, n), Heads(q) \subseteq K
  PROVE  Waiting(q, n, f, x, K)
<1>1. \A i \in 1 .. Len(q) : q[i].t = "head" => q[i].req \in K
  BY DEF Heads
<1> QED
  BY <1>1 DEF Waiting

LEMMA WaitingConcat ==
  ASSUME NEW q \in Seq(TokenType), NEW toks \in Seq(TokenType),
         NEW n \in Nat, NEW m \in Nat, n <= m, NEW f, NEW x, NEW K, Waiting(q, n, f, x, K),
         \A i \in 1 .. Len(toks) : toks[i].t = "head" =>
            /\ i = 1 /\ toks[i].req = n + 1 /\ m = n + 1 /\ f[n + 1] = 0 /\ x # n + 1
            /\ toks[i].rows > 0 /\ Bounded(toks[i].rows)
  PROVE  Waiting(q \o toks, m, f, x, K)
<1> DEFINE r == q \o toks
           l == Len(q)
<1>1. /\ l \in Nat /\ Len(toks) \in Nat /\ Len(r) = l + Len(toks)
      /\ \A i \in 1 .. l + Len(toks) : r[i] = IF i <= l THEN q[i] ELSE toks[i - l]
  BY LenProperties, ConcatProperties
<1> HIDE DEF r, l
<1>2. \A i \in 1 .. Len(r) : i <= l => i \in 1 .. Len(q) /\ r[i] = q[i]
  BY <1>1 DEF l
<1>3. \A i \in 1 .. Len(r) : ~(i <= l) => i - l \in 1 .. Len(toks) /\ r[i] = toks[i - l]
  BY <1>1
<1>4. ASSUME NEW i \in 1 .. Len(r), r[i].t = "head"
      PROVE  /\ r[i].req \in 1 .. m /\ r[i].rows > 0 /\ Bounded(r[i].rows)
             /\ r[i].req \notin K => f[r[i].req] = 0 /\ r[i].req # x
  <2>1. CASE i <= l
    <3>1. /\ q[i].req \in 1 .. n /\ q[i].rows > 0 /\ Bounded(q[i].rows)
          /\ q[i].req \notin K => f[q[i].req] = 0 /\ q[i].req # x
      BY <1>2, <1>4, <2>1 DEF Waiting, Numbered
    <3> QED
      BY <1>2, <2>1, <3>1
  <2>2. CASE ~(i <= l)
    BY <1>3, <1>4, <2>2
  <2> QED
    BY <2>1, <2>2
<1>5. ASSUME NEW i \in 1 .. Len(r), NEW j \in 1 .. Len(r), i < j,
             r[i].t = "head", r[j].t = "head", r[i].req \notin K
      PROVE  r[i].req # r[j].req
  <2>1. CASE j <= l
    <3>1. i <= l
      BY <1>1, <1>5, <2>1
    <3> QED
      BY <1>2, <1>5, <2>1, <3>1 DEF Waiting
  <2>2. CASE ~(j <= l)
    <3>1. j - l = 1 /\ r[j].req = n + 1
      BY <1>3, <1>5, <2>2
    <3>2. i <= l
      BY <1>1, <1>5, <3>1
    <3>3. r[i].req \in 1 .. n
      BY <1>2, <1>5, <3>2 DEF Waiting, Numbered
    <3> QED
      BY <3>1, <3>3
  <2> QED
    BY <2>1, <2>2
<1>6. Waiting(r, m, f, x, K)
  BY <1>4, <1>5 DEF Waiting, Numbered
<1> QED
  BY <1>6 DEF r

(* The server takes a request from the line. *)
LEMMA WaitingTaken ==
  ASSUME NEW q \in Seq(TokenType), q # <<>>, NEW n, NEW f, NEW x, NEW K, Waiting(q, n, f, x, K)
  PROVE  /\ Tail(q) \in Seq(TokenType)
         /\ Waiting(Tail(q), n, f, x, K)
         /\ q[1].t = "head" =>
              /\ Waiting(Tail(q), n, f, q[1].req, K) /\ q[1].req \in 1 .. n
              /\ q[1].req \notin K => f[q[1].req] = 0
              /\ q[1].rows > 0 /\ Bounded(q[1].rows)
<1>1. Tail(q) \in Seq(TokenType) /\ Within(Tail(q), q)
  BY HeadTailProperties, WithinTail
<1>2. Waiting(Tail(q), n, f, x, K)
  BY <1>1, WaitingWithin
<1>3. /\ Len(q) \in Nat /\ Len(Tail(q)) = Len(q) - 1 /\ 1 \in 1 .. Len(q)
      /\ \A i \in 1 .. Len(Tail(q)) : Tail(q)[i] = q[i + 1] /\ i + 1 \in 1 .. Len(q) /\ 1 < i + 1
  BY LenProperties, HeadTailProperties, EmptyIffNone
<1>4. q[1].t = "head" =>
        /\ q[1].req \in 1 .. n /\ (q[1].req \notin K => f[q[1].req] = 0)
        /\ q[1].rows > 0 /\ Bounded(q[1].rows)
  BY <1>3 DEF Waiting, Numbered
<1>5. ASSUME q[1].t = "head" PROVE Waiting(Tail(q), n, f, q[1].req, K)
  <2>1. ASSUME NEW i \in 1 .. Len(Tail(q)), Tail(q)[i].t = "head", Tail(q)[i].req \notin K
        PROVE  Tail(q)[i].req # q[1].req
    BY <1>3, <1>5, <2>1 DEF Waiting
  <2> QED
    BY <1>2, <2>1 DEF Waiting
<1> QED
  BY <1>1, <1>2, <1>4, <1>5

(* It has run the one it has. *)
LEMMA WaitingRun ==
  ASSUME NEW q, NEW n \in Nat, NEW f \in [Reqs -> Nat], NEW x \in Reqs, NEW K,
         Waiting(q, n, f, x, K)
  PROVE  Waiting(q, n, f, 0, K) /\ Waiting(q, n, [f EXCEPT ![x] = @ + 1], 0, K)
<1>1. \A r : r # x => [f EXCEPT ![x] = @ + 1][r] = f[r]
  OBVIOUS
<1>2. 0 \notin 1 .. n
  OBVIOUS
<1> QED
  BY <1>1, <1>2 DEF Waiting, Numbered

-----------------------------------------------------------------------------
(* Types. *)

(* What the actions that leave the server and the line alone preserve.     *)
SessionTypes ==
  /\ linked \in BOOLEAN /\ breaks \in 0 .. MaxBreaks
  /\ srv \in [mode : {"request", "rows", "part", "stream", "run", "lost"},
              req : Numbers, left : Nat, lob : Objects, more : Nat]
  /\ Bounded(srv.left)
  /\ ran \in [Reqs -> Nat]

StmtTypes ==
  /\ stmts \in [Stmts -> [prepared : BOOLEAN, lob : Lobs \union {"none"},
                         piece_mode : BOOLEAN, req : Numbers]]
  /\ told \in [Stmts -> {"nothing", "success", "error", "need data"}]
  /\ reqs \in 0 .. MaxReqs
  /\ mixed \in BOOLEAN /\ spoiled \in BOOLEAN

CallTypes ==
  /\ call \in [by : Stmts \union {COMMAND, "nobody"},
               at : {"idle", "put", "flush", "read", "lost"},
               path : {"none", "one", "many", "gives up", "piece", "command"},
               req : Numbers, asked : BOOLEAN]
  /\ (call.at = "idle" <=> call = NoCall) /\ (call.at = "put" <=> put # <<>>)

WireTypes ==
  /\ up \in Seq(TokenType) /\ sbuff \in Seq(TokenType) /\ put \in Seq(TokenType)
  /\ down \in Seq(AnswerType)

LEMMA TypeParts == TypeOK /\ Types <=> SessionTypes /\ StmtTypes /\ CallTypes /\ WireTypes
<1>1. TypeOK /\ Types => SessionTypes
  BY DEF TypeOK, Types, SessionTypes, Bounded
<1>2. TypeOK /\ Types => StmtTypes
  BY DEF TypeOK, Types, StmtTypes, Numbers
<1>3. TypeOK /\ Types => CallTypes
  BY DEF TypeOK, Types, CallTypes
<1>4. TypeOK /\ Types => WireTypes
  BY DEF Types, WireTypes
<1>5. SessionTypes /\ StmtTypes /\ CallTypes /\ WireTypes => Types
  BY DEF Types, SessionTypes, StmtTypes, CallTypes, WireTypes
<1>6. SessionTypes /\ StmtTypes /\ CallTypes => TypeOK
  <2> SUFFICES ASSUME SessionTypes, StmtTypes, CallTypes PROVE TypeOK
    OBVIOUS
  <2>1. /\ srv.mode \in {"request", "rows", "part", "stream", "run", "lost"}
        /\ \A n \in Iters : (\A m \in Iters : m <= n) => srv.left \in 0 .. n
    BY DEF SessionTypes, Bounded
  <2>2. call.by \in Stmts \union {COMMAND, "nobody"}
        /\ call.at \in {"idle", "put", "flush", "read", "lost"}
    BY DEF CallTypes
  <2> QED
    BY <2>1, <2>2 DEF TypeOK, SessionTypes, StmtTypes, CallTypes, Numbers
<1> QED
  BY <1>1, <1>2, <1>3, <1>4, <1>5, <1>6

LEMMA FreshType ==
  /\ Fresh \in [mode : {"request", "rows", "part", "stream", "run", "lost"},
                req : Numbers, left : Nat, lob : Objects, more : Nat]
  /\ Bounded(Fresh.left)
<1>1. Fresh \in [mode : {"request", "rows", "part", "stream", "run", "lost"},
                req : Numbers, left : Nat, lob : Objects, more : Nat]
  BY DEF Fresh, Numbers, Objects
<1>2. Fresh.left = 0
  BY DEF Fresh
<1>3. Bounded(0)
  BY ArgsAssumption DEF Bounded
<1> QED
  BY <1>1, <1>2, <1>3

LEMMA NoCallType ==
  /\ NoCall \in [by : Stmts \union {COMMAND, "nobody"},
               at : {"idle", "put", "flush", "read", "lost"},
               path : {"none", "one", "many", "gives up", "piece", "command"},
               req : Numbers, asked : BOOLEAN]
  /\ NoCall.at = "idle" /\ NoCall.by = "nobody" /\ NoCall.req = 0
BY DEF NoCall, Numbers

LEMMA TokenTypes ==
  ASSUME NEW r \in Numbers, NEW t \in Kinds
  PROVE  /\ Token(t, r) \in TokenType
         /\ Token(t, r).t = t /\ Token(t, r).req = r
BY DEF Token, TokenType, Objects

(* A call returns. *)
LEMMA ReturnTypes ==
  ASSUME StmtTypes, CallTypes, NEW over \in BOOLEAN,
         NEW outcome \in {"success", "error", "need data"}, Return(outcome, over)
  PROVE  /\ call' = NoCall
         /\ told' \in [Stmts -> {"nothing", "success", "error", "need data"}]
         /\ spoiled' \in BOOLEAN
         /\ spoiled => spoiled'
<1>1. call' = NoCall
  BY DEF Return
<1>2. told' \in [Stmts -> {"nothing", "success", "error", "need data"}]
  BY DEF Return, StmtTypes
<1>3. spoiled' = (spoiled \/ Spoils(over))
  BY DEF Return
<1> QED
  BY <1>1, <1>2, <1>3

LEMMA ReceivedTypes ==
  ASSUME StmtTypes, WireTypes, Reading, Received
  PROVE  /\ down' \in Seq(AnswerType) /\ mixed' \in BOOLEAN
         /\ mixed' <=> (mixed \/ Got.req # call.req)
         /\ down[1] \in AnswerType
<1>1. down \in Seq(AnswerType) /\ down # <<>>
  BY DEF WireTypes, Reading
<1>2. Tail(down) \in Seq(AnswerType) /\ down[1] \in AnswerType
  BY <1>1, HeadTailProperties, EmptyIffNone, ElementOfSeq
<1>3. mixed' = (mixed \/ Got.req # call.req) /\ down' = Tail(down)
  BY DEF Received
<1> QED
  BY <1>2, <1>3

(* The tokens of a request. *)
LEMMA RequestParts ==
  ASSUME NEW r \in Reqs, NEW n \in Nat \ {0}, NEW lob \in Objects, NEW bad \in Nat
  PROVE  \E h \in TokenType, rs \in Seq(TokenType) :
           /\ RequestOf(r, n, lob, bad) = <<h>> \o rs
           /\ h = [t |-> "head", req |-> r, rows |-> n, lob |-> lob]
           /\ Len(rs) = n
           /\ \A i \in 1 .. n : rs[i].t # "head" /\ (i # bad => rs[i].t = "row")
<1> DEFINE h == [t |-> "head", req |-> r, rows |-> n, lob |-> lob]
           rs == [i \in 1 .. n |-> Token(IF i = bad THEN "part" ELSE "row", r)]
<1>1. h \in TokenType
  BY DEF TokenType, Kinds, Numbers
<1>2. ASSUME NEW i \in 1 .. n PROVE rs[i] \in TokenType
  <2>1. (IF i = bad THEN "part" ELSE "row") \in Kinds /\ r \in Numbers
    BY DEF Kinds, Numbers
  <2> QED
    BY <2>1, TokenTypes
<1>3. rs \in [1 .. n -> TokenType]
  BY <1>2
<1>4. ASSUME NEW i \in 1 .. n PROVE rs[i].t # "head" /\ (i # bad => rs[i].t = "row")
  BY DEF Token
<1>5. <<h>> \o rs = RequestOf(r, n, lob, bad)
  BY DEF RequestOf, RowsSaid
<1>6. h = [t |-> "head", req |-> r, rows |-> n, lob |-> lob]
  OBVIOUS
<1> HIDE DEF rs, h
<1>7. rs \in Seq(TokenType) /\ Len(rs) = n
  BY <1>3, SeqDef, LenProperties
<1> QED
  BY <1>1, <1>4, <1>5, <1>6, <1>7

LEMMA RequestSeq ==
  \A r \in Reqs, n \in Nat \ {0}, lob \in Objects, bad \in Nat :
    RequestOf(r, n, lob, bad) \in Seq(TokenType) /\ RequestOf(r, n, lob, bad) # <<>>
<1> SUFFICES ASSUME NEW r \in Reqs, NEW n \in Nat \ {0}, NEW lob \in Objects, NEW bad \in Nat
             PROVE  RequestOf(r, n, lob, bad) \in Seq(TokenType) /\ RequestOf(r, n, lob, bad) # <<>>
  OBVIOUS
<1>1. PICK h \in TokenType, rs \in Seq(TokenType) :
        /\ RequestOf(r, n, lob, bad) = <<h>> \o rs
        /\ h = [t |-> "head", req |-> r, rows |-> n, lob |-> lob]
        /\ Len(rs) = n
        /\ \A i \in 1 .. n : rs[i].t # "head" /\ (i # bad => rs[i].t = "row")
  BY RequestParts
<1>2. <<h>> \in Seq(TokenType) /\ Len(<<h>>) = 1
  OBVIOUS
<1>3. <<h>> \o rs \in Seq(TokenType) /\ <<h>> \o rs # <<>>
  BY <1>2, ConcatProperties, ConcatEqualIffEmpty, EmptySeq
<1> QED
  BY <1>1, <1>3

LEMMA RequestTokens ==
  ASSUME NEW r \in Reqs, NEW n \in Nat \ {0}, NEW lob \in Objects, NEW bad \in Nat
  PROVE  /\ Len(RequestOf(r, n, lob, bad)) = n + 1
         /\ RequestOf(r, n, lob, bad)[1] = [t |-> "head", req |-> r, rows |-> n, lob |-> lob]
         /\ \A i \in 2 .. n + 1 :
              /\ RequestOf(r, n, lob, bad)[i].t # "head"
              /\ i - 1 # bad => RequestOf(r, n, lob, bad)[i].t = "row"
<1>1. PICK h \in TokenType, rs \in Seq(TokenType) :
        /\ RequestOf(r, n, lob, bad) = <<h>> \o rs
        /\ h = [t |-> "head", req |-> r, rows |-> n, lob |-> lob]
        /\ Len(rs) = n
        /\ \A i \in 1 .. n : rs[i].t # "head" /\ (i # bad => rs[i].t = "row")
  BY RequestParts
<1>2. <<h>> \in Seq(TokenType) /\ Len(<<h>>) = 1 /\ <<h>>[1] = h
  OBVIOUS
<1> DEFINE q == <<h>> \o rs
<1>3. /\ Len(q) = 1 + n
      /\ \A i \in 1 .. 1 + n : q[i] = IF i <= 1 THEN <<h>>[i] ELSE rs[i - 1]
  BY <1>1, <1>2, ConcatProperties
<1> HIDE DEF q
<1>4. q[1] = h
  BY <1>2, <1>3
<1>5. ASSUME NEW i \in 2 .. n + 1
      PROVE  q[i].t # "head" /\ (i - 1 # bad => q[i].t = "row")
  <2>1. i \in 1 .. 1 + n /\ ~(i <= 1) /\ i - 1 \in 1 .. n
    OBVIOUS
  <2> QED
    BY <1>1, <1>3, <2>1
<1>6. q = RequestOf(r, n, lob, bad)
  BY <1>1 DEF q
<1> QED
  BY <1>1, <1>3, <1>4, <1>5, <1>6

(* The tokens of a large object. *)
LEMMA PieceTokens ==
  ASSUME NEW r \in Numbers, NEW n \in Nat
  PROVE  LET q == [i \in 1 .. n |-> Token("piece", r)] \o <<Token("stop", r)>>
         IN  /\ q \in Seq(TokenType)
             /\ Len(q) = n + 1 /\ q # <<>>
             /\ q[n + 1].t = "stop"
             /\ \A i \in 1 .. n : q[i].t = "piece"
<1> DEFINE ps == [i \in 1 .. n |-> Token("piece", r)]
           st == <<Token("stop", r)>>
           q  == ps \o st
<1>1. /\ Token("piece", r) \in TokenType /\ Token("stop", r) \in TokenType
      /\ Token("piece", r).t = "piece" /\ Token("stop", r).t = "stop"
  BY TokenTypes DEF Kinds
<1>2. ps \in [1 .. n -> TokenType] /\ \A i \in 1 .. n : ps[i].t = "piece"
  BY <1>1
<1>3. st \in Seq(TokenType) /\ Len(st) = 1 /\ st[1].t = "stop"
  BY <1>1
<1> HIDE DEF ps, st
<1>4. ps \in Seq(TokenType) /\ Len(ps) = n
  BY <1>2, SeqDef, LenProperties
<1>5. /\ q \in Seq(TokenType) /\ Len(q) = n + 1
      /\ \A i \in 1 .. n + 1 : q[i] = IF i <= n THEN ps[i] ELSE st[i - n]
  <2>1. /\ q \in Seq(TokenType) /\ Len(q) = Len(ps) + Len(st)
        /\ \A i \in 1 .. Len(ps) + Len(st) : q[i] = IF i <= Len(ps) THEN ps[i] ELSE st[i - Len(ps)]
    BY <1>3, <1>4, ConcatProperties
  <2> HIDE DEF q
  <2> QED
    BY <1>3, <1>4, <2>1
<1> HIDE DEF q
<1>6. \A i \in 1 .. n : i \in 1 .. n + 1 /\ i <= n
  OBVIOUS
<1>7. n + 1 \in 1 .. n + 1 /\ ~(n + 1 <= n) /\ (n + 1) - n = 1
  OBVIOUS
<1>8. q # <<>>
  BY <1>5, EmptyIffNone
<1>9. /\ q \in Seq(TokenType) /\ Len(q) = n + 1 /\ q # <<>> /\ q[n + 1].t = "stop"
      /\ \A i \in 1 .. n : q[i].t = "piece"
  BY <1>2, <1>3, <1>5, <1>6, <1>7, <1>8
<1> QED
  BY <1>9 DEF q, ps, st

-----------------------------------------------------------------------------
(* Every action keeps the types. *)

LEMMA StmtReq ==
  ASSUME StmtTypes, NEW s \in Stmts
  PROVE  stmts[s].req \in Numbers /\ stmts[s].lob \in Objects /\ stmts[s].piece_mode \in BOOLEAN
BY ArgsAssumption DEF StmtTypes, Objects

LEMMA PrepareTypes ==
  ASSUME StmtTypes, NEW s \in Stmts, NEW lob \in Lobs, Prepare(s, lob)
  PROVE  StmtTypes'
<1>1. stmts' \in [Stmts -> [prepared : BOOLEAN, lob : Lobs \union {"none"},
                            piece_mode : BOOLEAN, req : Numbers]]
  BY ZenonT(60) DEF StmtTypes, Prepare
<1>2. told' \in [Stmts -> {"nothing", "success", "error", "need data"}]
  BY DEF StmtTypes, Prepare
<1> QED
  BY <1>1, <1>2 DEF StmtTypes, Prepare

LEMMA RefusedTypes ==
  ASSUME StmtTypes, NEW s \in Stmts, NEW n, Refused(s, n)
  PROVE  StmtTypes'
<1>1. told' \in [Stmts -> {"nothing", "success", "error", "need data"}]
  BY DEF StmtTypes, Refused
<1> QED
  BY <1>1 DEF StmtTypes, Refused

(* A call begins. *)
LEMMA BeginTypes ==
  ASSUME StmtTypes, NEW by \in Stmts \union {COMMAND},
         NEW path \in {"one", "many", "gives up", "piece", "command"}, NEW r \in Numbers,
         NEW toks \in Seq(TokenType), toks # <<>>, Begin(by, path, r, toks)
  PROVE  /\ CallTypes'
         /\ put' = toks
         /\ told' \in [Stmts -> {"nothing", "success", "error", "need data"}]
         /\ call' = [by |-> by, at |-> "put", path |-> path, req |-> r, asked |-> FALSE]
<1>1. call' = [by |-> by, at |-> "put", path |-> path, req |-> r, asked |-> FALSE] /\ put' = toks
  BY DEF Begin
<1>2. call'.at = "put" /\ call' # NoCall
  <2>1. call'.at = "put"
    BY <1>1
  <2>2. NoCall.at # "put"
    BY NoCallType
  <2> QED
    BY <2>1, <2>2
<1>3. told' \in [Stmts -> {"nothing", "success", "error", "need data"}]
  BY DEF Begin, StmtTypes
<1>4. call' \in [by : Stmts \union {COMMAND, "nobody"},
                 at : {"idle", "put", "flush", "read", "lost"},
                 path : {"none", "one", "many", "gives up", "piece", "command"},
                 req : Numbers, asked : BOOLEAN]
  BY <1>1
<1> QED
  BY <1>1, <1>2, <1>3, <1>4 DEF CallTypes

LEMMA IdleSendsNothing ==
  ASSUME CallTypes
  PROVE  call.at # "put" => put = <<>>
BY DEF CallTypes

(* What a call sends, and who sends it. *)
LEMMA ExecuteFacts ==
  ASSUME StmtTypes, NEW s \in Stmts, NEW n \in Iters, NEW bad \in 0 .. n, Execute(s, n, bad)
  PROVE  /\ n \in Nat \ {0} /\ reqs + 1 \in Reqs /\ reqs \in Nat
         /\ put' = RequestOf(reqs + 1, n, stmts[s].lob, bad)
         /\ put' \in Seq(TokenType)
         /\ call' = [by |-> s, at |-> "put",
                     path |-> CASE n > 1 -> "many" [] bad = 1 -> "gives up" [] OTHER -> "one",
                     req |-> reqs + 1, asked |-> FALSE]
         /\ CallTypes' /\ StmtTypes'
<1>1. n \in Nat \ {0} /\ reqs + 1 \in Reqs /\ reqs \in Nat /\ reqs + 1 \in Numbers
  <2>1. n \in Nat \ {0} /\ MaxReqs \in Nat /\ reqs \in 0 .. MaxReqs /\ reqs < MaxReqs
    BY ArgsAssumption, BoundsAssumption DEF Execute, StmtTypes
  <2> QED
    BY <2>1 DEF Reqs, Numbers
<1> DEFINE path == CASE n > 1 -> "many" [] bad = 1 -> "gives up" [] OTHER -> "one"
           toks == RequestOf(reqs + 1, n, stmts[s].lob, bad)
<1>2. path \in {"one", "many", "gives up", "piece", "command"}
  BY <1>1
<1>3. toks \in Seq(TokenType) /\ toks # <<>>
  <2> DEFINE r == reqs + 1
             lob == stmts[s].lob
  <2>1. r \in Reqs /\ lob \in Objects /\ n \in Nat \ {0} /\ bad \in Nat
    BY <1>1, StmtReq
  <2> HIDE DEF r, lob
  <2>2. RequestOf(r, n, lob, bad) \in Seq(TokenType) /\ RequestOf(r, n, lob, bad) # <<>>
    BY <1>1, <2>1, RequestSeq, Zenon
  <2> QED
    BY <2>2 DEF r, lob
<1>4. Begin(s, path, reqs + 1, toks) /\ reqs' = reqs + 1 /\ mixed' = mixed
      /\ stmts' = [stmts EXCEPT ![s].req = reqs + 1] /\ spoiled' = (spoiled \/ bad # 0)
  BY DEF Execute
<1> HIDE DEF path, toks
<1>5. s \in Stmts \union {COMMAND}
  OBVIOUS
<1>6. /\ CallTypes' /\ put' = toks
      /\ told' \in [Stmts -> {"nothing", "success", "error", "need data"}]
      /\ call' = [by |-> s, at |-> "put", path |-> path, req |-> reqs + 1, asked |-> FALSE]
  BY <1>1, <1>2, <1>3, <1>4, <1>5, BeginTypes
<1>7. stmts' \in [Stmts -> [prepared : BOOLEAN, lob : Lobs \union {"none"},
                            piece_mode : BOOLEAN, req : Numbers]]
  BY <1>1, <1>4, ZenonT(60) DEF StmtTypes
<1>8. reqs' \in 0 .. MaxReqs
  BY <1>1, <1>4 DEF Reqs
<1>9. mixed' \in BOOLEAN /\ spoiled' \in BOOLEAN
  BY <1>4 DEF StmtTypes
<1>10. StmtTypes'
  BY <1>6, <1>7, <1>8, <1>9 DEF StmtTypes
<1> QED
  BY <1>1, <1>3, <1>6, <1>10 DEF path, toks

LEMMA CommandFacts ==
  ASSUME StmtTypes, Command
  PROVE  /\ reqs + 1 \in Reqs /\ reqs \in Nat
         /\ put' = RequestOf(reqs + 1, 1, COMMAND, 0)
         /\ put' \in Seq(TokenType)
         /\ call' = [by |-> COMMAND, at |-> "put", path |-> "command", req |-> reqs + 1,
                     asked |-> FALSE]
         /\ CallTypes' /\ StmtTypes'
<1>1. reqs + 1 \in Reqs /\ reqs \in Nat /\ reqs + 1 \in Numbers
  <2>1. MaxReqs \in Nat /\ reqs \in 0 .. MaxReqs /\ reqs < MaxReqs
    BY BoundsAssumption DEF Command, StmtTypes
  <2> QED
    BY <2>1 DEF Reqs, Numbers
<1> DEFINE toks == RequestOf(reqs + 1, 1, COMMAND, 0)
<1>2. COMMAND \in Objects /\ 1 \in Nat \ {0} /\ 0 \in Nat
  BY DEF Objects
<1>3. toks \in Seq(TokenType) /\ toks # <<>>
  <2> DEFINE r == reqs + 1
  <2>1. r \in Reqs
    BY <1>1
  <2> HIDE DEF r
  <2>2. RequestOf(r, 1, COMMAND, 0) \in Seq(TokenType) /\ RequestOf(r, 1, COMMAND, 0) # <<>>
    BY <1>2, <2>1, RequestSeq, Zenon
  <2> QED
    BY <2>2 DEF r
<1>4. Begin(COMMAND, "command", reqs + 1, toks) /\ reqs' = reqs + 1
      /\ mixed' = mixed /\ stmts' = stmts /\ spoiled' = spoiled
  BY DEF Command
<1> HIDE DEF toks
<1>5. COMMAND \in Stmts \union {COMMAND}
      /\ "command" \in {"one", "many", "gives up", "piece", "command"}
  OBVIOUS
<1>6. /\ CallTypes' /\ put' = toks
      /\ told' \in [Stmts -> {"nothing", "success", "error", "need data"}]
      /\ call' = [by |-> COMMAND, at |-> "put", path |-> "command", req |-> reqs + 1,
                  asked |-> FALSE]
  BY <1>1, <1>3, <1>4, <1>5, BeginTypes
<1>7. reqs' \in 0 .. MaxReqs
  BY <1>1, <1>4 DEF Reqs
<1>8. StmtTypes'
  BY <1>4, <1>6, <1>7 DEF StmtTypes
<1> QED
  BY <1>1, <1>3, <1>6, <1>8 DEF toks

LEMMA PieceFacts ==
  ASSUME StmtTypes, NEW s \in Stmts, ExecutePiece(s)
  PROVE  /\ put' \in Seq(TokenType) /\ Len(put') = 2
         /\ put'[1].t = "piece" /\ put'[2].t = "stop"
         /\ call' = [by |-> s, at |-> "put", path |-> "piece", req |-> stmts[s].req,
                     asked |-> FALSE]
         /\ CallTypes' /\ StmtTypes'
<1> DEFINE r == stmts[s].req
           toks == <<Token("piece", r), Token("stop", r)>>
<1>1. r \in Numbers
  BY StmtReq
<1>2. /\ Token("piece", r) \in TokenType /\ Token("stop", r) \in TokenType
      /\ Token("piece", r).t = "piece" /\ Token("stop", r).t = "stop"
  BY <1>1, TokenTypes DEF Kinds
<1>3. /\ toks \in Seq(TokenType) /\ Len(toks) = 2 /\ toks # <<>>
      /\ toks[1].t = "piece" /\ toks[2].t = "stop"
  BY <1>2
<1>4. Begin(s, "piece", r, toks) /\ reqs' = reqs
      /\ mixed' = mixed /\ stmts' = stmts /\ spoiled' = spoiled
  BY DEF ExecutePiece
<1> HIDE DEF toks, r
<1>5. s \in Stmts \union {COMMAND} /\ "piece" \in {"one", "many", "gives up", "piece", "command"}
  OBVIOUS
<1>6. /\ CallTypes' /\ put' = toks
      /\ told' \in [Stmts -> {"nothing", "success", "error", "need data"}]
      /\ call' = [by |-> s, at |-> "put", path |-> "piece", req |-> r, asked |-> FALSE]
  BY <1>1, <1>3, <1>4, <1>5, BeginTypes
<1>7. StmtTypes'
  BY <1>4, <1>6 DEF StmtTypes
<1> QED
  BY <1>3, <1>6, <1>7 DEF r

-----------------------------------------------------------------------------
(* Sending, on the line. *)

LEMMA LineNow ==
  ASSUME WireTypes
  PROVE  /\ Line \in Seq(TokenType) /\ sbuff \o put \in Seq(TokenType)
         /\ Line = up \o (sbuff \o put)
         /\ put = <<>> => Line = up \o sbuff
         /\ up = <<>> => Line = sbuff \o put
         /\ put = <<>> /\ up = <<>> => Line = sbuff
<1>1. up \in Seq(TokenType) /\ sbuff \in Seq(TokenType) /\ put \in Seq(TokenType)
  BY DEF WireTypes
<1>2. /\ sbuff \o put \in Seq(TokenType) /\ (up \o sbuff) \o put \in Seq(TokenType)
      /\ (up \o sbuff) \o put = up \o (sbuff \o put)
      /\ (up \o sbuff) \o <<>> = up \o sbuff
      /\ (<<>> \o sbuff) \o put = sbuff \o put
      /\ (<<>> \o sbuff) \o <<>> = sbuff
  <2>1. up \o sbuff \in Seq(TokenType) /\ sbuff \o put \in Seq(TokenType)
    BY <1>1, ConcatProperties
  <2>2. (up \o sbuff) \o put \in Seq(TokenType)
    BY <1>1, <2>1, ConcatProperties
  <2>3. (up \o sbuff) \o put = up \o (sbuff \o put)
    BY <1>1, Regroup, Zenon
  <2>4. /\ (up \o sbuff) \o <<>> = up \o sbuff /\ <<>> \o sbuff = sbuff /\ sbuff \o <<>> = sbuff
    BY <1>1, <2>1, ConcatEmptySeq
  <2> QED
    BY <2>1, <2>2, <2>3, <2>4
<1>3. Line = (up \o sbuff) \o put
  BY DEF Line
<1>4. /\ put = <<>> => Line = up \o sbuff
      /\ up = <<>> => Line = sbuff \o put
      /\ put = <<>> /\ up = <<>> => Line = sbuff
  BY <1>2, <1>3, Zenon
<1> QED
  BY <1>2, <1>3, <1>4

(* The line after a step with given ends. *)
LEMMA LineNext ==
  ASSUME NEW u \in Seq(TokenType), NEW s \in Seq(TokenType), NEW p \in Seq(TokenType),
         up' = u, sbuff' = s, put' = p
  PROVE  /\ Line' \in Seq(TokenType)
         /\ Line' = u \o (s \o p)
         /\ p = <<>> => Line' = u \o s
         /\ u = <<>> => Line' = s \o p
         /\ u = <<>> /\ p = <<>> => Line' = s
<1>1. Line' = (u \o s) \o p
  BY DEF Line
<1>2. /\ (u \o s) \o p \in Seq(TokenType)
      /\ (u \o s) \o p = u \o (s \o p)
      /\ (u \o s) \o <<>> = u \o s
      /\ (<<>> \o s) \o p = s \o p
      /\ (<<>> \o s) \o <<>> = s
  <2>1. u \o s \in Seq(TokenType) /\ s \o p \in Seq(TokenType)
    BY ConcatProperties
  <2>2. (u \o s) \o p \in Seq(TokenType)
    BY <2>1, ConcatProperties
  <2>3. (u \o s) \o p = u \o (s \o p)
    BY Regroup, Zenon
  <2>4. /\ (u \o s) \o <<>> = u \o s /\ <<>> \o s = s /\ s \o <<>> = s
    BY <2>1, ConcatEmptySeq
  <2> QED
    BY <2>1, <2>2, <2>3, <2>4
<1>3. /\ p = <<>> => Line' = u \o s
      /\ u = <<>> => Line' = s \o p
      /\ u = <<>> /\ p = <<>> => Line' = s
  BY <1>1, <1>2, Zenon
<1> QED
  BY <1>1, <1>2, <1>3

LEMMA PutLine ==
  ASSUME CallTypes, WireTypes, Put
  PROVE  /\ up' \in Seq(TokenType) /\ sbuff' \in Seq(TokenType) /\ put' = <<>>
         /\ linked => Line' = Line
         /\ ~linked => up' = up /\ (up = <<>> => Within(Line', Line))
<1> DEFINE all == sbuff \o put
           k0  == IF all[Len(all)].t = "stop" THEN Len(all) - 1 ELSE Len(all)
<1>1. all \in Seq(TokenType) /\ Len(all) \in Nat /\ Line = up \o all /\ (up = <<>> => Line = all)
  BY LineNow, LenProperties
<1>2. Len(all) > 0
  <2>1. put # <<>> /\ put \in Seq(TokenType) /\ sbuff \in Seq(TokenType)
    BY DEF Put, CallTypes, WireTypes
  <2>2. all # <<>>
    BY <2>1, ConcatEqualIffEmpty
  <2> QED
    BY <1>1, <2>2, EmptyIffNone
<1>3. /\ \E k \in 0 .. k0 : sbuff' = From(all, k + 1) /\ up' = Outgoing(SubSeq(all, 1, k))
      /\ put' = <<>>
  BY DEF Put
<1>4. k0 \in Nat /\ k0 <= Len(all)
  BY <1>1, <1>2
<1> HIDE DEF k0
<1>5. PICK k \in 0 .. Len(all) :
        /\ sbuff' = SubSeq(all, k + 1, Len(all))
        /\ up' = IF linked THEN up \o SubSeq(all, 1, k) ELSE up
  <2>1. PICK k \in 0 .. k0 : sbuff' = From(all, k + 1) /\ up' = Outgoing(SubSeq(all, 1, k))
    BY <1>3
  <2>2. k \in 0 .. Len(all)
    BY <1>1, <1>4
  <2>3. /\ sbuff' = SubSeq(all, k + 1, Len(all))
        /\ up' = IF linked THEN up \o SubSeq(all, 1, k) ELSE up
    BY <2>1, Zenon DEF From, Outgoing
  <2> QED
    BY <2>2, <2>3
<1>6. k + 1 \in 1 .. Len(all) + 1 /\ 1 \in 1 .. Len(all) + 1 /\ Len(all) \in 0 .. Len(all)
  BY <1>1
<1> DEFINE x == SubSeq(all, 1, k)
           y == SubSeq(all, k + 1, Len(all))
<1>7. x \in Seq(TokenType) /\ y \in Seq(TokenType) /\ Within(y, all)
  BY <1>1, <1>6, WithinSubSeq
<1>8. up \in Seq(TokenType) /\ <<>> \in Seq(TokenType)
  BY EmptySeq DEF WireTypes
<1>9. (up \o x) \o y = up \o all
  BY <1>1, <1>8, MoveAlong
<1>10. up' = (IF linked THEN up \o x ELSE up) /\ sbuff' = y
  BY <1>5
<1> HIDE DEF x, y, all
<1>11. up \o x \in Seq(TokenType)
  BY <1>7, <1>8, ConcatProperties
<1>12. CASE linked
  <2>1. up' = up \o x
    BY <1>10, <1>12
  <2>2. Line' = (up \o x) \o y
    BY <1>3, <1>7, <1>8, <1>10, <1>11, <2>1, LineNext
  <2> QED
    BY <1>1, <1>3, <1>7, <1>9, <1>10, <1>11, <1>12, <2>1, <2>2
<1>13. CASE ~linked
  <2>1. up' = up
    BY <1>10, <1>13
  <2>2. up = <<>> => Line' = y
    BY <1>3, <1>7, <1>8, <1>10, <2>1, LineNext
  <2> QED
    BY <1>1, <1>3, <1>7, <1>8, <1>10, <1>13, <2>1, <2>2
<1> QED
  BY <1>12, <1>13

LEMMA FlushLine ==
  ASSUME CallTypes, WireTypes, Flush
  PROVE  /\ up' \in Seq(TokenType) /\ sbuff' = <<>> /\ put = <<>> /\ put' = <<>>
         /\ linked => up' = up \o sbuff /\ Line' = Line
         /\ ~linked => up' = up /\ (up = <<>> => Within(Line', Line))
<1>1. /\ sbuff' = <<>> /\ up' = (IF linked THEN up \o sbuff ELSE up) /\ put' = put
      /\ put = <<>>
  BY IdleSendsNothing DEF Flush, Flushed, Outgoing
<1>2. up \in Seq(TokenType) /\ sbuff \in Seq(TokenType) /\ <<>> \in Seq(TokenType)
  BY EmptySeq DEF WireTypes
<1>3. up \o sbuff \in Seq(TokenType)
  BY <1>2, ConcatProperties
<1>4. Line = up \o sbuff /\ Line \in Seq(TokenType)
  BY <1>1, LineNow
<1>5. CASE linked
  <2>1. up' = up \o sbuff
    BY <1>1, <1>5
  <2>2. Line' = (up \o sbuff) \o (<<>> \o <<>>)
    BY <1>1, <1>2, <1>3, <2>1, LineNext
  <2>3. Line' = up \o sbuff
    BY <1>2, <1>3, <2>2, ConcatEmptySeq
  <2> QED
    BY <1>1, <1>3, <1>4, <1>5, <2>1, <2>3
<1>6. CASE ~linked
  <2>1. up' = up
    BY <1>1, <1>6
  <2>2. up = <<>> => Line' = <<>>
    BY <1>1, <1>2, <2>1, LineNext
  <2> QED
    BY <1>1, <1>2, <1>4, <1>6, <2>1, <2>2, WithinEmpty
<1> QED
  BY <1>5, <1>6

LEMMA BreakLine ==
  ASSUME WireTypes, Break
  PROVE  /\ up' = <<>> /\ sbuff' = sbuff /\ put' = put
         /\ down' \in Seq(AnswerType)
         /\ Line' \in Seq(TokenType) /\ Within(Line', Line)
<1>1. up' = <<>> /\ sbuff' = sbuff /\ put' = put
      /\ \E k \in 0 .. Len(down) : down' = SubSeq(down, 1, k)
  BY DEF Break
<1>2. /\ up \in Seq(TokenType) /\ sbuff \in Seq(TokenType) /\ put \in Seq(TokenType)
      /\ <<>> \in Seq(TokenType) /\ down \in Seq(AnswerType)
  BY EmptySeq DEF WireTypes
<1>3. Line' = sbuff \o put
  BY <1>1, <1>2, LineNext
<1>4. Line = up \o (sbuff \o put) /\ sbuff \o put \in Seq(TokenType)
  BY LineNow
<1>5. Within(Line', Line)
  BY <1>2, <1>3, <1>4, WithinConcat
<1>6. PICK k \in 0 .. Len(down) : down' = SubSeq(down, 1, k)
  BY <1>1
<1>7. Len(down) \in Nat /\ 1 \in 1 .. Len(down) + 1
  BY <1>2, LenProperties
<1>8. SubSeq(down, 1, k) \in Seq(AnswerType)
  BY <1>2, <1>7, WithinSubSeq
<1> QED
  BY <1>1, <1>3, <1>4, <1>5, <1>6, <1>8

(* What a failed send may leave: a stretch of what was in sbuff.           *)
LEMMA LeftLine ==
  ASSUME WireTypes, CallTypes, Sent, Numbered(sbuff \o put, reqs), NEW q \in LeftBySend
  PROVE  q \in Seq(TokenType) /\ Numbered(q, reqs)
<1> DEFINE all == (delivered \o sbuff) \o put
           whole == Stretches(all)
<1>1. all \in Seq(TokenType) /\ Numbered(all, reqs)
  <2>1. /\ delivered \in Seq(TokenType) /\ sbuff \in Seq(TokenType) /\ put \in Seq(TokenType)
        /\ Numbered(delivered, reqs) /\ sbuff \o put \in Seq(TokenType)
    BY LineNow DEF WireTypes, Sent
  <2>2. delivered \o (sbuff \o put) \in Seq(TokenType) /\ Numbered(delivered \o (sbuff \o put), reqs)
    BY <2>1, NumberedConcat
  <2>3. (delivered \o sbuff) \o put = delivered \o (sbuff \o put)
    BY <2>1, Regroup, Zenon
  <2> QED
    BY <2>2, <2>3
<1>2. q = <<>> \/ q \in whole \/ q \in {p \o <<Token("part", call.req)>> : p \in whole}
  <2> DEFINE X == {p \o <<Token("part", call.req)>> : p \in whole}
  <2>1. LeftBySend = {<<>>} \union whole \union X
    BY DEF LeftBySend
  <2> HIDE DEF X, whole, all
  <2>2. q = <<>> \/ q \in whole \/ q \in X
    BY <2>1
  <2> QED
    BY <2>2 DEF X
<1> HIDE DEF all
<1>3. \A p \in whole : p \in Seq(TokenType) /\ Numbered(p, reqs)
  <2> SUFFICES ASSUME NEW p \in whole PROVE p \in Seq(TokenType) /\ Numbered(p, reqs)
    OBVIOUS
  <2>4. PICK j \in 1 .. Len(all), m \in 0 .. Len(all) - 1 : p = SubSeq(all, j, m)
    BY SMTT(40) DEF Stretches
  <2>1. Len(all) \in Nat
    BY <1>1, LenProperties
  <2>2. j \in 1 .. Len(all) + 1 /\ m \in 0 .. Len(all)
    BY <2>1
  <2>3. SubSeq(all, j, m) \in Seq(TokenType) /\ Within(SubSeq(all, j, m), all)
    BY <1>1, <2>2, WithinSubSeq
  <2>5. Numbered(SubSeq(all, j, m), reqs)
    BY <1>1, <2>3, NumberedWithin
  <2> QED
    BY <2>3, <2>4, <2>5
<1> HIDE DEF whole
<1>4. CASE q = <<>>
  <2>1. 1 .. Len(q) = {} /\ q \in Seq(TokenType)
    BY <1>4, EmptySeq
  <2> QED
    BY <2>1 DEF Numbered
<1>5. CASE q \in whole
  BY <1>3, <1>5
<1>6. CASE q \in {p \o <<Token("part", call.req)>> : p \in whole}
  <2> DEFINE e == <<Token("part", call.req)>>
  <2>1. PICK p \in whole : q = p \o e
    BY <1>6
  <2>2. call.req \in Numbers /\ "part" \in Kinds
    BY DEF CallTypes, Kinds
  <2>3. Token("part", call.req) \in TokenType /\ Token("part", call.req).t = "part"
    BY <2>2, TokenTypes
  <2>4. e \in Seq(TokenType) /\ \A i \in 1 .. Len(e) : e[i].t # "head"
    BY <2>3
  <2> HIDE DEF e
  <2>5. Numbered(e, reqs)
    BY <2>4 DEF Numbered
  <2> QED
    BY <1>3, <2>1, <2>4, <2>5, NumberedConcat
<1> QED
  BY <1>2, <1>4, <1>5, <1>6

(* The foremost token goes from sbuff, or from what is being put, to up.   *)
LEMMA FrontMoves ==
  ASSUME NEW a \in Seq(TokenType), NEW q \in Seq(TokenType), q # <<>>
  PROVE  /\ q[1] \in TokenType /\ <<q[1]>> \in Seq(TokenType) /\ Tail(q) \in Seq(TokenType)
         /\ <<q[1]>> \o Tail(q) = q /\ (a \o <<q[1]>>) \o Tail(q) = a \o q
<1>1. 1 \in 1 .. Len(q) /\ Len(q) \in 1 .. Len(q) /\ Tail(q) \in Seq(TokenType)
  BY EmptyIffNone, HeadTailProperties
<1>2. q[1] \in TokenType
  BY <1>1, ElementOfSeq
<1>3. <<q[1]>> \in Seq(TokenType)
  BY <1>2
<1>4. SubSeq(q, 1, Len(q)) = <<q[1]>> \o SubSeq(q, 1 + 1, Len(q))
  BY <1>1, SubSeqRecursiveFirst
<1>5. Tail(q) = SubSeq(q, 2, Len(q)) /\ SubSeq(q, 1, Len(q)) = q /\ 1 + 1 = 2
  BY TailIsSubSeq, SubSeqFull
<1>6. <<q[1]>> \o Tail(q) = q
  BY <1>4, <1>5
<1>7. (a \o <<q[1]>>) \o Tail(q) = a \o (<<q[1]>> \o Tail(q))
  BY <1>1, <1>3, ConcatAssociative
<1> QED
  BY <1>1, <1>2, <1>3, <1>6, <1>7

LEMMA SendMoves ==
  ASSUME CallTypes, WireTypes, SendSome
  PROVE  \E tok \in TokenType :
           /\ delivered' = Append(delivered, tok) /\ up' = Outgoing(<<tok>>)
           /\ sbuff' \in Seq(TokenType) /\ put' \in Seq(TokenType)
           /\ <<tok>> \o (sbuff' \o put') = sbuff \o put
           /\ put' = <<>> <=> put = <<>>
<1>1. sbuff \in Seq(TokenType) /\ put \in Seq(TokenType) /\ <<>> \in Seq(TokenType)
  BY EmptySeq DEF WireTypes
<1>2. CASE /\ sbuff = <<>> /\ Len(put) > 1
           /\ delivered' = Append(delivered, put[1]) /\ up' = Outgoing(<<put[1]>>)
           /\ put' = Tail(put) /\ UNCHANGED sbuff
  <2>1. put # <<>> /\ Len(put) \in Nat
    BY <1>1, <1>2, EmptyIffNone, LenProperties
  <2>2. put[1] \in TokenType /\ Tail(put) \in Seq(TokenType) /\ <<put[1]>> \o Tail(put) = put
    BY <1>1, <2>1, FrontMoves
  <2>3. Tail(put) # <<>>
    <3>1. Len(Tail(put)) = Len(put) - 1
      BY <1>1, <2>1, HeadTailProperties
    <3> QED
      BY <1>2, <2>1, <2>2, <3>1, EmptyIffNone
  <2>4. <<>> \o Tail(put) = Tail(put) /\ <<>> \o put = put
    BY <1>1, <2>2, ConcatEmptySeq
  <2>5. sbuff' \o put' = Tail(put) /\ sbuff \o put = put /\ put' # <<>>
    BY <1>2, <2>3, <2>4
  <2> QED
    BY <1>1, <1>2, <2>1, <2>2, <2>5
<1>3. CASE /\ sbuff # <<>>
           /\ delivered' = Append(delivered, sbuff[1]) /\ up' = Outgoing(<<sbuff[1]>>)
           /\ sbuff' = Tail(sbuff) /\ UNCHANGED put
  <2> DEFINE e == <<sbuff[1]>>
             r == Tail(sbuff)
  <2>1. sbuff[1] \in TokenType /\ e \in Seq(TokenType) /\ r \in Seq(TokenType) /\ e \o r = sbuff
    BY <1>1, <1>3, FrontMoves
  <2> HIDE DEF e, r
  <2>2. (e \o r) \o put = e \o (r \o put)
    BY <1>1, <2>1, Regroup, Zenon
  <2>3. e \o (sbuff' \o put') = sbuff \o put
    BY <1>3, <2>1, <2>2 DEF r
  <2> QED
    BY <1>1, <1>3, <2>1, <2>3 DEF e, r
<1> QED
  BY <1>2, <1>3 DEF SendSome

LEMMA WithinFront ==
  ASSUME NEW S, NEW p \in Seq(S), NEW q \in Seq(S)
  PROVE  Within(p, p \o q)
<1>1. /\ Len(p) \in Nat /\ Len(q) \in Nat /\ Len(p \o q) = Len(p) + Len(q)
      /\ \A i \in 1 .. Len(p) + Len(q) :
           (p \o q)[i] = IF i <= Len(p) THEN p[i] ELSE q[i - Len(p)]
  BY LenProperties, ConcatProperties
<1> DEFINE r == p \o q
<1>2. \A i \in 1 .. Len(p) : p[i] = r[i + 0]
  BY <1>1
<1>3. Len(p) + 0 <= Len(r) /\ 0 \in Nat
  BY <1>1
<1> HIDE DEF r
<1>4. Within(p, r)
  BY <1>2, <1>3 DEF Within
<1> QED
  BY <1>4 DEF r

LEMMA SendLine ==
  ASSUME CallTypes, WireTypes, SendSome
  PROVE  /\ up' \in Seq(TokenType) /\ sbuff' \in Seq(TokenType) /\ put' \in Seq(TokenType)
         /\ put' = <<>> <=> put = <<>>
         /\ linked => Line' = Line
         /\ ~linked => up' = up /\ (up = <<>> => Within(Line', Line))
         /\ \E tok \in TokenType : /\ delivered' = Append(delivered, tok)
                                   /\ Within(<<tok>>, sbuff \o put)
<1>1. PICK tok \in TokenType :
           /\ delivered' = Append(delivered, tok) /\ up' = Outgoing(<<tok>>)
           /\ sbuff' \in Seq(TokenType) /\ put' \in Seq(TokenType)
           /\ <<tok>> \o (sbuff' \o put') = sbuff \o put
           /\ put' = <<>> <=> put = <<>>
  BY SendMoves
<1> DEFINE e == <<tok>>
           p == put'
           s == sbuff'
           r == s \o p
<1>2. /\ up \in Seq(TokenType) /\ e \in Seq(TokenType) /\ <<>> \in Seq(TokenType)
      /\ p \in Seq(TokenType) /\ s \in Seq(TokenType) /\ sbuff' = s /\ put' = p
  BY <1>1, EmptySeq DEF WireTypes
<1>3. r \in Seq(TokenType)
  BY <1>2, ConcatProperties
<1>4. Line = up \o (sbuff \o put) /\ (up = <<>> => Line = sbuff \o put) /\ Line \in Seq(TokenType)
  BY LineNow
<1>5. e \o r = sbuff \o put
  BY <1>1
<1>6. up' = IF linked THEN up \o e ELSE up
  BY <1>1, Zenon DEF Outgoing
<1>7. up \o e \in Seq(TokenType)
  <2> HIDE DEF e
  <2> QED
    BY <1>2, ConcatProperties
<1>8. Within(e, sbuff \o put)
  <2> HIDE DEF e, r
  <2> QED
    BY <1>2, <1>3, <1>5, WithinFront
<1> HIDE DEF e, p, s
<1>9. CASE linked
  <2> DEFINE u == up \o e
  <2>1. up' = u /\ u \in Seq(TokenType)
    BY <1>6, <1>7, <1>9
  <2>2. u \o r = up \o (e \o r)
    <3> HIDE DEF r
    <3> QED
      BY <1>2, <1>3, Regroup, ZenonT(60)
  <2> HIDE DEF u
  <2>3. Line' = u \o r
    BY <1>2, <2>1, LineNext
  <2>4. Line' = Line
    BY <1>4, <1>5, <2>2, <2>3
  <2> QED
    BY <1>1, <1>2, <1>8, <1>9, <2>1, <2>4 DEF e, p, s
<1>10. CASE ~linked
  <2>1. up' = up
    BY <1>6, <1>10
  <2>2. up = <<>> => Line' = r
    BY <1>2, <2>1, LineNext
  <2>3. Within(r, e \o r)
    <3> HIDE DEF r
    <3> QED
      BY <1>2, <1>3, WithinConcat
  <2>4. up = <<>> => Within(Line', Line)
    BY <1>4, <1>5, <2>2, <2>3
  <2> QED
    BY <1>1, <1>2, <1>8, <1>10, <2>1, <2>4 DEF e, p, s
<1> QED
  BY <1>9, <1>10

-----------------------------------------------------------------------------
(* What holds on any connection. *)

LEMMA AlwaysParts ==
  Always <=> /\ SessionTypes /\ StmtTypes /\ CallTypes /\ WireTypes
             /\ Announced /\ Cut /\ OnePlace
BY TypeParts DEF Always

LEMMA AlwaysPartsNext ==
  Always' <=> /\ SessionTypes' /\ StmtTypes' /\ CallTypes' /\ WireTypes'
              /\ Announced' /\ Cut' /\ OnePlace'
BY AlwaysParts, PTL

LEMMA WaitingZero ==
  ASSUME NEW q, NEW n \in Nat, NEW f, NEW x, NEW K, Waiting(q, n, f, x, K)
  PROVE  Waiting(q, n, f, 0, K)
<1>1. 0 \notin 1 .. n
  OBVIOUS
<1> QED
  BY <1>1 DEF Waiting, Numbered

(* The server and what it has run stay as they are. *)
LEMMA KeepServer ==
  ASSUME Always, SessionTypes', StmtTypes', CallTypes', WireTypes', Cut',
         srv' = srv, ran' = ran, kept' = kept, reqs <= reqs',
         Waiting(Line', reqs', ran, srv.req, kept)
  PROVE  Always'
<1>1. /\ reqs \in Nat /\ reqs' \in Nat
  <2>1. reqs \in 0 .. MaxReqs /\ reqs' \in 0 .. MaxReqs
    BY AlwaysParts DEF StmtTypes
  <2> QED
    BY <2>1, BoundsAssumption
<1>2. Announced'
  BY DEF Always, Announced
<1>3. OnePlace'
  <2>1. /\ srv.req # 0 => srv.req \in 1 .. reqs /\ (srv.req \notin kept => ran[srv.req] = 0)
        /\ srv.mode = "request" => srv.req = 0
        /\ srv.mode \in {"rows", "run", "stream"} => srv.req # 0
        /\ \A r \in Reqs : (r \notin kept => ran[r] <= 1) /\ (r > reqs => ran[r] = 0)
    BY DEF Always, OnePlace
  <2>2. \A r \in Reqs : r > reqs' => r > reqs
    BY <1>1 DEF Reqs
  <2>3. srv.req \in 1 .. reqs => srv.req \in 1 .. reqs'
    BY <1>1
  <2>4. Waiting(Line', reqs', ran', srv'.req, kept')
    OBVIOUS
  <2> QED
    BY <2>1, <2>2, <2>3, <2>4 DEF OnePlace
<1> QED
  BY <1>2, <1>3, AlwaysPartsNext

(* The server's session ends, or a new one begins. *)
LEMMA NewServer ==
  ASSUME Always, SessionTypes', StmtTypes', CallTypes', WireTypes', up' = <<>>,
         srv' = Fresh, ran' = ran, reqs' = reqs, kept \subseteq kept',
         Waiting(Line', reqs, ran, 0, kept')
  PROVE  Always'
<1>1. Fresh.mode = "request" /\ Fresh.req = 0
  BY DEF Fresh
<1>2. Announced' /\ Cut'
  BY <1>1 DEF Announced, Cut
<1>3. OnePlace'
  <2>1. \A r \in Reqs : (r \notin kept => ran[r] <= 1) /\ (r > reqs => ran[r] = 0)
    BY DEF Always, OnePlace
  <2>2. Waiting(Line', reqs', ran', srv'.req, kept')
    BY <1>1
  <2> QED
    BY <1>1, <2>1, <2>2 DEF OnePlace
<1> QED
  BY <1>2, <1>3, AlwaysPartsNext

LEMMA KeepSession ==
  ASSUME SessionTypes, UNCHANGED <<linked, breaks, srv, ran, kept>>
  PROVE  SessionTypes'
BY DEF SessionTypes, Bounded

(* An action that moves no token and leaves the server alone. *)
LEMMA KeepLine ==
  ASSUME Always, UNCHANGED <<put, sbuff, up, linked, breaks, srv, ran, kept, reqs>>,
         StmtTypes', CallTypes', WireTypes'
  PROVE  Always'
<1>1. SessionTypes /\ StmtTypes /\ Cut /\ OnePlace
  BY AlwaysParts
<1>2. SessionTypes' /\ Cut'
  BY <1>1, KeepSession DEF Cut
<1>3. Line' = Line
  BY DEF Line
<1>4. Waiting(Line', reqs', ran, srv.req, kept)
  BY <1>1, <1>3 DEF OnePlace
<1>5. reqs <= reqs'
  <2>1. reqs \in 0 .. MaxReqs /\ reqs' \in 0 .. MaxReqs
    BY <1>1 DEF StmtTypes
  <2> QED
    BY <2>1, BoundsAssumption
<1> QED
  BY <1>2, <1>4, <1>5, KeepServer

(* A call, or a callback, puts tokens behind the others. *)
LEMMA KeepAll ==
  ASSUME Always, UNCHANGED <<sbuff, up, linked, breaks, srv, ran, kept>>, put = <<>>,
         put' \in Seq(TokenType), StmtTypes', CallTypes', WireTypes', reqs <= reqs',
         \A i \in 1 .. Len(put') : put'[i].t = "head" =>
            /\ i = 1 /\ put'[i].req = reqs + 1 /\ reqs' = reqs + 1 /\ reqs + 1 \in Reqs
            /\ put'[i].rows > 0 /\ Bounded(put'[i].rows)
  PROVE  Always' /\ Line' = Line \o put' /\ Line \in Seq(TokenType)
<1>1. SessionTypes /\ StmtTypes /\ WireTypes /\ Cut /\ OnePlace
  BY AlwaysParts
<1>2. SessionTypes' /\ Cut'
  BY <1>1, KeepSession DEF Cut
<1>3. /\ up \in Seq(TokenType) /\ sbuff \in Seq(TokenType)
      /\ Line = up \o sbuff /\ Line \in Seq(TokenType)
  BY <1>1, LineNow DEF WireTypes
<1>4. Line' = Line \o put'
  BY <1>3 DEF Line
<1>5. reqs \in Nat /\ reqs' \in Nat
  <2>1. reqs \in 0 .. MaxReqs /\ reqs' \in 0 .. MaxReqs
    BY <1>1 DEF StmtTypes
  <2> QED
    BY <2>1, BoundsAssumption
<1>6. Waiting(Line, reqs, ran, srv.req, kept)
  BY <1>1 DEF OnePlace
<1>7. /\ \A r \in Reqs : r > reqs => ran[r] = 0
      /\ srv.req # 0 => srv.req \in 1 .. reqs
  BY <1>1 DEF OnePlace
<1>8. \A i \in 1 .. Len(put') : put'[i].t = "head" =>
            /\ i = 1 /\ put'[i].req = reqs + 1 /\ reqs' = reqs + 1 /\ ran[reqs + 1] = 0
            /\ srv.req # reqs + 1 /\ put'[i].rows > 0 /\ Bounded(put'[i].rows)
  BY <1>5, <1>7
<1> DEFINE toks == put'
           m == reqs'
<1>9. /\ toks \in Seq(TokenType) /\ m \in Nat /\ reqs <= m
      /\ \A i \in 1 .. Len(toks) : toks[i].t = "head" =>
            /\ i = 1 /\ toks[i].req = reqs + 1 /\ m = reqs + 1 /\ ran[reqs + 1] = 0
            /\ srv.req # reqs + 1 /\ toks[i].rows > 0 /\ Bounded(toks[i].rows)
  BY <1>5, <1>8
<1> HIDE DEF toks, m
<1>10. Waiting(Line \o toks, m, ran, srv.req, kept)
  BY <1>3, <1>5, <1>6, <1>9, WaitingConcat
<1>11. Waiting(Line', reqs', ran, srv.req, kept)
  BY <1>4, <1>10 DEF toks, m
<1> QED
  BY <1>2, <1>3, <1>4, <1>11, KeepServer

-----------------------------------------------------------------------------
(* Calls. *)

LEMMA Idle ==
  ASSUME Always, ~Busy
  PROVE  call = NoCall /\ put = <<>>
<1>1. CallTypes
  BY AlwaysParts
<1> QED
  BY <1>1 DEF CallTypes, Busy

LEMMA KeepCall ==
  ASSUME CallTypes, UNCHANGED <<call, put>>
  PROVE  CallTypes'
BY DEF CallTypes

LEMMA KeepWire ==
  ASSUME WireTypes, UNCHANGED <<up, sbuff, put, down>>
  PROVE  WireTypes'
BY DEF WireTypes

LEMMA PrepareAlways ==
  ASSUME Always, NEW s \in Stmts, NEW lob \in Lobs, Prepare(s, lob)
  PROVE  Always'
<1>1. StmtTypes /\ CallTypes /\ WireTypes
  BY AlwaysParts
<1>2. UNCHANGED <<call, put, sbuff, linked, breaks, up, down, srv, ran, kept, reqs>>
  BY DEF Prepare
<1>3. StmtTypes' /\ CallTypes' /\ WireTypes'
  BY <1>1, <1>2, PrepareTypes, KeepCall, KeepWire
<1> QED
  BY <1>2, <1>3, KeepLine

LEMMA RefusedAlways ==
  ASSUME Always, NEW s \in Stmts, NEW n, Refused(s, n)
  PROVE  Always'
<1>1. StmtTypes /\ CallTypes /\ WireTypes
  BY AlwaysParts
<1>2. UNCHANGED <<call, put, sbuff, linked, breaks, up, down, srv, ran, kept, reqs>>
  BY DEF Refused
<1>3. StmtTypes' /\ CallTypes' /\ WireTypes'
  BY <1>1, <1>2, RefusedTypes, KeepCall, KeepWire
<1> QED
  BY <1>2, <1>3, KeepLine

LEMMA BoundedIters ==
  ASSUME NEW n \in Iters
  PROVE  Bounded(n) /\ Bounded(1) /\ n \in Nat \ {0}
BY ArgsAssumption DEF Bounded

LEMMA BoundedOne == Bounded(1)
BY ArgsAssumption DEF Bounded

LEMMA ExecuteAlways ==
  ASSUME Always, NEW s \in Stmts, NEW n \in Iters, NEW bad \in 0 .. n, Execute(s, n, bad)
  PROVE  /\ Always' /\ Line' = Line \o put' /\ Line \in Seq(TokenType)
         /\ Len(put') = n + 1 /\ put' \in Seq(TokenType)
         /\ put'[1] = [t |-> "head", req |-> reqs + 1, rows |-> n, lob |-> stmts[s].lob]
         /\ \A i \in 2 .. n + 1 : i - 1 # bad => put'[i].t = "row"
<1>1. StmtTypes /\ CallTypes /\ WireTypes
  BY AlwaysParts
<1>2. /\ n \in Nat \ {0} /\ reqs + 1 \in Reqs /\ reqs \in Nat
      /\ put' = RequestOf(reqs + 1, n, stmts[s].lob, bad)
      /\ put' \in Seq(TokenType) /\ CallTypes' /\ StmtTypes'
  BY <1>1, ExecuteFacts
<1>3. /\ UNCHANGED <<sbuff, up, down, linked, breaks, srv, ran, kept>> /\ reqs' = reqs + 1 /\ ~Busy
  BY DEF Execute, MayBegin
<1>4. put = <<>>
  BY <1>3, Idle
<1>5. WireTypes'
  BY <1>1, <1>2, <1>3 DEF WireTypes
<1> DEFINE toks == put'
           r == reqs + 1
           lob == stmts[s].lob
<1>6. /\ r \in Reqs /\ lob \in Objects /\ bad \in Nat /\ toks = RequestOf(r, n, lob, bad)
  BY <1>1, <1>2, StmtReq
<1> HIDE DEF toks, r, lob
<1>7. /\ Len(toks) = n + 1
      /\ toks[1] = [t |-> "head", req |-> r, rows |-> n, lob |-> lob]
      /\ \A i \in 2 .. n + 1 : toks[i].t # "head" /\ (i - 1 # bad => toks[i].t = "row")
  BY <1>2, <1>6, RequestTokens
<1>8. n > 0 /\ Bounded(n)
  BY <1>2, BoundedIters
<1>9. \A i \in 1 .. Len(toks) : toks[i].t = "head" =>
        i = 1 /\ toks[i].req = r /\ toks[i].rows > 0 /\ Bounded(toks[i].rows)
  <2>1. \A i \in 1 .. n + 1 : i = 1 \/ i \in 2 .. n + 1
    BY <1>2
  <2>2. toks[1].req = r /\ toks[1].rows = n
    BY <1>7
  <2> QED
    BY <1>7, <1>8, <2>1, <2>2
<1>10. \A i \in 1 .. Len(put') : put'[i].t = "head" =>
            /\ i = 1 /\ put'[i].req = reqs + 1 /\ reqs' = reqs + 1 /\ reqs + 1 \in Reqs
            /\ put'[i].rows > 0 /\ Bounded(put'[i].rows)
  BY <1>2, <1>3, <1>9 DEF toks, r
<1>11. reqs <= reqs'
  BY <1>2, <1>3
<1>12. Always' /\ Line' = Line \o put' /\ Line \in Seq(TokenType)
  BY <1>2, <1>3, <1>4, <1>5, <1>10, <1>11, KeepAll
<1> QED
  BY <1>2, <1>7, <1>12 DEF toks, r, lob

LEMMA CommandAlways ==
  ASSUME Always, Command
  PROVE  /\ Always' /\ Line' = Line \o put' /\ Line \in Seq(TokenType)
         /\ Len(put') = 2 /\ put' \in Seq(TokenType)
         /\ put'[1] = [t |-> "head", req |-> reqs + 1, rows |-> 1, lob |-> COMMAND]
         /\ put'[2].t = "row"
<1>1. StmtTypes /\ CallTypes /\ WireTypes
  BY AlwaysParts
<1>2. /\ reqs + 1 \in Reqs /\ reqs \in Nat
      /\ put' = RequestOf(reqs + 1, 1, COMMAND, 0)
      /\ put' \in Seq(TokenType) /\ CallTypes' /\ StmtTypes'
  BY <1>1, CommandFacts
<1>3. /\ UNCHANGED <<sbuff, up, down, linked, breaks, srv, ran, kept>> /\ reqs' = reqs + 1 /\ ~Busy
  BY DEF Command, MayBegin
<1>4. put = <<>>
  BY <1>3, Idle
<1>5. WireTypes'
  BY <1>1, <1>2, <1>3 DEF WireTypes
<1> DEFINE toks == put'
           r == reqs + 1
<1>6. r \in Reqs /\ COMMAND \in Objects /\ toks = RequestOf(r, 1, COMMAND, 0)
  BY <1>2 DEF Objects
<1> HIDE DEF toks, r
<1>7. /\ Len(toks) = 1 + 1
      /\ toks[1] = [t |-> "head", req |-> r, rows |-> 1, lob |-> COMMAND]
      /\ \A i \in 2 .. 1 + 1 : toks[i].t # "head" /\ (i - 1 # 0 => toks[i].t = "row")
  <2> DEFINE n == 1
             lob == COMMAND
             bad == 0
  <2>1. /\ n \in Nat \ {0} /\ lob \in Objects /\ bad \in Nat /\ r \in Reqs
        /\ toks = RequestOf(r, n, lob, bad)
    BY <1>6
  <2> HIDE DEF n, lob, bad
  <2>2. /\ Len(toks) = n + 1
        /\ toks[1] = [t |-> "head", req |-> r, rows |-> n, lob |-> lob]
        /\ \A i \in 2 .. n + 1 : toks[i].t # "head" /\ (i - 1 # bad => toks[i].t = "row")
    BY <2>1, RequestTokens, SMTT(40)
  <2> QED
    BY <2>2 DEF n, lob, bad
<1>8. Len(toks) = 2 /\ toks[2].t = "row" /\ toks[2].t # "head"
  BY <1>7
<1>9. \A i \in 1 .. Len(toks) : toks[i].t = "head" =>
        i = 1 /\ toks[i].req = r /\ toks[i].rows > 0 /\ Bounded(toks[i].rows)
  <2>1. \A i \in 1 .. 2 : i = 1 \/ i = 2
    OBVIOUS
  <2>2. toks[1].req = r /\ toks[1].rows = 1
    BY <1>7
  <2> QED
    BY <1>8, <2>1, <2>2, BoundedOne
<1>10. \A i \in 1 .. Len(put') : put'[i].t = "head" =>
            /\ i = 1 /\ put'[i].req = reqs + 1 /\ reqs' = reqs + 1 /\ reqs + 1 \in Reqs
            /\ put'[i].rows > 0 /\ Bounded(put'[i].rows)
  BY <1>2, <1>3, <1>9 DEF toks, r
<1>11. reqs <= reqs'
  BY <1>2, <1>3
<1>12. Always' /\ Line' = Line \o put' /\ Line \in Seq(TokenType)
  BY <1>2, <1>3, <1>4, <1>5, <1>10, <1>11, KeepAll
<1> QED
  BY <1>2, <1>7, <1>8, <1>12 DEF toks, r

LEMMA PieceAlways ==
  ASSUME Always, NEW s \in Stmts, ExecutePiece(s)
  PROVE  Always' /\ Line' = Line \o put' /\ Line \in Seq(TokenType)
<1>1. StmtTypes /\ CallTypes /\ WireTypes
  BY AlwaysParts
<1>2. /\ put' \in Seq(TokenType) /\ Len(put') = 2
      /\ put'[1].t = "piece" /\ put'[2].t = "stop"
      /\ CallTypes' /\ StmtTypes'
  BY <1>1, PieceFacts
<1>3. /\ UNCHANGED <<sbuff, up, down, linked, breaks, srv, ran, kept>> /\ reqs' = reqs /\ ~Busy
  BY DEF ExecutePiece
<1>4. put = <<>>
  BY <1>3, Idle
<1>5. WireTypes'
  BY <1>1, <1>2, <1>3 DEF WireTypes
<1>6. \A i \in 1 .. Len(put') : put'[i].t # "head"
  <2>1. \A i \in 1 .. 2 : i = 1 \/ i = 2
    OBVIOUS
  <2> QED
    BY <1>2, <2>1
<1>7. reqs <= reqs'
  <2>1. reqs \in 0 .. MaxReqs
    BY <1>1 DEF StmtTypes
  <2> QED
    BY <1>3, <2>1, BoundsAssumption
<1> QED
  BY <1>2, <1>3, <1>4, <1>5, <1>6, <1>7, KeepAll

-----------------------------------------------------------------------------
(* Sending, failing, receiving. *)

LEMMA MovesCall ==
  ASSUME StmtTypes, CallTypes, put' = <<>>, stmts' = stmts, reqs' = reqs, mixed' = mixed,
         \/ \E outcome \in {"success", "error", "need data"}, over \in BOOLEAN : Return(outcome, over)
         \/ /\ call.at \in {"put", "flush"} /\ UNCHANGED <<told, spoiled>>
            /\ \E at \in {"read", "flush"} : call' = [call EXCEPT !.at = at]
  PROVE  StmtTypes' /\ CallTypes'
<1>1. CASE \E outcome \in {"success", "error", "need data"}, over \in BOOLEAN : Return(outcome, over)
  <2>1. /\ call' = NoCall /\ spoiled' \in BOOLEAN
        /\ told' \in [Stmts -> {"nothing", "success", "error", "need data"}]
    BY <1>1, ReturnTypes
  <2>2. CallTypes'
    BY <2>1, NoCallType DEF CallTypes
  <2> QED
    BY <2>1, <2>2 DEF StmtTypes
<1>2. CASE /\ call.at \in {"put", "flush"} /\ UNCHANGED <<told, spoiled>>
           /\ \E at \in {"read", "flush"} : call' = [call EXCEPT !.at = at]
  <2>1. PICK at \in {"read", "flush"} : call' = [call EXCEPT !.at = at]
    BY <1>2
  <2>2. /\ call' \in [by : Stmts \union {COMMAND, "nobody"},
               at : {"idle", "put", "flush", "read", "lost"},
               path : {"none", "one", "many", "gives up", "piece", "command"},
               req : Numbers, asked : BOOLEAN]
        /\ call'.at = at
    BY <2>1 DEF CallTypes
  <2>3. call' # NoCall
    BY <2>2, NoCallType
  <2>4. CallTypes'
    BY <2>2, <2>3 DEF CallTypes
  <2> QED
    BY <1>2, <2>4 DEF StmtTypes
<1> QED
  BY <1>1, <1>2

LEMMA PutCall ==
  ASSUME Put
  PROVE  /\ put' = <<>> /\ UNCHANGED <<stmts, linked, breaks, down, srv, ran, kept, reqs, mixed>>
         /\ call.at = "put"
         /\ \/ call.path = "gives up" /\ Return("error", TRUE)
            \/ call.path # "gives up" /\ AsksAgain /\ Return("need data", FALSE)
            \/ /\ call.path # "gives up" /\ ~AsksAgain /\ UNCHANGED <<told, spoiled>>
               /\ \E at \in {"read", "flush"} : call' = [call EXCEPT !.at = at]
<1>1. /\ put' = <<>> /\ UNCHANGED <<stmts, linked, breaks, down, srv, ran, kept, reqs, mixed>>
      /\ call.at = "put"
  BY DEF Put
<1>2. CASE call.path = "gives up"
  BY <1>1, <1>2 DEF Put
<1>3. CASE call.path # "gives up" /\ AsksAgain
  BY <1>1, <1>3 DEF Put
<1>4. CASE call.path # "gives up" /\ ~AsksAgain
  <2> DEFINE at == IF call.asked THEN "read" ELSE "flush"
  <2>1. call' = [call EXCEPT !.at = at] /\ UNCHANGED <<told, spoiled>>
    BY <1>4 DEF Put
  <2>2. at \in {"read", "flush"}
    OBVIOUS
  <2> HIDE DEF at
  <2> QED
    BY <1>1, <1>4, <2>1, <2>2
<1> QED
  BY <1>2, <1>3, <1>4

LEMMA PutAlways ==
  ASSUME Always, Put
  PROVE  Always'
<1>1. SessionTypes /\ StmtTypes /\ CallTypes /\ WireTypes /\ Cut /\ OnePlace
  BY AlwaysParts
<1>2. /\ put' = <<>> /\ UNCHANGED <<stmts, linked, breaks, down, srv, ran, kept, reqs, mixed>>
      /\ call.at = "put"
  BY PutCall
<1>3. StmtTypes' /\ CallTypes'
  <2>1. \/ \E outcome \in {"success", "error", "need data"}, over \in BOOLEAN : Return(outcome, over)
        \/ /\ call.at \in {"put", "flush"} /\ UNCHANGED <<told, spoiled>>
           /\ \E x \in {"read", "flush"} : call' = [call EXCEPT !.at = x]
    <3>1. TRUE \in BOOLEAN /\ FALSE \in BOOLEAN /\ "error" \in {"success", "error", "need data"}
          /\ "need data" \in {"success", "error", "need data"}
      OBVIOUS
    <3>2. Return("error", TRUE) \/ Return("need data", FALSE) =>
            \E outcome \in {"success", "error", "need data"}, over \in BOOLEAN : Return(outcome, over)
      BY <3>1, Zenon
    <3> QED
      BY PutCall, <3>2
  <2> QED
    BY <1>1, <1>2, <2>1, MovesCall
<1>4. /\ up' \in Seq(TokenType) /\ sbuff' \in Seq(TokenType)
      /\ linked => Line' = Line
      /\ ~linked => up' = up /\ (up = <<>> => Within(Line', Line))
  BY <1>1, PutLine
<1>5. WireTypes'
  BY <1>1, <1>2, <1>4, EmptySeq DEF WireTypes
<1>6. SessionTypes'
  BY <1>1, <1>2, KeepSession
<1>7. Cut'
  BY <1>1, <1>2, <1>4 DEF Cut
<1>8. Waiting(Line', reqs, ran, srv.req, kept)
  <2>1. Waiting(Line, reqs, ran, srv.req, kept) /\ Line \in Seq(TokenType)
    BY <1>1, LineNow DEF OnePlace
  <2>2. CASE linked
    BY <1>4, <2>1, <2>2
  <2>3. CASE ~linked
    <3>1. Within(Line', Line)
      BY <1>1, <1>4, <2>3 DEF Cut
    <3>2. Line' \in Seq(TokenType)
      BY <1>2, <1>4, LineNext, EmptySeq
    <3> QED
      BY <2>1, <3>1, <3>2, WaitingWithin
  <2> QED
    BY <2>2, <2>3
<1>9. reqs <= reqs' /\ Waiting(Line', reqs', ran, srv.req, kept)
  <2>1. reqs \in 0 .. MaxReqs
    BY <1>1 DEF StmtTypes
  <2>2. reqs <= reqs
    BY <2>1, BoundsAssumption
  <2>3. reqs' = reqs
    BY <1>2
  <2> QED
    BY <1>8, <2>2, <2>3
<1> QED
  BY <1>2, <1>3, <1>5, <1>6, <1>7, <1>9, KeepServer

LEMMA SendAlways ==
  ASSUME Always, SendSome
  PROVE  Always'
<1>1. SessionTypes /\ StmtTypes /\ CallTypes /\ WireTypes /\ Cut /\ OnePlace
  BY AlwaysParts
<1>2. UNCHANGED <<stmts, told, call, linked, breaks, down, srv, ran, kept, reqs, mixed, spoiled>>
  BY DEF SendSome
<1>3. /\ up' \in Seq(TokenType) /\ sbuff' \in Seq(TokenType) /\ put' \in Seq(TokenType)
      /\ put' = <<>> <=> put = <<>>
      /\ linked => Line' = Line
      /\ ~linked => up' = up /\ (up = <<>> => Within(Line', Line))
  BY <1>1, SendLine
<1>4. StmtTypes' /\ CallTypes'
  BY <1>1, <1>2, <1>3 DEF StmtTypes, CallTypes
<1>5. WireTypes'
  BY <1>1, <1>2, <1>3 DEF WireTypes
<1>6. SessionTypes'
  BY <1>1, <1>2, KeepSession
<1>7. Cut'
  BY <1>1, <1>2, <1>3 DEF Cut
<1>8. Waiting(Line', reqs, ran, srv.req, kept)
  <2>1. Waiting(Line, reqs, ran, srv.req, kept) /\ Line \in Seq(TokenType)
    BY <1>1, LineNow DEF OnePlace
  <2>2. CASE linked
    BY <1>3, <2>1, <2>2
  <2>3. CASE ~linked
    <3>1. Within(Line', Line)
      BY <1>1, <1>3, <2>3 DEF Cut
    <3>2. Line' \in Seq(TokenType)
      <4> DEFINE u == up'
                 q == sbuff'
                 p == put'
      <4>1. /\ u \in Seq(TokenType) /\ q \in Seq(TokenType) /\ p \in Seq(TokenType)
            /\ up' = u /\ sbuff' = q /\ put' = p
        BY <1>3
      <4> HIDE DEF u, q, p
      <4> QED
        BY <4>1, LineNext
    <3> QED
      BY <2>1, <3>1, <3>2, WaitingWithin
  <2> QED
    BY <2>2, <2>3
<1>9. reqs <= reqs' /\ Waiting(Line', reqs', ran, srv.req, kept)
  <2>1. reqs \in 0 .. MaxReqs
    BY <1>1 DEF StmtTypes
  <2>2. reqs <= reqs
    BY <2>1, BoundsAssumption
  <2>3. reqs' = reqs
    BY <1>2
  <2> QED
    BY <1>8, <2>2, <2>3
<1> QED
  BY <1>2, <1>4, <1>5, <1>6, <1>7, <1>9, KeepServer

LEMMA FlushAlways ==
  ASSUME Always, Flush
  PROVE  Always'
<1>1. SessionTypes /\ StmtTypes /\ CallTypes /\ WireTypes /\ Cut /\ OnePlace
  BY AlwaysParts
<1>2. /\ UNCHANGED <<stmts, told, linked, breaks, down, srv, ran, kept, reqs, mixed, spoiled>>
      /\ call.at = "flush" /\ call' = [call EXCEPT !.at = "read"]
  BY DEF Flush
<1>3. /\ up' \in Seq(TokenType) /\ sbuff' = <<>> /\ put = <<>> /\ put' = <<>>
      /\ linked => up' = up \o sbuff /\ Line' = Line
      /\ ~linked => up' = up /\ (up = <<>> => Within(Line', Line))
  BY <1>1, FlushLine
<1>4. StmtTypes' /\ CallTypes'
  <2>1. \E x \in {"read", "flush"} : call' = [call EXCEPT !.at = x]
    BY <1>2
  <2> QED
    BY <1>1, <1>2, <1>3, <2>1, MovesCall
<1>5. WireTypes'
  BY <1>1, <1>2, <1>3, EmptySeq DEF WireTypes
<1>6. SessionTypes'
  BY <1>1, <1>2, KeepSession
<1>7. Cut'
  BY <1>1, <1>2, <1>3 DEF Cut
<1>8. Waiting(Line', reqs, ran, srv.req, kept)
  <2>1. Waiting(Line, reqs, ran, srv.req, kept) /\ Line \in Seq(TokenType)
    BY <1>1, LineNow DEF OnePlace
  <2>2. CASE linked
    BY <1>3, <2>1, <2>2
  <2>3. CASE ~linked
    <3>1. Within(Line', Line)
      BY <1>1, <1>3, <2>3 DEF Cut
    <3>2. Line' \in Seq(TokenType)
      BY <1>3, LineNext, EmptySeq
    <3> QED
      BY <2>1, <3>1, <3>2, WaitingWithin
  <2> QED
    BY <2>2, <2>3
<1>9. reqs <= reqs' /\ Waiting(Line', reqs', ran, srv.req, kept)
  <2>1. reqs \in 0 .. MaxReqs
    BY <1>1 DEF StmtTypes
  <2>2. reqs <= reqs
    BY <2>1, BoundsAssumption
  <2>3. reqs' = reqs
    BY <1>2
  <2> QED
    BY <1>8, <2>2, <2>3
<1> QED
  BY <1>2, <1>4, <1>5, <1>6, <1>7, <1>9, KeepServer

LEMMA BreakAlways ==
  ASSUME Always, Break
  PROVE  Always'
<1>1. SessionTypes /\ StmtTypes /\ CallTypes /\ WireTypes /\ OnePlace
  BY AlwaysParts
<1>2. /\ UNCHANGED <<stmts, told, call, put, sbuff, ran, kept, reqs, mixed, spoiled>>
      /\ linked' = FALSE /\ breaks' = breaks + 1 /\ breaks < MaxBreaks /\ srv' = Fresh
  BY DEF Break
<1>3. /\ up' = <<>> /\ sbuff' = sbuff /\ put' = put /\ down' \in Seq(AnswerType)
      /\ Line' \in Seq(TokenType) /\ Within(Line', Line)
  BY <1>1, BreakLine
<1>4. StmtTypes' /\ CallTypes'
  BY <1>1, <1>2, KeepCall DEF StmtTypes
<1>5. WireTypes'
  BY <1>1, <1>3, EmptySeq DEF WireTypes
<1>6. SessionTypes'
  <2>1. breaks' \in 0 .. MaxBreaks
    <3>1. breaks \in 0 .. MaxBreaks
      BY <1>1 DEF SessionTypes
    <3> QED
      BY <1>2, <3>1, BoundsAssumption
  <2>2. ran \in [Reqs -> Nat]
    BY <1>1 DEF SessionTypes
  <2> QED
    BY <1>2, <2>1, <2>2, FreshType DEF SessionTypes, Bounded
<1>7. kept \subseteq kept' /\ Waiting(Line', reqs, ran, 0, kept')
  <2>1. Waiting(Line, reqs, ran, srv.req, kept) /\ Line \in Seq(TokenType) /\ reqs \in Nat
    <3>1. reqs \in 0 .. MaxReqs
      BY <1>1 DEF StmtTypes
    <3>2. Waiting(Line, reqs, ran, srv.req, kept) /\ Line \in Seq(TokenType)
      BY <1>1, LineNow DEF OnePlace
    <3> QED
      BY <3>1, <3>2, BoundsAssumption
  <2>2. Waiting(Line', reqs, ran, srv.req, kept)
    BY <1>3, <2>1, WaitingWithin
  <2>3. Waiting(Line', reqs, ran, 0, kept) /\ kept' = kept
    BY <1>2, <2>1, <2>2, WaitingZero
  <2> QED
    BY <2>3
<1> QED
  BY <1>2, <1>3, <1>4, <1>5, <1>6, <1>7, NewServer

(* What a send that failed leaves, and a new connection. *)
LEMMA NetErrorFacts ==
  ASSUME StmtTypes, NetError
  PROVE  /\ ~linked /\ put' = <<>> /\ delivered' = <<>> /\ UNCHANGED <<breaks, ran, reqs, mixed>>
         /\ \/ call.at = "put" /\ sbuff' \in LeftBySend
            \/ call.at = "flush" /\ sbuff # <<>> /\ sbuff' = delivered \o sbuff
            \/ call.at = "read" /\ down = <<>> /\ sbuff' = sbuff
         /\ kept' = kept \union Heads(sbuff')
         /\ \/ up' = <<>> /\ srv' = Fresh /\ ByStmt
            \/ up' = up /\ srv' = srv /\ UNCHANGED <<stmts, linked, down>> /\ ~ByStmt
         /\ ByStmt => Reconnect
         /\ Return("error", TRUE)
         /\ stmts' \in [Stmts -> [prepared : BOOLEAN, lob : Lobs \union {"none"},
                                  piece_mode : BOOLEAN, req : Numbers]]
<1>1. /\ ~linked /\ put' = <<>> /\ delivered' = <<>> /\ UNCHANGED <<breaks, ran, reqs, mixed>>
      /\ Return("error", TRUE) /\ kept' = kept \union Heads(sbuff')
  BY DEF NetError
<1>2. \/ call.at = "put" /\ sbuff' \in LeftBySend
      \/ call.at = "flush" /\ sbuff # <<>> /\ sbuff' = delivered \o sbuff
      \/ call.at = "read" /\ down = <<>> /\ sbuff' = sbuff
  BY DEF NetError
<1>3. IF ByStmt THEN stmts' = [stmts EXCEPT ![call.by].prepared = FALSE] /\ Reconnect
                ELSE UNCHANGED <<stmts, linked, up, down, srv>>
  BY DEF NetError
<1>4. stmts' \in [Stmts -> [prepared : BOOLEAN, lob : Lobs \union {"none"},
                            piece_mode : BOOLEAN, req : Numbers]]
  <2>1. stmts \in [Stmts -> [prepared : BOOLEAN, lob : Lobs \union {"none"},
                            piece_mode : BOOLEAN, req : Numbers]]
    BY DEF StmtTypes
  <2>2. stmts' = [stmts EXCEPT ![call.by].prepared = FALSE] \/ stmts' = stmts
    BY <1>3
  <2> QED
    BY <2>1, <2>2, ZenonT(60)
<1>5. \/ up' = <<>> /\ srv' = Fresh /\ ByStmt
      \/ up' = up /\ srv' = srv /\ UNCHANGED <<stmts, linked, down>> /\ ~ByStmt
  BY <1>3 DEF Reconnect
<1> QED
  BY <1>1, <1>2, <1>3, <1>4, <1>5

(* What stays in sbuff is numbered, and kept. *)
LEMMA NetErrorLeaves ==
  ASSUME Always, Sent, NetError
  PROVE  /\ sbuff' \in Seq(TokenType) /\ Numbered(sbuff', reqs)
         /\ kept \subseteq kept' /\ kept' \subseteq 1 .. reqs
         /\ Heads(sbuff') \subseteq kept'
<1>1. StmtTypes /\ CallTypes /\ WireTypes /\ Cut /\ OnePlace
  BY AlwaysParts
<1>2. /\ ~linked /\ kept' = kept \union Heads(sbuff')
      /\ \/ call.at = "put" /\ sbuff' \in LeftBySend
         \/ call.at = "flush" /\ sbuff # <<>> /\ sbuff' = delivered \o sbuff
         \/ call.at = "read" /\ down = <<>> /\ sbuff' = sbuff
  BY <1>1, NetErrorFacts
<1>3. up = <<>>
  BY <1>1, <1>2 DEF Cut
<1>4. Numbered(sbuff \o put, reqs) /\ (put = <<>> => Numbered(sbuff, reqs))
  <2>1. Line = sbuff \o put /\ (put = <<>> => Line = sbuff)
    BY <1>1, <1>3, LineNow
  <2>2. Numbered(Line, reqs)
    BY <1>1 DEF OnePlace, Waiting
  <2> QED
    BY <2>1, <2>2
<1>5. sbuff' \in Seq(TokenType) /\ Numbered(sbuff', reqs)
  <2>1. CASE call.at = "put" /\ sbuff' \in LeftBySend
    <3> DEFINE q == sbuff'
    <3>1. q \in LeftBySend
      BY <2>1
    <3> HIDE DEF q
    <3>2. q \in Seq(TokenType) /\ Numbered(q, reqs)
      BY <1>1, <1>4, <3>1, LeftLine
    <3> QED
      BY <3>2 DEF q
  <2>2. CASE call.at = "flush" /\ sbuff' = delivered \o sbuff
    <3>1. put = <<>> /\ sbuff \in Seq(TokenType)
      BY <1>1, <2>2, IdleSendsNothing DEF WireTypes
    <3>2. delivered \o sbuff \in Seq(TokenType) /\ Numbered(delivered \o sbuff, reqs)
      BY <1>4, <3>1, NumberedConcat DEF Sent
    <3> QED
      BY <2>2, <3>2
  <2>3. CASE call.at = "read" /\ sbuff' = sbuff
    <3>1. put = <<>> /\ sbuff \in Seq(TokenType)
      BY <1>1, <2>3, IdleSendsNothing DEF WireTypes
    <3> QED
      BY <1>4, <2>3, <3>1
  <2> QED
    BY <1>2, <2>1, <2>2, <2>3
<1>6. Heads(sbuff') \subseteq 1 .. reqs
  <2> DEFINE q == sbuff'
  <2>1. Numbered(q, reqs)
    BY <1>5
  <2> HIDE DEF q
  <2>2. Heads(q) \subseteq 1 .. reqs
    BY <2>1 DEF Heads, Numbered
  <2> QED
    BY <2>2 DEF q
<1> QED
  BY <1>2, <1>5, <1>6 DEF Sent

(* The answers after a new connection, or after a failed one. *)
LEMMA ReconnectTypes ==
  ASSUME WireTypes, linked \in BOOLEAN, Reconnect
  PROVE  /\ linked' \in BOOLEAN /\ down' \in Seq(AnswerType)
         /\ down = <<>> => down' = <<>>
<1>1. PICK k \in 0 .. Len(down) :
       \/ linked' = TRUE
          /\ down' = IF k = 0 THEN <<>> ELSE Append(SubSeq(down, 2, k), LoginDone)
       \/ UNCHANGED linked /\ down' = SubSeq(down, 1, k)
  BY DEF Reconnect
<1>2. down \in Seq(AnswerType) /\ Len(down) \in Nat
  BY LenProperties DEF WireTypes
<1>3. LoginDone \in AnswerType
  BY DEF LoginDone, AnswerType, Numbers
<1>4. SubSeq(down, 1, k) \in Seq(AnswerType) /\ (k = 0 => SubSeq(down, 1, k) = <<>>)
  <2>1. 1 \in 1 .. Len(down) + 1
    BY <1>2
  <2>2. SubSeq(down, 1, k) \in Seq(AnswerType)
        /\ Len(SubSeq(down, 1, k)) = IF 1 <= k THEN k - 1 + 1 ELSE 0
    BY <1>2, <2>1, WithinSubSeq
  <2> QED
    BY <2>2, EmptyIffNone
<1>5. CASE k = 0
  <2>1. down' = <<>> /\ linked' \in BOOLEAN
    BY <1>1, <1>4, <1>5
  <2> QED
    BY <2>1, EmptySeq
<1>6. CASE k # 0
  <2>1. 2 \in 1 .. Len(down) + 1
    BY <1>2, <1>6
  <2>2. SubSeq(down, 2, k) \in Seq(AnswerType)
    BY <1>2, <2>1, WithinSubSeq
  <2>3. Append(SubSeq(down, 2, k), LoginDone) \in Seq(AnswerType)
    BY <1>3, <2>2, AppendProperties
  <2>4. down # <<>>
    BY <1>2, <1>6, EmptyIffNone
  <2>5. CASE linked' = TRUE /\ down' = IF k = 0 THEN <<>> ELSE Append(SubSeq(down, 2, k), LoginDone)
    BY <1>6, <2>3, <2>4, <2>5
  <2>6. CASE UNCHANGED linked /\ down' = SubSeq(down, 1, k)
    BY <1>4, <2>4, <2>6
  <2> QED
    BY <1>1, <2>5, <2>6
<1> QED
  BY <1>5, <1>6

LEMMA NetErrorAlways ==
  ASSUME Always, Sent, NetError
  PROVE  Always' /\ Line' = sbuff'
<1>1. SessionTypes /\ StmtTypes /\ CallTypes /\ WireTypes /\ Cut /\ OnePlace
  BY AlwaysParts
<1>2. /\ ~linked /\ put' = <<>> /\ UNCHANGED <<breaks, ran, reqs, mixed>>
      /\ \/ up' = <<>> /\ srv' = Fresh /\ ByStmt
         \/ up' = up /\ srv' = srv /\ UNCHANGED <<stmts, linked, down>> /\ ~ByStmt
      /\ ByStmt => Reconnect
      /\ Return("error", TRUE)
      /\ stmts' \in [Stmts -> [prepared : BOOLEAN, lob : Lobs \union {"none"},
                               piece_mode : BOOLEAN, req : Numbers]]
  BY <1>1, NetErrorFacts
<1>3. up = <<>> /\ srv = Fresh
  BY <1>1, <1>2 DEF Cut
<1>4. up' = <<>> /\ srv' = Fresh
  BY <1>2, <1>3
<1>5. StmtTypes' /\ CallTypes'
  <2>1. /\ call' = NoCall /\ spoiled' \in BOOLEAN
        /\ told' \in [Stmts -> {"nothing", "success", "error", "need data"}]
    BY <1>1, <1>2, ReturnTypes
  <2>2. CallTypes'
    BY <1>2, <2>1, NoCallType DEF CallTypes
  <2>3. reqs' \in 0 .. MaxReqs /\ mixed' \in BOOLEAN
    BY <1>1, <1>2 DEF StmtTypes
  <2> QED
    BY <1>2, <2>1, <2>2, <2>3 DEF StmtTypes
<1>6. linked' \in BOOLEAN /\ down' \in Seq(AnswerType)
  <2>1. linked \in BOOLEAN /\ down \in Seq(AnswerType)
    BY <1>1 DEF SessionTypes, WireTypes
  <2>2. CASE ByStmt
    BY <1>1, <1>2, <2>1, <2>2, ReconnectTypes
  <2>3. CASE ~ByStmt
    BY <1>2, <2>1, <2>3
  <2> QED
    BY <2>2, <2>3
<1>7. SessionTypes'
  <2>1. breaks \in 0 .. MaxBreaks /\ ran \in [Reqs -> Nat]
    BY <1>1 DEF SessionTypes
  <2>2. breaks' = breaks /\ ran' = ran
    BY <1>2
  <2> QED
    BY <1>4, <1>6, <2>1, <2>2, FreshType DEF SessionTypes, Bounded
<1>8. sbuff' \in Seq(TokenType) /\ kept \subseteq kept' /\ Waiting(sbuff', reqs, ran, 0, kept')
  <2> DEFINE q == sbuff'
             K == kept'
  <2>1. /\ q \in Seq(TokenType) /\ Numbered(q, reqs) /\ kept \subseteq K /\ Heads(q) \subseteq K
    BY NetErrorLeaves
  <2> HIDE DEF q, K
  <2>2. Waiting(q, reqs, ran, 0, K)
    BY <2>1, KeptWaits
  <2> QED
    BY <2>1, <2>2 DEF q, K
<1>9. Line' = sbuff'
  <2>1. <<>> \in Seq(TokenType)
    BY EmptySeq
  <2> DEFINE q == sbuff'
  <2>2. q \in Seq(TokenType) /\ sbuff' = q
    BY <1>8
  <2> HIDE DEF q
  <2>3. Line' = q
    BY <1>2, <1>4, <2>1, <2>2, LineNext
  <2> QED
    BY <2>2, <2>3
<1>10. WireTypes'
  BY <1>2, <1>4, <1>6, <1>8, EmptySeq DEF WireTypes
<1>11. ran' = ran /\ reqs' = reqs
  BY <1>2
<1>12. Always'
  BY <1>4, <1>5, <1>7, <1>8, <1>9, <1>10, <1>11, NewServer
<1> QED
  BY <1>9, <1>12

(* Receiving. *)

LEMMA ReadMoreAlways ==
  ASSUME Always, ReadMore
  PROVE  Always'
<1>1. StmtTypes /\ CallTypes /\ WireTypes
  BY AlwaysParts
<1>2. /\ UNCHANGED <<stmts, told, call, put, sbuff, linked, breaks, up, srv, ran, kept, reqs, spoiled>>
      /\ Reading /\ Received
  BY DEF ReadMore
<1>3. down' \in Seq(AnswerType) /\ mixed' \in BOOLEAN
  BY <1>1, <1>2, ReceivedTypes
<1>4. StmtTypes' /\ CallTypes' /\ WireTypes'
  BY <1>1, <1>2, <1>3, KeepCall DEF StmtTypes, WireTypes
<1> QED
  BY <1>2, <1>4, KeepLine

LEMMA ReadStreamForeignAlways ==
  ASSUME Always, ReadStreamForeign
  PROVE  Always'
<1>1. StmtTypes /\ CallTypes /\ WireTypes
  BY AlwaysParts
<1>2. /\ UNCHANGED <<stmts, told, put, sbuff, linked, breaks, up, srv, ran, kept, reqs, spoiled>>
      /\ Reading /\ Received /\ call' = [call EXCEPT !.at = "lost"]
  BY DEF ReadStreamForeign
<1>3. down' \in Seq(AnswerType) /\ mixed' \in BOOLEAN
  BY <1>1, <1>2, ReceivedTypes
<1>4. CallTypes'
  <2>1. /\ call' \in [by : Stmts \union {COMMAND, "nobody"},
               at : {"idle", "put", "flush", "read", "lost"},
               path : {"none", "one", "many", "gives up", "piece", "command"},
               req : Numbers, asked : BOOLEAN]
        /\ call'.at = "lost"
    BY <1>1, <1>2 DEF CallTypes
  <2>2. call.at = "read" /\ put = <<>>
    BY <1>1, <1>2, IdleSendsNothing DEF Reading
  <2> QED
    BY <1>2, <2>1, <2>2, NoCallType DEF CallTypes
<1>5. StmtTypes' /\ WireTypes'
  BY <1>1, <1>2, <1>3 DEF StmtTypes, WireTypes
<1> QED
  BY <1>2, <1>4, <1>5, KeepLine

LEMMA ReturnReads ==
  ASSUME StmtTypes, CallTypes, WireTypes, Reading, Received,
         UNCHANGED <<put, sbuff, up, reqs>>, NEW over \in BOOLEAN,
         NEW outcome \in {"success", "error", "need data"}, Return(outcome, over),
         stmts' \in [Stmts -> [prepared : BOOLEAN, lob : Lobs \union {"none"},
                               piece_mode : BOOLEAN, req : Numbers]]
  PROVE  StmtTypes' /\ CallTypes' /\ WireTypes'
<1>1. down' \in Seq(AnswerType) /\ mixed' \in BOOLEAN
  BY ReceivedTypes
<1>2. /\ call' = NoCall /\ spoiled' \in BOOLEAN
      /\ told' \in [Stmts -> {"nothing", "success", "error", "need data"}]
  BY ReturnTypes
<1>3. put = <<>>
  BY IdleSendsNothing DEF Reading
<1>4. CallTypes'
  BY <1>2, <1>3, NoCallType DEF CallTypes
<1>5. reqs' \in 0 .. MaxReqs
  BY DEF StmtTypes
<1>6. StmtTypes'
  BY <1>1, <1>2, <1>5 DEF StmtTypes
<1>7. WireTypes'
  BY <1>1 DEF WireTypes
<1> QED
  BY <1>4, <1>6, <1>7

LEMMA ReadStreamPiecesAlways ==
  ASSUME Always, ReadStreamPieces
  PROVE  Always'
<1>1. StmtTypes /\ CallTypes /\ WireTypes
  BY AlwaysParts
<1>2. /\ UNCHANGED <<put, sbuff, linked, breaks, up, srv, ran, kept, reqs>>
      /\ Reading /\ Received /\ Return("need data", FALSE)
      /\ stmts' = [stmts EXCEPT ![call.by].piece_mode = TRUE]
  BY DEF ReadStreamPieces
<1>3. stmts' \in [Stmts -> [prepared : BOOLEAN, lob : Lobs \union {"none"},
                            piece_mode : BOOLEAN, req : Numbers]]
  <2>1. stmts \in [Stmts -> [prepared : BOOLEAN, lob : Lobs \union {"none"},
                            piece_mode : BOOLEAN, req : Numbers]]
    BY <1>1 DEF StmtTypes
  <2> QED
    BY <1>2, <2>1
<1>4. StmtTypes' /\ CallTypes' /\ WireTypes'
  BY <1>1, <1>2, <1>3, ReturnReads
<1> QED
  BY <1>2, <1>4, KeepLine

LEMMA ReadEndFacts ==
  ASSUME ReadEnd
  PROVE  /\ UNCHANGED <<stmts, put, sbuff, linked, breaks, up, srv, ran, kept, reqs>>
         /\ Reading /\ Received
         /\ EndsAnswer(Got.kind) \/ (~ByStmt /\ Got.kind = "more")
         /\ \E outcome \in {"success", "error", "need data"} :
              /\ Return(outcome, TRUE)
              /\ outcome = "success" => Got.kind # "E"
              /\ outcome = "need data" => ByStmt /\ stmts[call.by].piece_mode
              /\ outcome = "success" /\ ByStmt /\ call.path # "many" => ~stmts[call.by].piece_mode
<1> DEFINE o == CASE Got.kind = "E" -> "error"
                  [] Got.kind # "E" /\ ByStmt /\ call.path # "many"
                       /\ stmts[call.by].piece_mode -> "need data"
                  [] OTHER -> "success"
<1>1. /\ UNCHANGED <<stmts, put, sbuff, linked, breaks, up, srv, ran, kept, reqs>>
      /\ Reading /\ Received /\ (EndsAnswer(Got.kind) \/ (~ByStmt /\ Got.kind = "more"))
      /\ Return(o, TRUE)
  BY DEF ReadEnd
<1>2. /\ o \in {"success", "error", "need data"}
      /\ o = "success" => Got.kind # "E"
      /\ o = "need data" => ByStmt /\ stmts[call.by].piece_mode
      /\ o = "success" /\ ByStmt /\ call.path # "many" => ~stmts[call.by].piece_mode
  OBVIOUS
<1> HIDE DEF o
<1> QED
  BY <1>1, <1>2

LEMMA ReadEndAlways ==
  ASSUME Always, ReadEnd
  PROVE  Always'
<1>1. StmtTypes /\ CallTypes /\ WireTypes
  BY AlwaysParts
<1>2. /\ UNCHANGED <<stmts, put, sbuff, linked, breaks, up, srv, ran, kept, reqs>>
      /\ Reading /\ Received
  BY ReadEndFacts
<1>3. PICK outcome \in {"success", "error", "need data"} : Return(outcome, TRUE)
  BY ReadEndFacts
<1>4. stmts' \in [Stmts -> [prepared : BOOLEAN, lob : Lobs \union {"none"},
                            piece_mode : BOOLEAN, req : Numbers]]
  BY <1>1, <1>2 DEF StmtTypes
<1>5. StmtTypes' /\ CallTypes' /\ WireTypes'
  BY <1>1, <1>2, <1>3, <1>4, ReturnReads
<1> QED
  BY <1>2, <1>5, KeepLine

(* The pieces a callback gives. *)
LEMMA CallbackTokens ==
  ASSUME CallTypes, ReadStreamCallback
  PROVE  /\ put' \in Seq(TokenType) /\ put' # <<>> /\ put'[Len(put')].t = "stop"
         /\ \A i \in 1 .. Len(put') - 1 : put'[i].t = "piece"
         /\ \A i \in 1 .. Len(put') : put'[i].t # "head"
<1>1. PICK n \in 1 .. MaxPieces :
        put' = [i \in 1 .. n |-> Token("piece", call.req)] \o <<Token("stop", call.req)>>
  BY DEF ReadStreamCallback
<1>2. n \in Nat /\ call.req \in Numbers
  <2>1. call.req \in Numbers
    BY DEF CallTypes
  <2>2. n \in Nat
    BY <1>1, BoundsAssumption
  <2> QED
    BY <2>1, <2>2
<1> DEFINE q == [i \in 1 .. n |-> Token("piece", call.req)] \o <<Token("stop", call.req)>>
<1>3. /\ q \in Seq(TokenType) /\ Len(q) = n + 1 /\ q # <<>> /\ q[n + 1].t = "stop"
      /\ \A i \in 1 .. n : q[i].t = "piece"
  BY <1>2, PieceTokens
<1>4. put' = q
  BY <1>1
<1> HIDE DEF q
<1>5. /\ q \in Seq(TokenType) /\ q # <<>> /\ q[Len(q)].t = "stop"
      /\ \A i \in 1 .. Len(q) - 1 : q[i].t = "piece"
  BY <1>2, <1>3
<1>6. ASSUME NEW i \in 1 .. Len(q) PROVE q[i].t # "head"
  <2>1. i = Len(q) \/ i \in 1 .. Len(q) - 1
    BY <1>2, <1>3
  <2> QED
    BY <1>5, <2>1
<1> QED
  BY <1>4, <1>5, <1>6

LEMMA ReadStreamCallbackAlways ==
  ASSUME Always, ReadStreamCallback
  PROVE  Always' /\ Line' = Line \o put' /\ Line \in Seq(TokenType) /\ put = <<>>
<1>1. StmtTypes /\ CallTypes /\ WireTypes
  BY AlwaysParts
<1>2. /\ UNCHANGED <<stmts, told, sbuff, linked, breaks, up, srv, ran, kept, reqs, spoiled>>
      /\ Reading /\ Received /\ call' = [call EXCEPT !.at = "put", !.asked = TRUE]
  BY DEF ReadStreamCallback
<1>3. down' \in Seq(AnswerType) /\ mixed' \in BOOLEAN
  BY <1>1, <1>2, ReceivedTypes
<1>4. /\ put' \in Seq(TokenType) /\ put' # <<>>
      /\ \A i \in 1 .. Len(put') : put'[i].t # "head"
  BY <1>1, CallbackTokens
<1>5. CallTypes'
  <2>1. /\ call' \in [by : Stmts \union {COMMAND, "nobody"},
               at : {"idle", "put", "flush", "read", "lost"},
               path : {"none", "one", "many", "gives up", "piece", "command"},
               req : Numbers, asked : BOOLEAN]
        /\ call'.at = "put"
    BY <1>1, <1>2 DEF CallTypes
  <2> QED
    BY <1>4, <2>1, NoCallType DEF CallTypes
<1>6. StmtTypes' /\ WireTypes'
  BY <1>1, <1>2, <1>3, <1>4 DEF StmtTypes, WireTypes
<1>7. put = <<>>
  BY <1>1, <1>2, IdleSendsNothing DEF Reading
<1>8. reqs <= reqs'
  <2>1. reqs \in 0 .. MaxReqs
    BY <1>1 DEF StmtTypes
  <2>2. reqs <= reqs
    BY <2>1, BoundsAssumption
  <2> QED
    BY <1>2, <2>2
<1> QED
  BY <1>2, <1>4, <1>5, <1>6, <1>7, <1>8, KeepAll

-----------------------------------------------------------------------------
(* The server. *)

(* What it does with the foremost token. *)
LEMMA TakesCases ==
  ASSUME NEW tok
  PROVE  /\ srv.mode = "request" /\ tok.t = "head" =>
              Takes(tok) = [srv EXCEPT !.mode = "rows", !.req = tok.req, !.left = tok.rows,
                                       !.lob = tok.lob, !.more = 0]
         /\ srv.mode = "rows" /\ tok.t = "row" /\ srv.left = 1 =>
              Takes(tok) = [srv EXCEPT !.mode = "run", !.left = @ - 1]
         /\ srv.mode = "rows" /\ tok.t = "row" /\ srv.left # 1 =>
              Takes(tok) = [srv EXCEPT !.mode = "rows", !.left = @ - 1]
         /\ srv.mode \in {"request", "rows"} /\ tok.t = "part" =>
              Takes(tok) = [srv EXCEPT !.mode = "part"]
         /\ srv.mode = "stream" /\ tok.t = "piece" => Takes(tok) = srv
         /\ srv.mode = "stream" /\ tok.t = "stop" =>
              Takes(tok) = [srv EXCEPT !.mode = "run", !.lob = "none"]
         /\ ~(srv.mode = "request" /\ tok.t = "head") /\ ~(srv.mode = "rows" /\ tok.t = "row")
            /\ ~(srv.mode \in {"request", "rows"} /\ tok.t = "part")
            /\ ~(srv.mode = "stream" /\ tok.t \in {"piece", "stop"}) =>
              Takes(tok) = [srv EXCEPT !.mode = "lost"]
<1>1. ASSUME srv.mode = "request", tok.t = "head"
      PROVE  Takes(tok) = [srv EXCEPT !.mode = "rows", !.req = tok.req, !.left = tok.rows,
                                       !.lob = tok.lob, !.more = 0]
  BY <1>1 DEF Takes
<1>2. ASSUME srv.mode = "rows", tok.t = "row"
      PROVE  Takes(tok) = [srv EXCEPT !.mode = IF srv.left = 1 THEN "run" ELSE "rows",
                                      !.left = @ - 1]
  BY <1>2 DEF Takes
<1>3. ASSUME srv.mode \in {"request", "rows"}, tok.t = "part"
      PROVE  Takes(tok) = [srv EXCEPT !.mode = "part"]
  BY <1>3 DEF Takes
<1>4. ASSUME srv.mode = "stream", tok.t = "piece" PROVE Takes(tok) = srv
  BY <1>4 DEF Takes
<1>5. ASSUME srv.mode = "stream", tok.t = "stop"
      PROVE  Takes(tok) = [srv EXCEPT !.mode = "run", !.lob = "none"]
  BY <1>5 DEF Takes
<1>6. ASSUME ~(srv.mode = "request" /\ tok.t = "head"), ~(srv.mode = "rows" /\ tok.t = "row"),
             ~(srv.mode \in {"request", "rows"} /\ tok.t = "part"),
             ~(srv.mode = "stream" /\ tok.t \in {"piece", "stop"})
      PROVE  Takes(tok) = [srv EXCEPT !.mode = "lost"]
  BY <1>6 DEF Takes
<1>7. srv.mode = "rows" /\ tok.t = "row" /\ srv.left = 1 =>
        Takes(tok) = [srv EXCEPT !.mode = "run", !.left = @ - 1]
  BY <1>2
<1>8. srv.mode = "rows" /\ tok.t = "row" /\ srv.left # 1 =>
        Takes(tok) = [srv EXCEPT !.mode = "rows", !.left = @ - 1]
  BY <1>2
<1> QED
  BY <1>1, <1>3, <1>4, <1>5, <1>6, <1>7, <1>8

LEMMA TakesLine ==
  ASSUME WireTypes, ServerTakes
  PROVE  /\ up # <<>> /\ up[1] = Line[1] /\ up[1] \in TokenType
         /\ Line \in Seq(TokenType) /\ Line # <<>> /\ Line' = Tail(Line)
         /\ up' \in Seq(TokenType)
<1>1. /\ up \in Seq(TokenType) /\ sbuff \in Seq(TokenType) /\ put \in Seq(TokenType)
      /\ up # <<>> /\ up' = Tail(up) /\ sbuff' = sbuff /\ put' = put
  BY DEF WireTypes, ServerTakes
<1> DEFINE b == sbuff \o put
<1>2. b \in Seq(TokenType) /\ Line \in Seq(TokenType) /\ Line = up \o b
  BY LineNow
<1>3. /\ Len(up) \in Nat /\ Len(b) \in Nat /\ Len(up) # 0 /\ Len(up \o b) = Len(up) + Len(b)
      /\ \A i \in 1 .. Len(up) + Len(b) :
           (up \o b)[i] = IF i <= Len(up) THEN up[i] ELSE b[i - Len(up)]
  <2> HIDE DEF b
  <2> QED
    BY <1>1, <1>2, LenProperties, ConcatProperties, EmptyIffNone
<1>4. up' \in Seq(TokenType) /\ up[1] \in TokenType
  BY <1>1, HeadTailProperties, EmptyIffNone, ElementOfSeq
<1>5. Line' = Tail(up) \o b
  <2> DEFINE u == Tail(up)
  <2>1. u \in Seq(TokenType) /\ up' = u
    BY <1>1, <1>4
  <2> HIDE DEF u
  <2>2. Line' = u \o (sbuff \o put)
    BY <1>1, <2>1, LineNext
  <2> QED
    BY <2>2 DEF u
<1> HIDE DEF b
<1>6. up[1] = Line[1] /\ Line # <<>>
  <2>1. 1 \in 1 .. Len(up) + Len(b) /\ 1 <= Len(up)
    BY <1>3
  <2>2. Len(Line) # 0
    BY <1>2, <1>3
  <2> QED
    BY <1>2, <1>3, <2>1, <2>2, EmptyIffNone
<1>7. Tail(up \o b) = Tail(up) \o b
  <2> DEFINE q == Tail(up \o b)
             r == Tail(up) \o b
  <2>1. up \o b \in Seq(TokenType) /\ up \o b # <<>> /\ Tail(up) \in Seq(TokenType)
    BY <1>1, <1>2, <1>4, <1>6
  <2>2. /\ q \in Seq(TokenType) /\ Len(q) = Len(up) + Len(b) - 1
        /\ \A i \in 1 .. Len(q) : q[i] = (up \o b)[i + 1]
    BY <1>3, <2>1, HeadTailProperties
  <2>3. /\ Len(Tail(up)) = Len(up) - 1
        /\ \A i \in 1 .. Len(up) - 1 : Tail(up)[i] = up[i + 1]
    BY <1>1, HeadTailProperties
  <2>4. /\ r \in Seq(TokenType) /\ Len(r) = (Len(up) - 1) + Len(b)
        /\ \A i \in 1 .. (Len(up) - 1) + Len(b) :
             r[i] = IF i <= Len(up) - 1 THEN Tail(up)[i] ELSE b[i - (Len(up) - 1)]
    BY <1>2, <2>1, <2>3, ConcatProperties
  <2> HIDE DEF q, r
  <2>5. ASSUME NEW i \in 1 .. Len(q) PROVE q[i] = r[i]
    <3>1. i + 1 \in 1 .. Len(up) + Len(b) /\ i \in 1 .. (Len(up) - 1) + Len(b)
      BY <1>3, <2>2
    <3>2. CASE i + 1 <= Len(up)
      <4>1. q[i] = up[i + 1] /\ i \in 1 .. Len(up) - 1 /\ i <= Len(up) - 1
        BY <1>3, <2>2, <3>1, <3>2
      <4> QED
        BY <2>3, <2>4, <3>1, <4>1
    <3>3. CASE ~(i + 1 <= Len(up))
      <4>1. q[i] = b[i + 1 - Len(up)] /\ ~(i <= Len(up) - 1)
            /\ i + 1 - Len(up) = i - (Len(up) - 1)
        BY <1>3, <2>2, <3>1, <3>3
      <4> QED
        BY <2>4, <3>1, <4>1
    <3> QED
      BY <3>2, <3>3
  <2>6. Len(q) = Len(r)
    BY <1>3, <2>2, <2>4
  <2>7. q = r
    BY <2>2, <2>4, <2>5, <2>6, SeqEqual
  <2> QED
    BY <2>7 DEF q, r
<1> QED
  BY <1>1, <1>2, <1>4, <1>5, <1>6, <1>7

LEMMA ServerTakesAlways ==
  ASSUME Always, ServerTakes
  PROVE  Always'
<1>1. /\ SessionTypes /\ StmtTypes /\ CallTypes /\ WireTypes /\ Cut /\ OnePlace /\ Announced
  BY AlwaysParts
<1>2. /\ UNCHANGED <<stmts, told, call, put, sbuff, linked, breaks, down, ran, kept, reqs, mixed,
                     spoiled>>
      /\ linked /\ srv' = Takes(up[1])
  BY DEF ServerTakes
<1>3. /\ up # <<>> /\ up[1] = Line[1] /\ up[1] \in TokenType
      /\ Line \in Seq(TokenType) /\ Line # <<>> /\ Line' = Tail(Line)
      /\ up' \in Seq(TokenType)
  BY <1>1, TakesLine
<1> DEFINE tok == up[1]
           n == reqs
           f == ran
<1>4. /\ tok.t \in Kinds /\ tok.req \in Numbers /\ tok.rows \in Nat /\ tok.lob \in Objects
  BY <1>3 DEF TokenType
<1>5. Waiting(Line, n, f, srv.req, kept)
  BY <1>1 DEF OnePlace
<1> HIDE DEF n, f
<1>6. /\ Waiting(Tail(Line), n, f, srv.req, kept)
      /\ tok.t = "head" =>
              Waiting(Tail(Line), n, f, tok.req, kept) /\ tok.req \in 1 .. n
              /\ (tok.req \notin kept => f[tok.req] = 0)
              /\ tok.rows > 0 /\ Bounded(tok.rows)
  BY <1>3, <1>5, WaitingTaken
<1> HIDE DEF tok
<1> DEFINE now == srv'
<1>7. /\ srv \in [mode : {"request", "rows", "part", "stream", "run", "lost"},
                  req : Numbers, left : Nat, lob : Objects, more : Nat]
      /\ Bounded(srv.left)
      /\ srv.mode = "rows" => srv.left > 0
  BY <1>1 DEF SessionTypes, Announced
<1>8. now = Takes(tok)
  BY <1>2 DEF tok
<1> HIDE DEF now
<1>9. /\ srv.req # 0 => srv.req \in 1 .. n /\ (srv.req \notin kept => f[srv.req] = 0)
      /\ srv.mode = "request" => srv.req = 0
      /\ srv.mode \in {"rows", "run", "stream"} => srv.req # 0
      /\ \A r \in Reqs : (r \notin kept => f[r] <= 1) /\ (r > n => f[r] = 0)
  BY <1>1 DEF OnePlace, n, f
<1> DEFINE Good(x) ==
             /\ x \in [mode : {"request", "rows", "part", "stream", "run", "lost"},
                       req : Numbers, left : Nat, lob : Objects, more : Nat]
             /\ Bounded(x.left) /\ (x.mode = "rows" => x.left > 0)
             /\ Waiting(Tail(Line), n, f, x.req, kept)
             /\ (x.req # 0 => x.req \in 1 .. n /\ (x.req \notin kept => f[x.req] = 0))
             /\ (x.mode = "request" => x.req = 0)
             /\ (x.mode \in {"rows", "run", "stream"} => x.req # 0)
<1>10. Good(now)
  <2>1. CASE srv.mode = "request" /\ tok.t = "head"
    <3>1. now = [srv EXCEPT !.mode = "rows", !.req = tok.req, !.left = tok.rows,
                            !.lob = tok.lob, !.more = 0]
      BY <1>8, <2>1, TakesCases
    <3>2. tok.req # 0
      BY <1>6, <2>1
    <3> QED
      BY <1>4, <1>6, <1>7, <2>1, <3>1, <3>2
  <2>2. CASE srv.mode = "rows" /\ tok.t = "row"
    <3>1. srv.left \in Nat /\ srv.left > 0
      BY <1>7, <2>2
    <3>2. Bounded(srv.left - 1) /\ srv.left - 1 \in Nat
      <4>1. ASSUME NEW m \in Iters, \A k \in Iters : k <= m PROVE srv.left - 1 \in 0 .. m
        <5>1. srv.left \in 0 .. m /\ m \in Nat
          BY <1>7, <4>1, ArgsAssumption DEF Bounded
        <5> QED
          BY <3>1, <5>1
      <4> QED
        BY <3>1, <4>1 DEF Bounded
    <3>3. /\ now.left = srv.left - 1 /\ now.req = srv.req
          /\ now.mode = (IF srv.left = 1 THEN "run" ELSE "rows")
          /\ now \in [mode : {"request", "rows", "part", "stream", "run", "lost"},
                      req : Numbers, left : Nat, lob : Objects, more : Nat]
      <4>1. CASE srv.left = 1
        <5>1. now = [srv EXCEPT !.mode = "run", !.left = @ - 1]
          BY <1>8, <2>2, <4>1, TakesCases
        <5> QED
          BY <1>7, <3>2, <4>1, <5>1
      <4>2. CASE srv.left # 1
        <5>1. now = [srv EXCEPT !.mode = "rows", !.left = @ - 1]
          BY <1>8, <2>2, <4>2, TakesCases
        <5> QED
          BY <1>7, <3>2, <4>2, <5>1
      <4> QED
        BY <4>1, <4>2
    <3>4. now.mode = "rows" => now.left > 0
      BY <3>1, <3>3
    <3>5. now.mode # "request"
      BY <3>3
    <3> QED
      BY <1>6, <1>9, <2>2, <3>2, <3>3, <3>4, <3>5
  <2>3. CASE srv.mode \in {"request", "rows"} /\ tok.t = "part"
    <3>1. now = [srv EXCEPT !.mode = "part"]
      BY <1>8, <2>3, TakesCases
    <3> QED
      BY <1>6, <1>7, <1>9, <3>1
  <2>4. CASE srv.mode = "stream" /\ tok.t = "piece"
    <3>1. now = srv
      BY <1>8, <2>4, TakesCases
    <3> QED
      BY <1>6, <1>7, <1>9, <3>1
  <2>5. CASE srv.mode = "stream" /\ tok.t = "stop"
    <3>1. now = [srv EXCEPT !.mode = "run", !.lob = "none"]
      BY <1>8, <2>5, TakesCases
    <3> QED
      BY <1>6, <1>7, <1>9, <2>5, <3>1 DEF Objects
  <2>6. CASE /\ ~(srv.mode = "request" /\ tok.t = "head") /\ ~(srv.mode = "rows" /\ tok.t = "row")
             /\ ~(srv.mode \in {"request", "rows"} /\ tok.t = "part")
             /\ ~(srv.mode = "stream" /\ tok.t \in {"piece", "stop"})
    <3>1. now = [srv EXCEPT !.mode = "lost"]
      BY <1>8, <2>6, TakesCases
    <3> QED
      BY <1>6, <1>7, <1>9, <3>1
  <2> HIDE DEF Good
  <2> QED
    BY <2>1, <2>2, <2>3, <2>4, <2>5, <2>6
<1>11. StmtTypes' /\ CallTypes'
  BY <1>1, <1>2, KeepCall DEF StmtTypes
<1>12. WireTypes'
  BY <1>1, <1>2, <1>3 DEF WireTypes
<1>13. SessionTypes'
  <2>1. linked' \in BOOLEAN /\ breaks' \in 0 .. MaxBreaks /\ ran' \in [Reqs -> Nat]
    BY <1>1, <1>2 DEF SessionTypes
  <2>2. /\ srv' \in [mode : {"request", "rows", "part", "stream", "run", "lost"},
                       req : Numbers, left : Nat, lob : Objects, more : Nat]
        /\ Bounded(srv'.left)
    BY <1>10 DEF now
  <2> QED
    BY <2>1, <2>2 DEF SessionTypes, Bounded
<1>14. Announced' /\ Cut'
  BY <1>2, <1>10 DEF Announced, Cut, now
<1>15. OnePlace'
  <2>1. Waiting(Line', reqs', ran', srv'.req, kept')
    BY <1>2, <1>3, <1>10 DEF now, n, f
  <2> QED
    BY <1>2, <1>9, <1>10, <2>1 DEF OnePlace, now, n, f
<1> QED
  BY <1>11, <1>12, <1>13, <1>14, <1>15, AlwaysPartsNext

LEMMA AnswerCases ==
  ASSUME ServerAnswers
  PROVE  /\ UNCHANGED <<stmts, told, call, put, sbuff, linked, breaks, up, kept, reqs, mixed, spoiled>>
         /\ linked /\ srv.mode = "run"
         /\ \/ /\ srv.lob # COMMAND /\ Answer("more")
               /\ srv' = [srv EXCEPT !.more = @ + 1] /\ UNCHANGED ran
            \/ /\ srv.lob \in {"callback", "pieces"} /\ Answer("S")
               /\ srv' = [srv EXCEPT !.mode = "stream"] /\ UNCHANGED ran
            \/ Answer("E") /\ srv' = Fresh /\ UNCHANGED ran
            \/ /\ srv.lob \in {"none", COMMAND} /\ Answer("K")
               /\ srv' = Fresh /\ ran' = [ran EXCEPT ![srv.req] = @ + 1]
BY DEF ServerAnswers

LEMMA ServerAnswersAlways ==
  ASSUME Always, ServerAnswers
  PROVE  Always' /\ Line' = Line
<1>1. /\ SessionTypes /\ StmtTypes /\ CallTypes /\ WireTypes /\ Cut /\ OnePlace /\ Announced
  BY AlwaysParts
<1>2. /\ UNCHANGED <<stmts, told, call, put, sbuff, linked, breaks, up, kept, reqs, mixed, spoiled>>
      /\ linked /\ srv.mode = "run"
      /\ \/ /\ Answer("more") /\ srv' = [srv EXCEPT !.more = @ + 1] /\ UNCHANGED ran
         \/ /\ Answer("S") /\ srv' = [srv EXCEPT !.mode = "stream"] /\ UNCHANGED ran
         \/ Answer("E") /\ srv' = Fresh /\ UNCHANGED ran
         \/ /\ Answer("K") /\ srv' = Fresh /\ ran' = [ran EXCEPT ![srv.req] = @ + 1]
  BY AnswerCases
<1>3. StmtTypes' /\ CallTypes'
  BY <1>1, <1>2, KeepCall DEF StmtTypes
<1>4. srv.req \in 1 .. reqs /\ (srv.req \notin kept => ran[srv.req] = 0)
  BY <1>1, <1>2 DEF OnePlace
<1>5. reqs \in Nat /\ 1 .. reqs \subseteq Reqs /\ srv.req \in Numbers /\ srv.req \in Reqs
  <2>1. reqs \in 0 .. MaxReqs
    BY <1>1 DEF StmtTypes
  <2>2. reqs \in Nat /\ 1 .. reqs \subseteq Reqs
    BY <2>1, BoundsAssumption DEF Reqs
  <2> QED
    BY <1>4, <2>2 DEF Numbers
<1>6. WireTypes'
  <2>1. down' \in Seq(AnswerType)
    <3>1. \E kind \in {"more", "S", "E", "K"} : Answer(kind)
      BY <1>2
    <3>2. PICK kind \in {"more", "S", "E", "K"} : down' = Append(down, [kind |-> kind, req |-> srv.req])
      BY <3>1 DEF Answer
    <3>3. [kind |-> kind, req |-> srv.req] \in AnswerType
      BY <1>5 DEF AnswerType
    <3>4. down \in Seq(AnswerType)
      BY <1>1 DEF WireTypes
    <3> QED
      BY <3>2, <3>3, <3>4, AppendProperties
  <2> QED
    BY <1>1, <1>2, <2>1 DEF WireTypes
<1>7. Line' = Line
  BY <1>2 DEF Line
<1>8. /\ srv \in [mode : {"request", "rows", "part", "stream", "run", "lost"},
                  req : Numbers, left : Nat, lob : Objects, more : Nat]
      /\ Bounded(srv.left)
      /\ ran \in [Reqs -> Nat]
      /\ linked' \in BOOLEAN /\ breaks' \in 0 .. MaxBreaks
  BY <1>1, <1>2 DEF SessionTypes
<1>9. Waiting(Line, reqs, ran, srv.req, kept)
  BY <1>1 DEF OnePlace
<1>10. CASE srv' = Fresh
  <2>1. ran' \in [Reqs -> Nat] /\ Waiting(Line, reqs, ran', 0, kept)
        /\ \A r \in Reqs : (r \notin kept => ran'[r] <= 1) /\ (r > reqs => ran'[r] = 0)
    <3>1. \A r \in Reqs : (r \notin kept => ran[r] <= 1) /\ (r > reqs => ran[r] = 0)
      BY <1>1 DEF OnePlace
    <3>2. CASE UNCHANGED ran
      BY <1>5, <1>8, <1>9, <3>1, <3>2, WaitingZero
    <3>3. CASE ran' = [ran EXCEPT ![srv.req] = @ + 1]
      <4> DEFINE f == ran
                 x == srv.req
                 g == [f EXCEPT ![x] = @ + 1]
      <4>1. f \in [Reqs -> Nat] /\ x \in Reqs /\ Waiting(Line, reqs, f, x, kept) /\ reqs \in Nat
            /\ x \in 1 .. reqs /\ (x \notin kept => f[x] = 0)
            /\ \A r \in Reqs : (r \notin kept => f[r] <= 1) /\ (r > reqs => f[r] = 0)
        BY <1>4, <1>5, <1>8, <1>9, <3>1
      <4> HIDE DEF f, x
      <4>2. Waiting(Line, reqs, g, 0, kept)
        BY <4>1, WaitingRun
      <4>3. g \in [Reqs -> Nat] /\ g[x] = f[x] + 1 /\ \A r \in Reqs : r # x => g[r] = f[r]
        BY <4>1
      <4>4. ~(x > reqs)
        BY <4>1
      <4>5. \A r \in Reqs : (r \notin kept => g[r] <= 1) /\ (r > reqs => g[r] = 0)
        BY <4>1, <4>3, <4>4
      <4>6. ran' = g
        BY <3>3 DEF f, x
      <4> HIDE DEF g
      <4> QED
        BY <4>2, <4>3, <4>5, <4>6
    <3> QED
      BY <1>2, <3>2, <3>3, <1>8
  <2>2. SessionTypes'
    BY <1>8, <1>10, <2>1, FreshType DEF SessionTypes, Bounded
  <2>3. Fresh.mode = "request" /\ Fresh.req = 0
    BY DEF Fresh
  <2>4. Announced' /\ Cut'
    BY <1>2, <1>10, <2>3 DEF Announced, Cut
  <2>5. Waiting(Line', reqs', ran', srv'.req, kept')
    BY <1>2, <1>7, <1>10, <2>1, <2>3
  <2>6. OnePlace'
    BY <1>2, <1>10, <2>1, <2>3, <2>5 DEF OnePlace
  <2> QED
    BY <1>3, <1>6, <1>7, <2>2, <2>4, <2>6, AlwaysPartsNext
<1>11. CASE ran' = ran /\ (srv' = [srv EXCEPT !.more = @ + 1] \/ srv' = [srv EXCEPT !.mode = "stream"])
  <2>1. /\ srv' \in [mode : {"request", "rows", "part", "stream", "run", "lost"},
                  req : Numbers, left : Nat, lob : Objects, more : Nat]
        /\ srv'.left = srv.left /\ srv'.req = srv.req /\ srv'.mode \in {"run", "stream"}
    BY <1>2, <1>8, <1>11
  <2>2. SessionTypes'
    BY <1>8, <1>11, <2>1 DEF SessionTypes, Bounded
  <2>3. Announced' /\ Cut'
    BY <1>2, <2>1 DEF Announced, Cut
  <2>4. Waiting(Line', reqs', ran', srv'.req, kept')
    BY <1>2, <1>7, <1>9, <1>11, <2>1
  <2>5. OnePlace'
    <3>1. \A r \in Reqs : (r \notin kept => ran[r] <= 1) /\ (r > reqs => ran[r] = 0)
      BY <1>1 DEF OnePlace
    <3>2. srv.req # 0
      BY <1>4, <1>5
    <3>3. reqs' = reqs /\ kept' = kept
      BY <1>2
    <3> QED
      BY <1>4, <1>11, <2>1, <2>4, <3>1, <3>2, <3>3 DEF OnePlace
  <2> QED
    BY <1>3, <1>6, <1>7, <2>2, <2>3, <2>5, AlwaysPartsNext
<1> QED
  BY <1>2, <1>10, <1>11

-----------------------------------------------------------------------------

LEMMA AlwaysInit == Init => Always /\ Sent
<1> SUFFICES ASSUME Init PROVE Always /\ Sent
  OBVIOUS
<1>1. /\ stmts = [s \in Stmts |-> [prepared |-> FALSE, lob |-> "none", piece_mode |-> FALSE,
                               req |-> 0]]
      /\ told = [s \in Stmts |-> "nothing"]
      /\ call = NoCall /\ put = <<>> /\ sbuff = <<>>
      /\ linked = TRUE /\ breaks = 0 /\ up = <<>> /\ down = <<>>
      /\ srv = Fresh /\ ran = [r \in Reqs |-> 0]
      /\ reqs = 0 /\ mixed = FALSE /\ spoiled = FALSE
      /\ delivered = <<>> /\ kept = {}
  BY DEF Init
<1>2. StmtTypes
  <2>1. reqs \in 0 .. MaxReqs
    BY <1>1, BoundsAssumption
  <2>2. stmts \in [Stmts -> [prepared : BOOLEAN, lob : Lobs \union {"none"},
                            piece_mode : BOOLEAN, req : Numbers]]
    BY <1>1 DEF Numbers
  <2>3. told \in [Stmts -> {"nothing", "success", "error", "need data"}]
    BY <1>1
  <2> QED
    BY <1>1, <2>1, <2>2, <2>3 DEF StmtTypes
<1>3. SessionTypes
  BY <1>1, FreshType, BoundsAssumption DEF SessionTypes
<1>4. CallTypes
  BY <1>1, NoCallType DEF CallTypes
<1>5. WireTypes
  BY <1>1, EmptySeq DEF WireTypes
<1>6. Announced /\ Cut
  BY <1>1 DEF Announced, Cut, Fresh
<1>7. OnePlace
  <2>1. Line = <<>>
    BY <1>1, <1>5, LineNow
  <2>2. Waiting(<<>>, reqs, ran, srv.req, kept)
    BY EmptySeq DEF Waiting, Numbered
  <2> QED
    BY <1>1, <2>1, <2>2 DEF OnePlace, Fresh
<1>8. Sent
  BY <1>1, EmptySeq DEF Sent, Numbered
<1> QED
  BY <1>2, <1>3, <1>4, <1>5, <1>6, <1>7, <1>8, AlwaysParts

(* The requests begun, and those a failed send has kept. *)
LEMMA SentStep == Always /\ Sent /\ [Next]_vars => Sent'
<1> SUFFICES ASSUME Always, Sent, [Next]_vars PROVE Sent'
  OBVIOUS
<1>1. /\ StmtTypes /\ CallTypes /\ WireTypes /\ OnePlace /\ reqs \in Nat
      /\ delivered \in Seq(TokenType) /\ Numbered(delivered, reqs) /\ kept \subseteq 1 .. reqs
  <2>1. StmtTypes
    BY AlwaysParts
  <2>2. reqs \in Nat
    <3>1. reqs \in 0 .. MaxReqs
      BY <2>1 DEF StmtTypes
    <3> QED
      BY <3>1, BoundsAssumption
  <2> QED
    BY <2>2, AlwaysParts DEF Sent
<1>2. <<>> \in Seq(TokenType) /\ \A n : Numbered(<<>>, n)
  BY EmptySeq DEF Numbered
<1>3. CASE /\ delivered' = delivered \/ delivered' = <<>>
           /\ reqs' = reqs \/ reqs' = reqs + 1
           /\ kept' = kept
  <2>1. 1 .. reqs \subseteq 1 .. reqs'
    BY <1>1, <1>3
  <2>2. Numbered(delivered', reqs')
    BY <1>1, <1>2, <1>3, <2>1 DEF Numbered
  <2> QED
    BY <1>1, <1>2, <1>3, <2>1, <2>2 DEF Sent
<1>4. CASE SendSome
  <2>1. reqs' = reqs /\ kept' = kept
    BY <1>4 DEF SendSome
  <2>2. PICK tok \in TokenType : /\ delivered' = Append(delivered, tok)
                                 /\ Within(<<tok>>, sbuff \o put)
    BY <1>1, <1>4, SendLine
  <2> DEFINE e == <<tok>>
  <2>3. e \in Seq(TokenType)
    OBVIOUS
  <2>4. Numbered(Line, reqs) /\ Line = up \o (sbuff \o put) /\ sbuff \o put \in Seq(TokenType)
        /\ up \in Seq(TokenType)
    BY <1>1, LineNow DEF OnePlace, Waiting, WireTypes
  <2> DEFINE b == sbuff \o put
  <2>5. Within(b, up \o b)
    <3>1. b \in Seq(TokenType)
      BY <2>4
    <3> HIDE DEF b
    <3> QED
      BY <2>4, <3>1, WithinConcat
  <2>6. Numbered(b, reqs)
    <3>1. b \in Seq(TokenType) /\ up \o b \in Seq(TokenType) /\ Numbered(up \o b, reqs)
      BY <1>1, <2>4, LineNow
    <3> HIDE DEF b
    <3> QED
      BY <2>5, <3>1, NumberedWithin
  <2>7. Within(e, b)
    BY <2>2
  <2>8. Numbered(e, reqs)
    <3>1. b \in Seq(TokenType)
      BY <2>4
    <3> HIDE DEF b, e
    <3> QED
      BY <2>3, <2>6, <2>7, <3>1, NumberedWithin
  <2>9. delivered' = delivered \o e
    BY <1>1, <2>2, AppendIsConcat
  <2>10. delivered \o e \in Seq(TokenType) /\ Numbered(delivered \o e, reqs)
    <3> HIDE DEF e
    <3> QED
      BY <1>1, <2>3, <2>8, NumberedConcat
  <2> QED
    BY <1>1, <2>1, <2>9, <2>10 DEF Sent
<1>5. CASE NetError
  <2>1. delivered' = <<>> /\ reqs' = reqs
    BY <1>5 DEF NetError
  <2>2. kept' \subseteq 1 .. reqs
    BY <1>5, NetErrorLeaves
  <2> QED
    BY <1>2, <2>1, <2>2 DEF Sent
<1>6. ASSUME NEW s \in Stmts, NEW lob \in Lobs, Prepare(s, lob) PROVE Sent'
  BY <1>3, <1>6 DEF Prepare
<1>7. ASSUME NEW s \in Stmts, NEW n \in Iters, Refused(s, n) PROVE Sent'
  BY <1>3, <1>7 DEF Refused
<1>8. ASSUME NEW s \in Stmts, NEW n \in Iters, NEW bad, Execute(s, n, bad) PROVE Sent'
  BY <1>3, <1>8 DEF Execute
<1>9. ASSUME NEW s \in Stmts, ExecutePiece(s) PROVE Sent'
  BY <1>3, <1>9 DEF ExecutePiece
<1>10. CASE Command
  BY <1>3, <1>10 DEF Command
<1>11. CASE Put \/ Flush
  BY <1>3, <1>11 DEF Put, Flush
<1>12. CASE ReadMore \/ ReadStreamCallback \/ ReadStreamPieces \/ ReadStreamForeign \/ ReadEnd
  BY <1>3, <1>12
     DEF ReadMore, ReadStreamCallback, ReadStreamPieces, ReadStreamForeign, ReadEnd
<1>13. CASE Server \/ Break
  BY <1>3, <1>13 DEF Server, ServerTakes, ServerAnswers, Break
<1>14. CASE UNCHANGED vars
  BY <1>3, <1>14 DEF vars
<1> QED
  BY <1>4, <1>5, <1>6, <1>7, <1>8, <1>9, <1>10, <1>11, <1>12, <1>13, <1>14
     DEF Next, Application, Driver

LEMMA AlwaysStep == Always /\ Sent /\ [Next]_vars => Always'
<1> SUFFICES ASSUME Always, Sent, [Next]_vars PROVE Always'
  OBVIOUS
<1>1. ASSUME NEW s \in Stmts, NEW lob \in Lobs, Prepare(s, lob) PROVE Always'
  BY <1>1, PrepareAlways
<1>2. ASSUME NEW s \in Stmts, NEW n \in Iters, Refused(s, n) PROVE Always'
  BY <1>2, RefusedAlways
<1>3. ASSUME NEW s \in Stmts, NEW n \in Iters,
             NEW bad \in IF ConvFails THEN 0 .. n ELSE {0}, Execute(s, n, bad)
      PROVE  Always'
  <2>1. bad \in 0 .. n
    BY ArgsAssumption
  <2> QED
    BY <1>3, <2>1, ExecuteAlways
<1>4. ASSUME NEW s \in Stmts, ExecutePiece(s) PROVE Always'
  BY <1>4, PieceAlways
<1>5. CASE Command
  BY <1>5, CommandAlways
<1>6. CASE Driver
  BY <1>6, SendAlways, PutAlways, FlushAlways, NetErrorAlways, ReadMoreAlways,
     ReadStreamCallbackAlways, ReadStreamPiecesAlways, ReadStreamForeignAlways, ReadEndAlways
     DEF Driver
<1>7. CASE Server
  BY <1>7, ServerTakesAlways, ServerAnswersAlways DEF Server
<1>8. CASE Break
  BY <1>8, BreakAlways
<1>9. CASE UNCHANGED vars
  <2>1. UNCHANGED <<stmts, told, call, put, sbuff, linked, breaks, up, down, srv, ran, kept, reqs,
                    mixed, spoiled>>
    BY <1>9 DEF vars
  <2>2. StmtTypes' /\ CallTypes' /\ WireTypes'
    BY <2>1, AlwaysParts, KeepCall, KeepWire DEF StmtTypes
  <2> QED
    BY <2>1, <2>2, KeepLine
<1> QED
  BY <1>1, <1>2, <1>3, <1>4, <1>5, <1>6, <1>7, <1>8, <1>9 DEF Next, Application

(* The server runs no request twice, on any connection, spoiled or not,     *)
(* unless a send that failed has left the request in sbuff: netFlush and    *)
(* sendData keep put_pos then, and what had gone out already goes again.    *)
(* Every other request is sent once, however the sends of its bytes are     *)
(* split and whatever breaks between them.                                  *)
THEOREM RunOnce == Spec => []AtMostOnce
<1>1. Always => AtMostOnce
  BY DEF Always, OnePlace, AtMostOnce
<1> QED
  BY AlwaysInit, AlwaysStep, SentStep, <1>1, PTL DEF Spec

LEMMA RequestNumber ==
  ASSUME NEW n \in 0 .. MaxReqs, NEW x \in 1 .. n
  PROVE  x \in Reqs
<1>1. MaxReqs \in Nat /\ n \in Int /\ n <= MaxReqs
  BY BoundsAssumption
<1>2. x \in Int /\ 1 <= x /\ x <= n
  BY <1>1
<1> QED
  BY <1>1, <1>2 DEF Reqs

-----------------------------------------------------------------------------
(* What holds on a connection that is not spoiled. *)

LEMMA CleanParts ==
  Clean <=> /\ Callers /\ Answers /\ Expected /\ Quiet /\ ~mixed
            /\ Succeeded
BY DEF Clean

LEMMA CleanPartsNext ==
  Clean' <=> /\ Callers' /\ Answers' /\ Expected' /\ Quiet' /\ ~mixed'
             /\ Succeeded'
BY CleanParts, PTL DEF Succeeded

LEMMA LineEmpty ==
  ASSUME WireTypes
  PROVE  Line = <<>> <=> up = <<>> /\ sbuff = <<>> /\ put = <<>>
<1>1. up \in Seq(TokenType) /\ sbuff \in Seq(TokenType) /\ put \in Seq(TokenType)
  BY DEF WireTypes
<1>2. up \o sbuff \in Seq(TokenType)
  BY <1>1, ConcatProperties
<1>3. Line = (up \o sbuff) \o put
  BY DEF Line
<1> QED
  BY <1>1, <1>2, <1>3, ConcatEqualIffEmpty

LEMMA WithinNone ==
  ASSUME NEW S, NEW p \in Seq(S), Within(p, <<>>)
  PROVE  p = <<>>
<1>1. PICK a \in Nat : Len(p) + a <= Len(<<>>)
  BY DEF Within
<1>2. Len(p) \in Nat /\ Len(<<>>) = 0
  BY LenProperties, EmptySeq
<1> QED
  BY <1>1, <1>2, EmptyIffNone

(* A step of a call changes nothing about whose it is. *)
LEMMA KeepCallers ==
  ASSUME Callers, UNCHANGED <<stmts, told, reqs>>, Busy' <=> Busy,
         call'.by = call.by, call'.req = call.req, call'.path = call.path,
         call'.asked => call.asked \/ (ByStmt /\ stmts[call.by].lob = "callback")
  PROVE  Callers' /\ Mine' = Mine
<1>1. \A s \in Stmts : Pending(s)' <=> Pending(s)
  BY DEF Pending
<1>2. Callers'
  BY <1>1 DEF Callers, ByStmt
<1>3. Mine' = Mine
  BY <1>1 DEF Mine
<1> QED
  BY <1>2, <1>3

LEMMA NoAnswers ==
  ASSUME down' = <<>>
  PROVE  Answers'
<1>1. 1 .. Len(down') = {}
  BY EmptySeq
<1> QED
  BY <1>1 DEF Answers

(* Of the answers some are read or lost, and the rest stays. *)
LEMMA KeepAnswers ==
  ASSUME Answers, down \in Seq(AnswerType), down' \in Seq(AnswerType), Within(down', down),
         Mine' = Mine, ran' = ran, call'.by = call.by,
         Line = <<>> => /\ Line' = <<>>
                        /\ srv = Fresh => srv' = Fresh
                        /\ linked' => linked /\ srv' = srv
  PROVE  Answers'
<1>1. PICK a \in Nat : Len(down') + a <= Len(down) /\ \A i \in 1 .. Len(down') : down'[i] = down[i + a]
  BY DEF Within
<1>2. Len(down') \in Nat /\ Len(down) \in Nat
  BY LenProperties
<1> SUFFICES ASSUME NEW i \in 1 .. Len(down')
             PROVE  /\ down'[i].req \in Mine'
                    /\ down'[i].kind # "more" => i = Len(down')
                    /\ down'[i].kind = "K" => ran'[down'[i].req] = 1
                    /\ down'[i].kind = "S" => Line' = <<>> /\ (linked' => srv'.mode = "stream")
                    /\ EndsAnswer(down'[i].kind) => Line' = <<>> /\ srv' = Fresh
                    /\ call'.by = COMMAND => down'[i].kind # "more"
  BY DEF Answers, EndsAnswer
<1>3. i + a \in 1 .. Len(down) /\ down'[i] = down[i + a]
  BY <1>1, <1>2
<1> DEFINE x == down[i + a]
<1>4. /\ x.req \in Mine
      /\ x.kind # "more" => i + a = Len(down)
      /\ x.kind = "K" => ran[x.req] = 1
      /\ x.kind = "S" => Line = <<>> /\ (linked => srv.mode = "stream")
      /\ EndsAnswer(x.kind) => Line = <<>> /\ srv = Fresh
      /\ call.by = COMMAND => x.kind # "more"
  BY <1>3 DEF Answers
<1>5. i + a = Len(down) => i = Len(down')
  BY <1>1, <1>2
<1>6. down'[i] = x
  BY <1>3
<1> HIDE DEF x
<1> QED
  BY <1>4, <1>5, <1>6

(* The first answer is for the call in progress. *)
LEMMA Reads ==
  ASSUME Always, Clean, Reading, Received
  PROVE  /\ mixed' = FALSE /\ down \in Seq(AnswerType) /\ down # <<>> /\ down' = Tail(down)
         /\ down' \in Seq(AnswerType) /\ Within(down', down)
         /\ Got.req = call.req
         /\ Got.kind # "more" => down' = <<>>
         /\ Got.kind = "S" => Line = <<>> /\ (linked => srv.mode = "stream")
         /\ EndsAnswer(Got.kind) => Line = <<>> /\ srv = Fresh
         /\ Got.kind = "K" => ran[call.req] = 1
         /\ call.by = COMMAND => Got.kind # "more"
         /\ Got.kind \in {"more", "S", "E", "K"}
<1>1. down \in Seq(AnswerType) /\ down # <<>> /\ StmtTypes
  BY AlwaysParts DEF Reading, WireTypes
<1>2. down' = Tail(down) /\ mixed' = (mixed \/ Got.req # call.req)
  BY DEF Received
<1>3. /\ down' \in Seq(AnswerType) /\ Within(down', down)
      /\ Len(down) \in Nat /\ 1 \in 1 .. Len(down)
      /\ Len(down') = Len(down) - 1 /\ Got \in AnswerType
  BY <1>1, <1>2, HeadTailProperties, WithinTail, EmptyIffNone, LenProperties, ElementOfSeq DEF Got
<1>4. /\ Got.req \in Mine
      /\ Got.kind # "more" => 1 = Len(down)
      /\ Got.kind = "K" => ran[Got.req] = 1
      /\ Got.kind = "S" => Line = <<>> /\ (linked => srv.mode = "stream")
      /\ EndsAnswer(Got.kind) => Line = <<>> /\ srv = Fresh
      /\ call.by = COMMAND => Got.kind # "more"
  BY <1>3, CleanParts DEF Answers, Got
<1>5. Got.req = call.req
  <2>1. Busy /\ \A s \in Stmts : ~Pending(s)
    BY CleanParts DEF Reading, Busy, Callers
  <2> QED
    BY <1>4, <2>1 DEF Mine
<1>6. mixed' = FALSE
  BY <1>2, <1>5, CleanParts
<1>7. Got.kind # "more" => down' = <<>>
  BY <1>3, <1>4, EmptyIffNone
<1>8. Got.kind \in {"more", "S", "E", "K"}
  BY <1>3 DEF AnswerType
<1> QED
  BY <1>1, <1>2, <1>3, <1>4, <1>5, <1>6, <1>7, <1>8

(* The line moves to the server as it is, or the server is lost. *)
LEMMA KeepExpected ==
  ASSUME Expected, Line \in Seq(TokenType), Line' \in Seq(TokenType),
         Mine' = Mine, call'.by = call.by,
         linked' => linked /\ Line' = Line /\ srv' = srv, Within(Line', Line),
         srv' = srv \/ srv' = Fresh
  PROVE  Expected'
<1>1. linked' => Fits(Line', srv') /\ (srv'.req = 0 \/ srv'.req \in Mine')
  BY DEF Expected
<1>2. linked' => \A i \in 1 .. Len(Line') : Line'[i].t = "head" => Line'[i].req \in Mine'
  BY DEF Expected
<1>3. ASSUME call'.by = COMMAND
      PROVE  /\ \A i \in 1 .. Len(Line') : Line'[i].t = "head" => Line'[i].lob = COMMAND
             /\ srv'.mode # "request" => srv'.lob = COMMAND
             /\ srv'.mode # "stream"
  <2>1. PICK a \in Nat : Len(Line') + a <= Len(Line) /\ \A i \in 1 .. Len(Line') : Line'[i] = Line[i + a]
    BY DEF Within
  <2>2. Len(Line') \in Nat /\ Len(Line) \in Nat
    BY LenProperties
  <2>3. /\ \A i \in 1 .. Len(Line) : Line[i].t = "head" => Line[i].lob = COMMAND
        /\ srv.mode # "request" => srv.lob = COMMAND
        /\ srv.mode # "stream"
    BY <1>3 DEF Expected
  <2>4. \A i \in 1 .. Len(Line') : i + a \in 1 .. Len(Line)
    BY <2>1, <2>2
  <2>5. \A i \in 1 .. Len(Line') : Line'[i].t = "head" => Line'[i].lob = COMMAND
    BY <2>1, <2>3, <2>4
  <2>6. Fresh.mode = "request"
    BY DEF Fresh
  <2> QED
    BY <2>3, <2>5, <2>6
<1> QED
  BY <1>1, <1>2, <1>3 DEF Expected

LEMMA CallAt ==
  ASSUME CallTypes, NEW at \in {"put", "flush", "read", "lost"}, call.at # "idle",
         \/ call' = [call EXCEPT !.at = at]
         \/ call' = [call EXCEPT !.at = at, !.asked = TRUE]
  PROVE  /\ call'.at = at /\ call'.by = call.by /\ call'.req = call.req
         /\ call'.path = call.path /\ (Busy' <=> Busy) /\ Busy
         /\ call' = [call EXCEPT !.at = at] => call'.asked = call.asked
<1>1. call \in [by : Stmts \union {COMMAND, "nobody"},
               at : {"idle", "put", "flush", "read", "lost"},
               path : {"none", "one", "many", "gives up", "piece", "command"},
               req : Numbers, asked : BOOLEAN]
  BY DEF CallTypes
<1>2. /\ call'.at = at /\ call'.by = call.by /\ call'.req = call.req
      /\ call'.path = call.path
      /\ call' = [call EXCEPT !.at = at] => call'.asked = call.asked
  BY <1>1
<1> QED
  BY <1>2 DEF Busy

(* The caller is a statement, or the command. *)
LEMMA CallerIs ==
  ASSUME CallTypes, Callers, Busy
  PROVE  /\ call.by \in Stmts \/ call.by = COMMAND
         /\ ByStmt <=> call.by \in Stmts
         /\ call.by \in Stmts => stmts[call.by].req = call.req
<1>1. call.by \in Stmts \union {COMMAND, "nobody"} /\ call.by # "nobody"
  BY DEF CallTypes, Callers
<1>2. COMMAND \notin Stmts
  BY StmtsAssumption DEF COMMAND
<1> QED
  BY <1>1, <1>2 DEF ByStmt, Callers

LEMMA PutClean ==
  ASSUME Always, Clean, Put
  PROVE  Clean'
<1>1. /\ SessionTypes /\ StmtTypes /\ CallTypes /\ WireTypes /\ Cut
  BY AlwaysParts
<1>2. Callers /\ Answers /\ Expected /\ Quiet /\ ~mixed
      /\ Succeeded
  BY CleanParts
<1>3. /\ put' = <<>> /\ UNCHANGED <<stmts, linked, breaks, down, srv, ran, kept, reqs, mixed>>
      /\ call.at = "put"
  BY PutCall
<1>4. call.path # "gives up"
  BY <1>2, <1>3 DEF Callers, Busy
<1>14. ~AsksAgain
  <2>1. SUFFICES ASSUME call.asked, stmts[call.by].piece_mode PROVE FALSE
    BY DEF AsksAgain
  <2>2. Busy /\ ByStmt => call.by \in Stmts
    BY <1>1, <1>2, CallerIs
  <2>3. Busy
    BY <1>3 DEF Busy
  <2>4. call.by \in Stmts
    BY <1>2, <2>1, <2>2, <2>3 DEF Callers
  <2> QED
    BY <1>2, <2>1, <2>3, <2>4 DEF Callers
<1>5. PICK at \in {"read", "flush"} : call' = [call EXCEPT !.at = at] /\ UNCHANGED <<told, spoiled>>
  BY <1>4, <1>14, PutCall
<1>6. /\ call'.at = at /\ call'.by = call.by /\ call'.req = call.req
      /\ call'.path = call.path /\ (Busy' <=> Busy) /\ call'.asked = call.asked
  BY <1>1, <1>3, <1>5, CallAt
<1>7. Callers' /\ Mine' = Mine
  BY <1>2, <1>3, <1>5, <1>6, KeepCallers
<1>8. down = <<>>
  BY <1>2, <1>3 DEF Quiet
<1>9. Answers'
  BY <1>3, <1>8, NoAnswers
<1>10. /\ linked => Line' = Line
       /\ ~linked => Within(Line', Line)
       /\ Line \in Seq(TokenType) /\ Line' \in Seq(TokenType)
  <2> DEFINE u == up'
             q == sbuff'
  <2>1. /\ u \in Seq(TokenType) /\ q \in Seq(TokenType) /\ put' = <<>>
        /\ linked => Line' = Line
        /\ ~linked => up' = up /\ (up = <<>> => Within(Line', Line))
        /\ up' = u /\ sbuff' = q /\ <<>> \in Seq(TokenType)
    BY <1>1, PutLine, EmptySeq
  <2> HIDE DEF u, q
  <2>2. Line \in Seq(TokenType) /\ Line' \in Seq(TokenType)
    BY <1>1, <2>1, LineNow, LineNext
  <2> QED
    BY <1>1, <2>1, <2>2 DEF Cut
<1>11. Expected'
  <2>1. Within(Line', Line)
    BY <1>10, WithinSelf
  <2> QED
    BY <1>2, <1>3, <1>6, <1>7, <1>10, <2>1, KeepExpected
<1>12. Quiet'
  <2>1. \A s \in Stmts : ~Pending(s)
    BY <1>2, <1>3 DEF Callers, Busy
  <2>2. \A s \in Stmts : ~Pending(s)'
    BY <1>5, <2>1 DEF Pending
  <2> QED
    BY <1>2, <1>3, <1>6, <1>8, <2>2 DEF Quiet
<1>13. Succeeded'
  BY <1>2, <1>3, <1>5 DEF Succeeded
<1> QED
  BY <1>2, <1>3, <1>7, <1>9, <1>11, <1>12, <1>13, CleanPartsNext

LEMMA SendClean ==
  ASSUME Always, Clean, SendSome
  PROVE  Clean'
<1>1. /\ SessionTypes /\ StmtTypes /\ CallTypes /\ WireTypes /\ Cut
  BY AlwaysParts
<1>2. Callers /\ Answers /\ Expected /\ Quiet /\ ~mixed
      /\ Succeeded
  BY CleanParts
<1>3. /\ UNCHANGED <<stmts, told, call, linked, breaks, down, srv, ran, kept, reqs, mixed, spoiled>>
      /\ call.at = "put" \/ (call.at = "flush" /\ sbuff # <<>>)
  BY DEF SendSome
<1>4. /\ put' = <<>> <=> put = <<>>
      /\ linked => Line' = Line
      /\ ~linked => up' = up /\ (up = <<>> => Within(Line', Line))
  BY <1>1, SendLine
<1>5. Line \in Seq(TokenType) /\ Line' \in Seq(TokenType)
  <2>1. WireTypes'
    BY SendAlways, AlwaysPartsNext
  <2> DEFINE u == up'
             q == sbuff'
             p == put'
  <2>2. /\ u \in Seq(TokenType) /\ q \in Seq(TokenType) /\ p \in Seq(TokenType)
        /\ up' = u /\ sbuff' = q /\ put' = p
    BY <2>1 DEF WireTypes
  <2> HIDE DEF u, q, p
  <2> QED
    BY <1>1, <2>2, LineNow, LineNext
<1>6. Within(Line', Line)
  BY <1>1, <1>4, <1>5, WithinSelf DEF Cut
<1>7. (Busy' <=> Busy) /\ Callers' /\ Mine' = Mine
  BY <1>2, <1>3, KeepCallers DEF Busy
<1>8. Answers'
  <2>1. Line = <<>> => Line' = <<>>
    BY <1>5, <1>6, WithinNone
  <2>2. down \in Seq(AnswerType) /\ down' \in Seq(AnswerType) /\ Within(down', down)
    BY <1>1, <1>3, WithinSelf DEF WireTypes
  <2> QED
    BY <1>2, <1>3, <1>7, <2>1, <2>2, KeepAnswers
<1>9. Expected'
  BY <1>2, <1>3, <1>4, <1>5, <1>6, <1>7, KeepExpected
<1>10. Quiet'
  <2>1. down = <<>>
    BY <1>2, <1>3 DEF Quiet
  <2>2. Busy /\ \A s \in Stmts : ~Pending(s)
    BY <1>2, <1>3 DEF Callers, Busy
  <2> QED
    BY <1>2, <1>3, <2>1, <2>2 DEF Quiet, Pending
<1>11. Succeeded'
  BY <1>2, <1>3 DEF Succeeded
<1> QED
  BY <1>2, <1>3, <1>7, <1>8, <1>9, <1>10, <1>11, CleanPartsNext

LEMMA FlushClean ==
  ASSUME Always, Clean, Flush
  PROVE  Clean'
<1>1. /\ SessionTypes /\ StmtTypes /\ CallTypes /\ WireTypes /\ Cut
  BY AlwaysParts
<1>2. Callers /\ Answers /\ Expected /\ Quiet /\ ~mixed
      /\ Succeeded
  BY CleanParts
<1>3. /\ UNCHANGED <<stmts, told, linked, breaks, down, srv, ran, kept, reqs, mixed, spoiled>>
      /\ call.at = "flush" /\ call' = [call EXCEPT !.at = "read"]
  BY DEF Flush
<1>4. /\ up' \in Seq(TokenType) /\ sbuff' = <<>> /\ put = <<>> /\ put' = <<>>
      /\ linked => up' = up \o sbuff /\ Line' = Line
      /\ ~linked => up' = up /\ (up = <<>> => Within(Line', Line))
  BY <1>1, FlushLine
<1>6. /\ call'.at = "read" /\ call'.by = call.by /\ call'.req = call.req
      /\ call'.path = call.path /\ (Busy' <=> Busy) /\ call'.asked = call.asked
  BY <1>1, <1>3, CallAt
<1>7. Callers' /\ Mine' = Mine
  BY <1>2, <1>3, <1>6, KeepCallers
<1>8. Line \in Seq(TokenType) /\ Line' \in Seq(TokenType)
  BY <1>1, <1>4, LineNow, LineNext, EmptySeq
<1>9. Within(Line', Line)
  BY <1>1, <1>4, <1>8, WithinSelf DEF Cut
<1>10. Answers'
  <2>1. Line = <<>> => Line' = <<>>
    BY <1>8, <1>9, WithinNone
  <2>2. down \in Seq(AnswerType) /\ down' \in Seq(AnswerType) /\ Within(down', down)
    BY <1>1, <1>3, WithinSelf DEF WireTypes
  <2> QED
    BY <1>2, <1>3, <1>6, <1>7, <2>1, <2>2, KeepAnswers
<1>11. Expected'
  BY <1>2, <1>3, <1>4, <1>6, <1>7, <1>8, <1>9, KeepExpected
<1>12. Quiet'
  <2>1. \A s \in Stmts : ~Pending(s)
    BY <1>2, <1>3 DEF Callers, Busy
  <2>2. \A s \in Stmts : ~Pending(s)'
    BY <1>3, <2>1 DEF Pending
  <2> QED
    BY <1>2, <1>3, <1>6, <2>2 DEF Quiet
<1>13. Succeeded'
  BY <1>2, <1>3 DEF Succeeded
<1> QED
  BY <1>2, <1>3, <1>7, <1>10, <1>11, <1>12, <1>13, CleanPartsNext

LEMMA BreakClean ==
  ASSUME Always, Clean, Break
  PROVE  Clean'
<1>1. /\ SessionTypes /\ StmtTypes /\ CallTypes /\ WireTypes
  BY AlwaysParts
<1>2. Callers /\ Answers /\ Expected /\ Quiet /\ ~mixed
      /\ Succeeded
  BY CleanParts
<1>3. /\ UNCHANGED <<stmts, told, call, put, sbuff, ran, kept, reqs, mixed, spoiled>>
      /\ linked' = FALSE /\ srv' = Fresh
      /\ \E k \in 0 .. Len(down) : down' = SubSeq(down, 1, k)
  BY DEF Break
<1>4. /\ up' = <<>> /\ sbuff' = sbuff /\ down' \in Seq(AnswerType)
      /\ Line' \in Seq(TokenType) /\ Within(Line', Line) /\ Line \in Seq(TokenType)
  BY <1>1, BreakLine, LineNow
<1>5. Callers' /\ Mine' = Mine /\ (Busy' <=> Busy)
  BY <1>2, <1>3, KeepCallers DEF Busy
<1>6. down \in Seq(AnswerType) /\ Within(down', down) /\ (down = <<>> => down' = <<>>)
  <2>1. down \in Seq(AnswerType)
    BY <1>1 DEF WireTypes
  <2>2. Len(down) \in Nat /\ 1 \in 1 .. Len(down) + 1
    BY <2>1, LenProperties
  <2>3. PICK k \in 0 .. Len(down) : down' = SubSeq(down, 1, k)
    BY <1>3
  <2>4. Within(down', down)
    BY <2>1, <2>2, <2>3, WithinSubSeq
  <2> QED
    BY <1>4, <2>1, <2>4, WithinNone
<1>7. Answers'
  <2>1. Line = <<>> => Line' = <<>>
    BY <1>4, WithinNone
  <2> QED
    BY <1>2, <1>3, <1>4, <1>5, <1>6, <2>1, KeepAnswers
<1>8. Expected'
  BY <1>2, <1>3, <1>4, <1>5, KeepExpected
<1>9. Quiet'
  BY <1>2, <1>3, <1>4, <1>6 DEF Quiet
<1>10. Succeeded'
  BY <1>2, <1>3 DEF Succeeded
<1> QED
  BY <1>2, <1>3, <1>5, <1>7, <1>8, <1>9, <1>10, CleanPartsNext

LEMMA ReadMoreClean ==
  ASSUME Always, Clean, ReadMore
  PROVE  Clean'
<1>1. WireTypes
  BY AlwaysParts
<1>2. Callers /\ Answers /\ Expected /\ Quiet /\ ~mixed
      /\ Succeeded
  BY CleanParts
<1>3. /\ UNCHANGED <<stmts, told, call, put, sbuff, linked, breaks, up, srv, ran, kept, reqs, spoiled>>
      /\ Reading /\ Received
  BY DEF ReadMore
<1>4. /\ mixed' = FALSE /\ down \in Seq(AnswerType) /\ down' \in Seq(AnswerType)
      /\ Within(down', down)
  BY <1>3, Reads
<1>5. Line' = Line /\ Line \in Seq(TokenType)
  BY <1>1, <1>3, LineNow DEF Line
<1>6. Callers' /\ Mine' = Mine
  BY <1>2, <1>3, KeepCallers DEF Busy
<1>7. Answers'
  BY <1>2, <1>3, <1>4, <1>5, <1>6, KeepAnswers
<1>8. Expected'
  BY <1>2, <1>3, <1>5, <1>6, KeepExpected, WithinSelf
<1>9. Quiet'
  <2>1. call.at = "read"
    BY <1>3 DEF Reading
  <2> QED
    BY <1>2, <1>3, <2>1 DEF Quiet, Pending
<1>10. Succeeded'
  BY <1>2, <1>3 DEF Succeeded
<1> QED
  BY <1>4, <1>6, <1>7, <1>8, <1>9, <1>10, CleanPartsNext

LEMMA ReadStreamForeignClean ==
  ASSUME Always, Clean, ReadStreamForeign
  PROVE  Clean'
<1>1. WireTypes /\ CallTypes
  BY AlwaysParts
<1>2. Callers /\ Answers /\ Expected /\ Quiet /\ ~mixed
      /\ Succeeded
  BY CleanParts
<1>3. /\ UNCHANGED <<stmts, told, put, sbuff, linked, breaks, up, srv, ran, kept, reqs, spoiled>>
      /\ Reading /\ Received /\ call' = [call EXCEPT !.at = "lost"] /\ call.at = "read"
  BY DEF ReadStreamForeign, Reading
<1>4. /\ mixed' = FALSE /\ down \in Seq(AnswerType) /\ down' \in Seq(AnswerType)
      /\ Within(down', down)
  BY <1>3, Reads
<1>5. Line' = Line /\ Line \in Seq(TokenType)
  BY <1>1, <1>3, LineNow DEF Line
<1>6. /\ call'.at = "lost" /\ call'.by = call.by /\ call'.req = call.req
      /\ call'.path = call.path /\ (Busy' <=> Busy) /\ call'.asked = call.asked
  BY <1>1, <1>3, CallAt
<1>7. Callers' /\ Mine' = Mine
  BY <1>2, <1>3, <1>6, KeepCallers
<1>8. Answers'
  BY <1>2, <1>3, <1>4, <1>5, <1>6, <1>7, KeepAnswers
<1>9. Expected'
  BY <1>2, <1>3, <1>5, <1>6, <1>7, KeepExpected, WithinSelf
<1>10. Quiet'
  BY <1>2, <1>3, <1>6 DEF Quiet, Pending
<1>11. Succeeded'
  BY <1>2, <1>3 DEF Succeeded
<1> QED
  BY <1>4, <1>7, <1>8, <1>9, <1>10, <1>11, CleanPartsNext

LEMMA ReadStreamCallbackClean ==
  ASSUME Always, Clean, ReadStreamCallback
  PROVE  Clean'
<1>1. WireTypes /\ CallTypes /\ OnePlace
  BY AlwaysParts
<1>2. Callers /\ Answers /\ Expected /\ Quiet /\ ~mixed
      /\ Succeeded
  BY CleanParts
<1>3. /\ UNCHANGED <<stmts, told, sbuff, linked, breaks, up, srv, ran, kept, reqs, spoiled>>
      /\ Reading /\ Received /\ call' = [call EXCEPT !.at = "put", !.asked = TRUE]
      /\ call.at = "read" /\ Got.kind = "S" /\ ByStmt /\ stmts[call.by].lob = "callback"
  BY DEF ReadStreamCallback, Reading
<1>4. /\ mixed' = FALSE /\ down' = <<>> /\ Line = <<>> /\ (linked => srv.mode = "stream")
  BY <1>3, Reads
<1>5. /\ put' \in Seq(TokenType) /\ put' # <<>> /\ put'[Len(put')].t = "stop"
      /\ \A i \in 1 .. Len(put') - 1 : put'[i].t = "piece"
      /\ \A i \in 1 .. Len(put') : put'[i].t # "head"
  BY <1>1, CallbackTokens
<1>6. /\ call'.at = "put" /\ call'.by = call.by /\ call'.req = call.req
      /\ call'.path = call.path /\ (Busy' <=> Busy) /\ Busy
  BY <1>1, <1>3, CallAt
<1>7. Callers' /\ Mine' = Mine
  BY <1>2, <1>3, <1>6, KeepCallers
<1>8. Answers'
  BY <1>4, NoAnswers
<1>9. up = <<>> /\ sbuff = <<>> /\ Line' = put'
  <2>1. up = <<>> /\ sbuff = <<>>
    BY <1>1, <1>4, LineEmpty
  <2>2. Line' = <<>> \o put'
    BY <1>4, ReadStreamCallbackAlways
  <2> QED
    BY <1>5, <2>1, <2>2, ConcatEmptySeq
<1>10. Expected'
  <2>1. linked => Fits(Line', srv)
    BY <1>4, <1>5, <1>9 DEF Fits
  <2>2. linked => srv.req = 0 \/ srv.req \in Mine
    BY <1>2 DEF Expected
  <2>3. call'.by # COMMAND
    BY <1>3, <1>6 DEF ByStmt
  <2> QED
    BY <1>3, <1>5, <1>7, <1>9, <2>1, <2>2, <2>3 DEF Expected
<1>11. Quiet'
  BY <1>2, <1>3, <1>4, <1>6, <1>9 DEF Quiet, Pending
<1>12. Succeeded'
  BY <1>2, <1>3 DEF Succeeded
<1> QED
  BY <1>4, <1>7, <1>8, <1>10, <1>11, <1>12, CleanPartsNext

(* A call returns, and the exchange is over. *)
LEMMA ReturnClean ==
  ASSUME StmtTypes, CallTypes, Callers, Busy, NEW outcome \in {"success", "error"},
         Return(outcome, TRUE), ~spoiled', UNCHANGED reqs,
         \A s \in Stmts : /\ stmts'[s].req = stmts[s].req
                          /\ stmts'[s].piece_mode = stmts[s].piece_mode
  PROVE  /\ Callers'
         /\ sbuff' = <<>> /\ (down' = <<>> \/ linked')
         /\ call' = NoCall /\ ~Busy' /\ \A s \in Stmts : ~Pending(s)'
         /\ \A s \in Stmts : told'[s] = "success" =>
              (outcome = "success" /\ call.by = s) \/ told[s] = "success"
<1>1. /\ call' = NoCall
      /\ told' = IF ByStmt THEN [told EXCEPT ![call.by] = outcome] ELSE told
      /\ ~Spoils(TRUE)
  BY DEF Return
<1>2. /\ call.by \in Stmts \/ call.by = COMMAND
      /\ ByStmt <=> call.by \in Stmts
  BY CallerIs
<1>3. /\ sbuff' = <<>> /\ (linked' \/ down' = <<>>)
      /\ ByStmt => ~stmts'[call.by].piece_mode
  BY <1>1 DEF Spoils
<1>4. ~Busy' /\ NoCall.by = "nobody"
  BY <1>1, NoCallType DEF Busy
<1>5. \A s \in Stmts : told[s] # "need data"
  BY DEF Callers, Pending
<1>6. \A s \in Stmts : told'[s] = IF ByStmt /\ s = call.by THEN outcome ELSE told[s]
  BY <1>1, <1>2 DEF StmtTypes
<1>7. \A s \in Stmts : told'[s] # "need data"
  BY <1>5, <1>6
<1>8. \A s \in Stmts : ~stmts'[s].piece_mode
  <2>1. \A s \in Stmts : stmts[s].piece_mode => call.by = s
    BY <1>5 DEF Callers, Pending
  <2> QED
    BY <1>2, <1>3, <2>1
<1>9. Callers'
  BY <1>4, <1>7, <1>8 DEF Callers, Pending
<1>10. \A s \in Stmts : told'[s] = "success" =>
              (outcome = "success" /\ call.by = s) \/ told[s] = "success"
  BY <1>6
<1>11. \A s \in Stmts : ~Pending(s)'
  BY <1>7 DEF Pending
<1> QED
  BY <1>1, <1>3, <1>4, <1>9, <1>10, <1>11

LEMMA OverClean ==
  ASSUME WireTypes', Callers', ~Busy', call' = NoCall, ~mixed', srv' = Fresh,
         up' = <<>>, sbuff' = <<>>, put' = <<>>, down' = <<>>,
         \A s \in Stmts : ~Pending(s)',
         Succeeded', kept' = {}
  PROVE  Clean'
<1>1. Answers'
  BY NoAnswers
<1>2. Line' = <<>>
  <2>1. <<>> \in Seq(TokenType)
    BY EmptySeq
  <2> QED
    BY <2>1, LineNext
<1>3. Fresh.mode = "request" /\ Fresh.req = 0 /\ NoCall.by = "nobody" /\ NoCall.at = "idle"
  BY NoCallType DEF Fresh
<1>4. Expected'
  <2>1. Fits(Line', srv')
    BY <1>2, <1>3 DEF Fits
  <2>2. 1 .. Len(Line') = {}
    BY <1>2, EmptySeq
  <2> QED
    BY <1>3, <2>1, <2>2 DEF Expected, COMMAND
<1>5. Quiet'
  BY <1>3 DEF Quiet
<1> QED
  BY <1>1, <1>4, <1>5, CleanPartsNext

LEMMA ReadEndClean ==
  ASSUME Always, Clean, ReadEnd, ~spoiled'
  PROVE  Clean'
<1>1. WireTypes /\ CallTypes /\ StmtTypes
  BY AlwaysParts
<1>2. Callers /\ Answers /\ Expected /\ Quiet /\ ~mixed
      /\ Succeeded
  BY CleanParts
<1>3. /\ UNCHANGED <<stmts, put, sbuff, linked, breaks, up, srv, ran, kept, reqs>>
      /\ Reading /\ Received /\ Busy
      /\ EndsAnswer(Got.kind) \/ (~ByStmt /\ Got.kind = "more")
  BY ReadEndFacts DEF Reading, Busy
<1>4. /\ mixed' = FALSE /\ Got.kind # "more" => down' = <<>>
  BY <1>3, Reads
<1>5. EndsAnswer(Got.kind)
  <2>1. ~ByStmt => Got.kind # "more"
    BY <1>3, Reads DEF ByStmt
  <2> QED
    BY <1>3, <2>1
<1>6. /\ Line = <<>> /\ srv = Fresh /\ Got.kind \in {"E", "K"}
      /\ mixed' = FALSE /\ down' = <<>>
      /\ Got.kind = "K" => ran[call.req] = 1
  <2>1. Got.kind \in {"E", "K"}
    BY <1>5 DEF EndsAnswer
  <2> QED
    BY <1>3, <1>5, <2>1, Reads
<1>7. PICK outcome \in {"success", "error", "need data"} :
              /\ Return(outcome, TRUE)
              /\ outcome = "success" => Got.kind # "E"
              /\ outcome = "need data" => ByStmt /\ stmts[call.by].piece_mode
  BY ReadEndFacts
<1>8. outcome # "need data"
  <2>1. ~Spoils(TRUE)
    BY <1>7 DEF Return
  <2>2. ByStmt => ~stmts[call.by].piece_mode
    BY <1>3, <2>1 DEF Spoils
  <2> QED
    BY <1>7, <2>2
<1>9. /\ Callers' /\ call' = NoCall /\ ~Busy' /\ \A s \in Stmts : ~Pending(s)'
      /\ \A s \in Stmts : told'[s] = "success" =>
           (outcome = "success" /\ call.by = s) \/ told[s] = "success"
  BY <1>1, <1>2, <1>3, <1>7, <1>8, ReturnClean
<1>10. Succeeded'
  <2>1. \A s \in Stmts : call.by = s => stmts[s].req = call.req
    BY <1>2, <1>3 DEF Callers
  <2>2. call.req \in Reqs
    <3> QED
      BY <1>1, <1>2, <1>3, RequestNumber DEF Callers, StmtTypes
  <2> QED
    BY <1>2, <1>3, <1>6, <1>7, <1>9, <2>1, <2>2 DEF Succeeded
<1>11. up' = <<>> /\ sbuff' = <<>> /\ put' = <<>>
  BY <1>1, <1>3, <1>6, LineEmpty
<1>12. WireTypes'
  BY <1>1, <1>3, <1>6, EmptySeq DEF WireTypes
<1>13. srv' = Fresh /\ kept' = {}
  BY <1>2, <1>3, <1>6 DEF Quiet
<1> QED
  BY <1>6, <1>9, <1>10, <1>11, <1>12, <1>13, OverClean

LEMMA NetErrorClean ==
  ASSUME Always, Sent, Clean, NetError, ~spoiled'
  PROVE  Clean'
<1>1. /\ SessionTypes /\ StmtTypes /\ CallTypes /\ WireTypes /\ Cut /\ WireTypes'
  BY AlwaysParts, AlwaysPartsNext, NetErrorAlways
<1>2. Callers /\ Answers /\ Expected /\ Quiet /\ ~mixed
      /\ Succeeded
  BY CleanParts
<1>3. /\ ~linked /\ put' = <<>> /\ UNCHANGED <<breaks, ran, reqs, mixed>>
      /\ \/ up' = <<>> /\ srv' = Fresh /\ ByStmt
         \/ up' = up /\ srv' = srv /\ UNCHANGED <<stmts, linked, down>> /\ ~ByStmt
      /\ ByStmt => Reconnect
      /\ Return("error", TRUE)
  BY <1>1, NetErrorFacts
<1>4. up' = <<>> /\ srv' = Fresh
  BY <1>1, <1>3 DEF Cut
<1>5. Busy /\ down = <<>>
  <2>1. \/ call.at = "put"
        \/ call.at = "flush" /\ sbuff # <<>>
        \/ call.at = "read" /\ down = <<>>
    BY DEF NetError
  <2> QED
    BY <1>2, <2>1 DEF Busy, Quiet
<1>6. \A s \in Stmts : /\ stmts'[s].req = stmts[s].req
                       /\ stmts'[s].piece_mode = stmts[s].piece_mode
  <2>1. stmts' = [stmts EXCEPT ![call.by].prepared = FALSE] \/ stmts' = stmts
    BY DEF NetError
  <2>2. stmts \in [Stmts -> [prepared : BOOLEAN, lob : Lobs \union {"none"},
                            piece_mode : BOOLEAN, req : Numbers]]
    BY <1>1 DEF StmtTypes
  <2> QED
    BY <2>1, <2>2
<1>7. /\ Callers' /\ sbuff' = <<>>
      /\ call' = NoCall /\ ~Busy' /\ \A s \in Stmts : ~Pending(s)'
      /\ \A s \in Stmts : told'[s] = "success" => told[s] = "success"
  BY <1>1, <1>2, <1>3, <1>5, <1>6, ReturnClean
<1>8. down' = <<>>
  <2>1. linked \in BOOLEAN
    BY <1>1 DEF SessionTypes
  <2>2. CASE ByStmt
    BY <1>1, <1>3, <1>5, <2>1, <2>2, ReconnectTypes
  <2>3. CASE ~ByStmt
    BY <1>3, <1>5, <2>3
  <2> QED
    BY <2>2, <2>3
<1>9. Succeeded'
  BY <1>2, <1>3, <1>6, <1>7 DEF Succeeded
<1>10. ~mixed' /\ put' = <<>> /\ kept' = {}
  <2>1. kept' = kept \union Heads(sbuff')
    BY <1>1, NetErrorFacts
  <2>2. 1 .. Len(<<>>) = {}
    BY EmptySeq
  <2>3. Heads(<<>>) = {}
    BY <2>2 DEF Heads
  <2>4. kept = {}
    BY <1>2 DEF Quiet
  <2> QED
    BY <1>2, <1>3, <1>7, <2>1, <2>3, <2>4
<1> QED
  BY <1>1, <1>4, <1>7, <1>8, <1>9, <1>10, OverClean

LEMMA ReadStreamPiecesClean ==
  ASSUME Always, Clean, ReadStreamPieces, ~spoiled'
  PROVE  Clean'
<1>1. WireTypes /\ CallTypes /\ StmtTypes /\ Cut
  BY AlwaysParts
<1>2. Callers /\ Answers /\ Expected /\ Quiet /\ ~mixed
      /\ Succeeded
  BY CleanParts
<1>3. /\ UNCHANGED <<put, sbuff, linked, breaks, up, srv, ran, kept, reqs>>
      /\ Reading /\ Received /\ Return("need data", FALSE) /\ Busy /\ ByStmt
      /\ stmts' = [stmts EXCEPT ![call.by].piece_mode = TRUE] /\ Got.kind = "S"
      /\ stmts[call.by].lob = "pieces"
  BY DEF ReadStreamPieces, Reading, Busy
<1>4. /\ mixed' = FALSE /\ down' = <<>> /\ Line = <<>> /\ (linked => srv.mode = "stream")
  BY <1>3, Reads
<1>5. call.by \in Stmts /\ stmts[call.by].req = call.req /\ call.req \in 1 .. reqs
  BY <1>1, <1>2, <1>3, CallerIs DEF Callers
<1>6. /\ call' = NoCall /\ told' = [told EXCEPT ![call.by] = "need data"]
  BY <1>3 DEF Return
<1>7. \A s \in Stmts : /\ stmts'[s].req = stmts[s].req /\ stmts'[s].lob = stmts[s].lob
                       /\ s # call.by => stmts'[s].piece_mode = stmts[s].piece_mode
                       /\ told'[s] = IF s = call.by THEN "need data" ELSE told[s]
  BY <1>1, <1>3, <1>6 DEF StmtTypes
<1>8. ~Busy' /\ NoCall.by = "nobody" /\ NoCall.at = "idle"
  BY <1>6, NoCallType DEF Busy
<1>9. \A s \in Stmts : told[s] # "need data" /\ (stmts[s].piece_mode => call.by = s)
  BY <1>2, <1>3 DEF Callers, Pending
<1>10. \A s \in Stmts : Pending(s)' <=> s = call.by
  BY <1>7, <1>9 DEF Pending
<1>11. Callers'
  BY <1>3, <1>5, <1>7, <1>8, <1>9, <1>10, ZenonT(60) DEF Callers
<1>12. Mine' = {call.req} /\ Mine = {call.req}
  <2>1. call.req \in Numbers
    BY <1>1 DEF CallTypes
  <2>2. Mine = {call.req}
    <3>1. \A s \in Stmts : ~Pending(s)
      BY <1>9 DEF Pending
    <3> QED
      BY <1>3, <2>1, <3>1 DEF Mine
  <2>3. Mine' = {call.req}
    <3>1. Mine' = {r \in Numbers : \E s \in Stmts : s = call.by /\ r = stmts'[s].req}
      BY <1>8, <1>10 DEF Mine
    <3>2. stmts'[call.by].req = call.req
      BY <1>5, <1>7
    <3> QED
      BY <1>5, <2>1, <3>1, <3>2
  <2> QED
    BY <2>2, <2>3
<1>13. Answers'
  BY <1>4, NoAnswers
<1>14. Line' = <<>> /\ up = <<>> /\ sbuff = <<>> /\ put = <<>>
  BY <1>1, <1>3, <1>4, LineEmpty DEF Line
<1>15. Expected'
  <2>1. linked => Fits(Line', srv)
    BY <1>4, <1>14 DEF Fits
  <2>2. linked => srv.req = 0 \/ srv.req \in Mine
    BY <1>2 DEF Expected
  <2>3. 1 .. Len(Line') = {}
    BY <1>14, EmptySeq
  <2> QED
    BY <1>3, <1>6, <1>8, <1>12, <2>1, <2>2, <2>3 DEF Expected, COMMAND
<1>16. Quiet'
  <2>1. kept' = {} /\ call'.at = "idle" /\ call'.at # "put" /\ call'.at # "flush"
    BY <1>2, <1>3, <1>6, <1>8 DEF Quiet
  <2>2. \E s \in Stmts : Pending(s)'
    BY <1>5, <1>10
  <2>3. /\ sbuff' = <<>> /\ up' = <<>> /\ down' = <<>> /\ (linked' => srv'.mode = "stream")
    BY <1>3, <1>4, <1>14
  <2> QED
    BY <2>1, <2>2, <2>3 DEF Quiet
<1>17. Succeeded'
  BY <1>2, <1>3, <1>7, ZenonT(60) DEF Succeeded
<1> QED
  BY <1>4, <1>11, <1>13, <1>15, <1>16, <1>17, CleanPartsNext

(* The server takes what it expects. *)
LEMMA ServerTakesClean ==
  ASSUME Always, Clean, ServerTakes
  PROVE  Clean'
<1>1. /\ SessionTypes /\ WireTypes /\ OnePlace /\ Announced
  BY AlwaysParts
<1>2. Callers /\ Answers /\ Expected /\ Quiet /\ ~mixed
      /\ Succeeded
  BY CleanParts
<1>3. /\ UNCHANGED <<stmts, told, call, put, sbuff, linked, breaks, down, ran, kept, reqs, mixed,
                     spoiled>>
      /\ linked /\ srv' = Takes(up[1]) /\ srv.mode \notin {"run", "lost"}
  BY DEF ServerTakes
<1>4. /\ up # <<>> /\ up[1] = Line[1] /\ up[1] \in TokenType
      /\ Line \in Seq(TokenType) /\ Line # <<>> /\ Line' = Tail(Line)
  BY <1>1, TakesLine
<1>5. Callers' /\ Mine' = Mine
  BY <1>2, <1>3, KeepCallers DEF Busy
<1>6. Answers'
  <2>1. down \in Seq(AnswerType) /\ down' \in Seq(AnswerType) /\ Within(down', down)
    BY <1>1, <1>3, WithinSelf DEF WireTypes
  <2> QED
    BY <1>2, <1>3, <1>4, <1>5, <2>1, KeepAnswers
<1> DEFINE q == Line
           p == Tail(q)
           tok == q[1]
           now == srv'
<1>7. /\ q \in Seq(TokenType) /\ Len(q) \in Nat /\ 1 \in 1 .. Len(q)
      /\ p \in Seq(TokenType) /\ Len(p) = Len(q) - 1
      /\ \A i \in 1 .. Len(q) - 1 : p[i] = q[i + 1]
      /\ tok.rows \in Nat /\ (p = <<>> <=> Len(q) = 1)
  <2>1. /\ q \in Seq(TokenType) /\ Len(q) \in Nat /\ 1 \in 1 .. Len(q)
        /\ p \in Seq(TokenType) /\ Len(p) = Len(q) - 1
        /\ \A i \in 1 .. Len(q) - 1 : p[i] = q[i + 1]
    BY <1>4, HeadTailProperties, EmptyIffNone, LenProperties
  <2>2. tok.rows \in Nat
    BY <1>4 DEF TokenType
  <2>3. p = <<>> <=> Len(p) = 0
    BY <2>1, EmptyIffNone
  <2> QED
    BY <2>1, <2>2, <2>3
<1>8. Fits(q, srv) /\ q # <<>>
  BY <1>2, <1>3, <1>4 DEF Expected
<1>9. now = Takes(tok) /\ Line' = p
  BY <1>3, <1>4
<1>10. /\ srv \in [mode : {"request", "rows", "part", "stream", "run", "lost"},
                  req : Numbers, left : Nat, lob : Objects, more : Nat]
       /\ srv.mode = "rows" => srv.left > 0
  BY <1>1 DEF SessionTypes, Announced
<1>11. /\ tok.t = "head" => tok.req \in Mine /\ (call.by = COMMAND => tok.lob = COMMAND)
       /\ srv.req = 0 \/ srv.req \in Mine
       /\ call.by = COMMAND => (srv.mode # "request" => srv.lob = COMMAND) /\ srv.mode # "stream"
  BY <1>2, <1>3, <1>7 DEF Expected
<1>12. tok.t = "head" => tok.rows > 0
  <2>1. Waiting(q, reqs, ran, srv.req, kept)
    BY <1>1 DEF OnePlace
  <2> QED
    BY <1>7, <2>1 DEF Waiting, Numbered
<1> HIDE DEF q, p, tok, now
<1>18. \A i \in 1 .. Len(p) : /\ p[i] = q[i + 1] /\ i + 1 \in 1 .. Len(q) /\ i + 1 \in 2 .. Len(q)
  BY <1>7
<1> DEFINE Good == /\ Fits(p, now)
                   /\ (now.req = 0 \/ now.req \in Mine)
                   /\ (call.by = COMMAND => now.lob = COMMAND /\ now.mode # "stream")
<1>13. \/ srv.mode = "request" /\ tok.t = "head" /\ Len(q) = tok.rows + 1
          /\ \A i \in 2 .. Len(q) : q[i].t = "row"
       \/ srv.mode = "rows" /\ Len(q) = srv.left /\ \A i \in 1 .. Len(q) : q[i].t = "row"
       \/ srv.mode = "stream" /\ q[Len(q)].t = "stop" /\ \A i \in 1 .. Len(q) - 1 : q[i].t = "piece"
  BY <1>3, <1>8 DEF Fits, tok
<1>14. ASSUME srv.mode = "request" /\ tok.t = "head" /\ Len(q) = tok.rows + 1
              /\ \A i \in 2 .. Len(q) : q[i].t = "row"
      PROVE  Good
  <2>1. now = [srv EXCEPT !.mode = "rows", !.req = tok.req, !.left = tok.rows,
                          !.lob = tok.lob, !.more = 0]
    BY <1>9, <1>14, TakesCases
  <2>2. now.mode = "rows" /\ now.req = tok.req /\ now.left = tok.rows /\ now.lob = tok.lob
    BY <1>10, <2>1
  <2>3. Len(p) = tok.rows
    BY <1>7, <1>14
  <2>4. \A i \in 1 .. Len(p) : p[i].t = "row"
    BY <1>14, <1>18
  <2> QED
    BY <1>11, <1>14, <2>2, <2>3, <2>4 DEF Fits
<1>15. ASSUME srv.mode = "rows" /\ Len(q) = srv.left /\ \A i \in 1 .. Len(q) : q[i].t = "row"
      PROVE  Good
  <2>1. tok.t = "row"
    BY <1>7, <1>15 DEF tok
  <2>2. CASE srv.left = 1
    <3>1. now = [srv EXCEPT !.mode = "run", !.left = @ - 1]
      BY <1>9, <1>15, <2>1, <2>2, TakesCases
    <3>2. now.mode = "run" /\ now.req = srv.req /\ now.lob = srv.lob
      BY <1>10, <3>1
    <3>3. p = <<>>
      BY <1>7, <1>15, <2>2
    <3> QED
      BY <1>11, <1>15, <3>2, <3>3 DEF Fits
  <2>3. CASE srv.left # 1
    <3>1. now = [srv EXCEPT !.mode = "rows", !.left = @ - 1]
      BY <1>9, <1>15, <2>1, <2>3, TakesCases
    <3>2. now.mode = "rows" /\ now.req = srv.req /\ now.lob = srv.lob /\ now.left = srv.left - 1
      BY <1>10, <3>1
    <3>3. Len(p) = now.left
      BY <1>7, <1>15, <3>2
    <3>4. \A i \in 1 .. Len(p) : p[i].t = "row"
      BY <1>15, <1>18
    <3> QED
      BY <1>11, <1>15, <3>2, <3>3, <3>4 DEF Fits
  <2> QED
    BY <2>2, <2>3
<1>16. ASSUME srv.mode = "stream" /\ q[Len(q)].t = "stop" /\ \A i \in 1 .. Len(q) - 1 : q[i].t = "piece"
      PROVE  Good
  <2>1. CASE Len(q) = 1
    <3>1. tok.t = "stop"
      BY <1>16, <2>1 DEF tok
    <3>2. now = [srv EXCEPT !.mode = "run", !.lob = "none"]
      BY <1>9, <1>16, <3>1, TakesCases
    <3>3. now.mode = "run" /\ now.req = srv.req
      BY <1>10, <3>2
    <3> QED
      BY <1>7, <1>11, <1>16, <2>1, <3>3 DEF Fits
  <2>2. CASE Len(q) # 1
    <3>1. 1 \in 1 .. Len(q) - 1
      BY <1>7, <2>2
    <3>2. tok.t = "piece"
      BY <1>16, <3>1 DEF tok
    <3>3. now = srv
      BY <1>9, <1>16, <3>2, TakesCases
    <3>4. p # <<>> /\ p[Len(p)] = q[Len(q)]
      BY <1>7, <2>2
    <3>5. \A i \in 1 .. Len(p) - 1 : p[i].t = "piece"
      BY <1>7, <1>16, SMTT(40)
    <3> QED
      BY <1>11, <1>16, <3>3, <3>4, <3>5 DEF Fits
  <2> QED
    BY <2>1, <2>2
<1>17. Good
  BY <1>13, <1>14, <1>15, <1>16
<1>19. \A i \in 1 .. Len(q) : q[i].t = "head" =>
          q[i].req \in Mine /\ (call.by = COMMAND => q[i].lob = COMMAND)
  BY <1>2, <1>3 DEF Expected, q
<1>20. Expected'
  <2>1. \A i \in 1 .. Len(p) : p[i].t = "head" =>
          p[i].req \in Mine /\ (call.by = COMMAND => p[i].lob = COMMAND)
    BY <1>18, <1>19
  <2>2. call' = call /\ Line' = p /\ srv' = now
    BY <1>3, <1>9 DEF now
  <2> QED
    BY <1>5, <1>17, <2>1, <2>2 DEF Expected
<1>21. Quiet'
  <2>1. call.at # "idle"
    BY <1>2, <1>4 DEF Quiet
  <2>2. \A s \in Stmts : ~Pending(s)
    BY <1>2, <2>1 DEF Callers, Busy
  <2> QED
    BY <1>2, <1>3, <2>1, <2>2 DEF Quiet, Pending
<1>22. Succeeded'
  BY <1>2, <1>3 DEF Succeeded
<1> QED
  BY <1>2, <1>3, <1>5, <1>6, <1>20, <1>21, <1>22, CleanPartsNext

LEMMA ServerAnswersClean ==
  ASSUME Always, Clean, ServerAnswers
  PROVE  Clean'
<1>1. /\ SessionTypes /\ WireTypes /\ OnePlace /\ StmtTypes
  BY AlwaysParts
<1>2. Callers /\ Answers /\ Expected /\ Quiet /\ ~mixed
      /\ Succeeded
  BY CleanParts
<1>3. /\ UNCHANGED <<stmts, told, call, put, sbuff, linked, breaks, up, kept, reqs, mixed, spoiled>>
      /\ linked /\ srv.mode = "run"
      /\ \/ /\ srv.lob # COMMAND /\ Answer("more")
            /\ srv' = [srv EXCEPT !.more = @ + 1] /\ UNCHANGED ran
         \/ /\ srv.lob \in {"callback", "pieces"} /\ Answer("S")
            /\ srv' = [srv EXCEPT !.mode = "stream"] /\ UNCHANGED ran
         \/ Answer("E") /\ srv' = Fresh /\ UNCHANGED ran
         \/ /\ srv.lob \in {"none", COMMAND} /\ Answer("K")
            /\ srv' = Fresh /\ ran' = [ran EXCEPT ![srv.req] = @ + 1]
  BY AnswerCases
<1>4. Callers' /\ Mine' = Mine
  BY <1>2, <1>3, KeepCallers DEF Busy
<1>5. Line = <<>> /\ Line' = <<>>
  <2>1. Fits(Line, srv)
    BY <1>2, <1>3 DEF Expected
  <2>2. Line = <<>>
    BY <1>3, <2>1 DEF Fits
  <2> QED
    BY <1>3, <2>2 DEF Line
<1>6. srv.req \in Mine /\ ran[srv.req] = 0 /\ srv.req \in Reqs
  <2>1. srv.req # 0 /\ srv.req \in 1 .. reqs /\ ran[srv.req] = 0
    BY <1>1, <1>2, <1>3 DEF OnePlace, Quiet
  <2>2. reqs \in 0 .. MaxReqs
    BY <1>1 DEF StmtTypes
  <2> QED
    BY <1>2, <1>3, <2>1, <2>2, BoundsAssumption DEF Expected, Reqs
<1>7. \A i \in 1 .. Len(down) : down[i].kind = "more" /\ down[i].req \in Mine
  <2>1. Fresh.mode = "request"
    BY DEF Fresh
  <2>2. down \in Seq(AnswerType) /\ \A i \in 1 .. Len(down) : down[i] \in AnswerType
    BY <1>1, ElementOfSeq DEF WireTypes
  <2> SUFFICES ASSUME NEW i \in 1 .. Len(down)
               PROVE  down[i].kind = "more" /\ down[i].req \in Mine
    OBVIOUS
  <2>3. /\ down[i].req \in Mine
        /\ down[i].kind = "S" => (linked => srv.mode = "stream")
        /\ EndsAnswer(down[i].kind) => srv = Fresh
    BY <1>2 DEF Answers
  <2>4. down[i].kind \in {"more", "S", "E", "K"}
    BY <2>2 DEF AnswerType
  <2> QED
    BY <1>3, <2>1, <2>3, <2>4 DEF EndsAnswer
<1>8. PICK kind \in {"more", "S", "E", "K"} :
        /\ down' = Append(down, [kind |-> kind, req |-> srv.req])
        /\ kind = "more" => srv.lob # COMMAND
        /\ kind = "S" => srv'.mode = "stream" /\ srv.lob # COMMAND
        /\ kind \in {"E", "K"} => srv' = Fresh
        /\ kind = "K" => ran'[srv.req] = 1
        /\ kind \in {"more", "S"} => srv'.req = srv.req /\ srv'.lob = srv.lob
        /\ kind = "more" => srv'.mode = "run"
  <2>1. srv \in [mode : {"request", "rows", "part", "stream", "run", "lost"},
                  req : Numbers, left : Nat, lob : Objects, more : Nat]
        /\ ran \in [Reqs -> Nat]
    BY <1>1 DEF SessionTypes
  <2>2. CASE /\ srv.lob # COMMAND /\ Answer("more")
             /\ srv' = [srv EXCEPT !.more = @ + 1]
    BY <1>3, <2>1, <2>2 DEF Answer
  <2>3. CASE /\ srv.lob \in {"callback", "pieces"} /\ Answer("S")
             /\ srv' = [srv EXCEPT !.mode = "stream"]
    BY <2>1, <2>3 DEF Answer, COMMAND
  <2>4. CASE Answer("E") /\ srv' = Fresh
    BY <2>4 DEF Answer
  <2>5. CASE Answer("K") /\ srv' = Fresh /\ ran' = [ran EXCEPT ![srv.req] = @ + 1]
    <3>1. ran'[srv.req] = 1
      BY <1>6, <2>1, <2>5
    <3> QED
      BY <2>5, <3>1 DEF Answer
  <2> QED
    BY <1>3, <2>2, <2>3, <2>4, <2>5
<1>9. /\ down \in Seq(AnswerType) /\ [kind |-> kind, req |-> srv.req] \in AnswerType
      /\ Len(down) \in Nat
  BY <1>1, <1>6, LenProperties DEF WireTypes, AnswerType, Numbers
<1> DEFINE a == [kind |-> kind, req |-> srv.req]
           d == down'
<1>10. /\ Len(d) = Len(down) + 1 /\ d[Len(down) + 1] = a
       /\ \A i \in 1 .. Len(down) : d[i] = down[i]
  BY <1>8, <1>9, AppendProperties
<1>11. a.kind = kind /\ a.req = srv.req
  OBVIOUS
<1> HIDE DEF a, d
<1>12. \A i \in 1 .. Len(d) : /\ d[i].req \in Mine
                              /\ d[i].kind # "more" => i = Len(d) /\ d[i] = a
                              /\ d[i].kind = "more" => i \in 1 .. Len(down) \/ kind = "more"
  <2>1. \A i \in 1 .. Len(d) : i \in 1 .. Len(down) \/ i = Len(down) + 1
    BY <1>9, <1>10
  <2> QED
    BY <1>6, <1>7, <1>10, <1>11, <2>1
<1>13. call.by = COMMAND => srv.lob = COMMAND /\ down = <<>>
  <2>1. call.by = COMMAND => srv.lob = COMMAND
    BY <1>2, <1>3 DEF Expected
  <2>2. ASSUME call.by = COMMAND PROVE down = <<>>
    <3>1. \A i \in 1 .. Len(down) : FALSE
      BY <1>2, <1>7, <2>2 DEF Answers
    <3>2. down # <<>> => 1 \in 1 .. Len(down)
      BY <1>9, EmptyIffNone
    <3> QED
      BY <3>1, <3>2
  <2> QED
    BY <2>1, <2>2
<1>14. Answers'
  <2> SUFFICES ASSUME NEW i \in 1 .. Len(down')
               PROVE  /\ down'[i].req \in Mine'
                      /\ down'[i].kind # "more" => i = Len(down')
                      /\ down'[i].kind = "K" => ran'[down'[i].req] = 1
                      /\ down'[i].kind = "S" => Line' = <<>> /\ (linked' => srv'.mode = "stream")
                      /\ EndsAnswer(down'[i].kind) => Line' = <<>> /\ srv' = Fresh
                      /\ call'.by = COMMAND => down'[i].kind # "more"
    BY DEF Answers, EndsAnswer
  <2>1. /\ d[i].req \in Mine
        /\ d[i].kind # "more" => i = Len(d) /\ d[i] = a
        /\ d[i].kind = "more" => i \in 1 .. Len(down) \/ kind = "more"
    BY <1>12 DEF d
  <2>2. call.by = COMMAND => d[i].kind # "more"
    <3>1. ASSUME call.by = COMMAND PROVE ~(i \in 1 .. Len(down)) /\ kind # "more"
      BY <1>8, <1>13, <3>1, EmptySeq
    <3> QED
      BY <2>1, <3>1
  <2>3. d[i].kind = "K" => ran'[d[i].req] = 1
    BY <1>8, <1>11, <2>1
  <2>4. d[i].kind = "S" => srv'.mode = "stream"
    BY <1>8, <1>11, <2>1
  <2>5. EndsAnswer(d[i].kind) => srv' = Fresh
    BY <1>8, <1>11, <2>1 DEF EndsAnswer
  <2> QED
    BY <1>3, <1>4, <1>5, <2>1, <2>2, <2>3, <2>4, <2>5 DEF d
<1>15. Expected'
  <2>1. Fresh.mode = "request" /\ Fresh.req = 0
    BY DEF Fresh
  <2>2. Fits(Line', srv')
    BY <1>5, <1>8, <2>1 DEF Fits
  <2>3. srv'.req = 0 \/ srv'.req \in Mine'
    BY <1>4, <1>6, <1>8, <2>1
  <2>4. call.by = COMMAND => (srv'.mode # "request" => srv'.lob = COMMAND) /\ srv'.mode # "stream"
    BY <1>8, <1>13, <2>1
  <2>5. 1 .. Len(Line') = {}
    BY <1>5, EmptySeq
  <2> QED
    BY <1>3, <2>2, <2>3, <2>4, <2>5 DEF Expected
<1>16. Quiet'
  <2>1. call.at # "idle"
    <3>1. Fresh.mode = "request"
      BY DEF Fresh
    <3> QED
      BY <1>2, <1>3, <3>1 DEF Quiet
  <2>2. call.at # "put"
    <3>1. put = <<>>
      BY <1>1, <1>5, LineEmpty
    <3>2. CallTypes
      BY AlwaysParts
    <3> QED
      BY <3>1, <3>2 DEF CallTypes
  <2>3. sbuff' = <<>>
    BY <1>1, <1>3, <1>5, LineEmpty
  <2>4. \A s \in Stmts : ~Pending(s)
    BY <1>2, <2>1 DEF Callers, Busy
  <2> QED
    BY <1>2, <1>3, <2>1, <2>2, <2>3, <2>4 DEF Quiet, Pending
<1>17. Succeeded'
  <2>1. ran \in [Reqs -> Nat]
    BY <1>1 DEF SessionTypes
  <2>2. ran' = ran \/ ran' = [ran EXCEPT ![srv.req] = @ + 1]
    BY <1>3
  <2>3. \A r \in Reqs : r # srv.req => ran'[r] = ran[r]
    BY <2>1, <2>2
  <2>4. \A s \in Stmts : told[s] = "success" =>
          stmts[s].req \in Reqs /\ ran'[stmts[s].req] = 1
    BY <1>2, <1>6, <2>3 DEF Succeeded
  <2> QED
    BY <1>3, <2>4 DEF Succeeded
<1> QED
  BY <1>2, <1>3, <1>4, <1>14, <1>15, <1>16, <1>17, CleanPartsNext

(* Between two calls the connection is empty. *)
LEMMA IdleClean ==
  ASSUME Always, Clean, ~Busy
  PROVE  /\ sbuff = <<>> /\ up = <<>> /\ put = <<>> /\ down = <<>> /\ Line = <<>>
         /\ call = NoCall /\ kept = {}
         /\ (\A s \in Stmts : ~Pending(s)) => srv = Fresh /\ \A s \in Stmts : ~stmts[s].piece_mode
<1>1. Callers /\ Quiet /\ WireTypes
  BY AlwaysParts, CleanParts
<1>2. call = NoCall /\ put = <<>>
  BY Idle
<1>3. call.at = "idle"
  BY DEF Busy
<1>4. sbuff = <<>> /\ up = <<>> /\ down = <<>> /\ kept = {}
  BY <1>1, <1>3 DEF Quiet
<1>5. Line = <<>>
  BY <1>1, <1>2, <1>4, LineEmpty
<1>6. (\A s \in Stmts : ~Pending(s)) => srv = Fresh /\ \A s \in Stmts : ~stmts[s].piece_mode
  BY <1>1, <1>3 DEF Quiet, Callers
<1> QED
  BY <1>2, <1>4, <1>5, <1>6

LEMMA PrepareClean ==
  ASSUME Always, Clean, NEW s \in Stmts, NEW lob \in Lobs, Prepare(s, lob)
  PROVE  Clean'
<1>1. StmtTypes /\ Succeeded /\ ~mixed /\ WireTypes'
  BY AlwaysParts, CleanParts, PrepareAlways, AlwaysPartsNext
<1>2. /\ UNCHANGED <<call, put, sbuff, linked, breaks, up, down, srv, ran, kept, reqs, mixed, spoiled>>
      /\ stmts' = [stmts EXCEPT ![s].prepared = TRUE, ![s].lob = lob]
      /\ told' = [told EXCEPT ![s] = "nothing"]
      /\ ~Busy /\ \A t \in Stmts : ~Pending(t)
  BY DEF Prepare, MayBegin
<1>3. /\ sbuff = <<>> /\ up = <<>> /\ put = <<>> /\ down = <<>> /\ call = NoCall /\ kept = {}
      /\ srv = Fresh /\ \A t \in Stmts : ~stmts[t].piece_mode
  BY <1>2, IdleClean
<1>4. \A t \in Stmts : /\ stmts'[t].req = stmts[t].req /\ stmts'[t].piece_mode = stmts[t].piece_mode
                       /\ told'[t] = IF t = s THEN "nothing" ELSE told[t]
  BY <1>1, <1>2, ZenonT(60) DEF StmtTypes
<1>5. ~Busy' /\ \A t \in Stmts : ~Pending(t)'
  <2>1. ~Busy'
    BY <1>2 DEF Busy
  <2>2. \A t \in Stmts : told'[t] # "need data"
    <3>1. \A t \in Stmts : told[t] # "need data"
      BY <1>2 DEF Pending
    <3> QED
      BY <1>4, <3>1
  <2> QED
    BY <2>1, <2>2 DEF Pending
<1>6. Callers'
  BY <1>3, <1>4, <1>5 DEF Callers
<1>7. Succeeded'
  <2>1. \A t \in Stmts : told'[t] = "success" => told[t] = "success"
    BY <1>4
  <2>2. \A t \in Stmts : stmts'[t].req = stmts[t].req
    BY <1>2, <1>4
  <2> QED
    BY <1>1, <1>2, <2>1, <2>2 DEF Succeeded
<1> QED
  BY <1>1, <1>2, <1>3, <1>5, <1>6, <1>7, OverClean

LEMMA RefusedClean ==
  ASSUME Always, Clean, NEW s \in Stmts, NEW n, Refused(s, n)
  PROVE  Clean'
<1>1. StmtTypes /\ Succeeded /\ ~mixed /\ WireTypes'
  BY AlwaysParts, CleanParts, RefusedAlways, AlwaysPartsNext
<1>2. /\ UNCHANGED <<stmts, call, put, sbuff, linked, breaks, up, down, srv, ran, kept, reqs, mixed, spoiled>>
      /\ told' = [told EXCEPT ![s] = "error"]
      /\ ~Busy /\ \A t \in Stmts : ~Pending(t)
  BY DEF Refused, MayBegin
<1>3. /\ sbuff = <<>> /\ up = <<>> /\ put = <<>> /\ down = <<>> /\ call = NoCall /\ kept = {}
      /\ srv = Fresh /\ \A t \in Stmts : ~stmts[t].piece_mode
  BY <1>2, IdleClean
<1>4. \A t \in Stmts : told'[t] = IF t = s THEN "error" ELSE told[t]
  BY <1>1, <1>2 DEF StmtTypes
<1>5. ~Busy' /\ \A t \in Stmts : ~Pending(t)'
  <2>1. ~Busy'
    BY <1>2 DEF Busy
  <2>2. \A t \in Stmts : told'[t] # "need data"
    <3>1. \A t \in Stmts : told[t] # "need data"
      BY <1>2 DEF Pending
    <3> QED
      BY <1>4, <3>1
  <2> QED
    BY <2>1, <2>2 DEF Pending
<1>6. Callers'
  BY <1>2, <1>3, <1>5 DEF Callers
<1>7. Succeeded'
  <2>1. \A t \in Stmts : told'[t] = "success" => told[t] = "success"
    BY <1>4
  <2>2. \A t \in Stmts : stmts'[t].req = stmts[t].req
    BY <1>2, <1>4
  <2> QED
    BY <1>1, <1>2, <2>1, <2>2 DEF Succeeded
<1> QED
  BY <1>1, <1>2, <1>3, <1>5, <1>6, <1>7, OverClean

(* A call begins on an empty connection. *)
LEMMA BeginClean ==
  ASSUME call'.at = "put", call'.req \in 1 .. reqs', reqs' \in 0 .. MaxReqs,
         call'.by # "nobody", call'.path # "gives up", ~call'.asked, kept' = {},
         ~mixed', Succeeded', down' = <<>>, sbuff' = <<>>, up' = <<>>, put' # <<>>,
         put' \in Seq(TokenType), Line' = put',
         \A s \in Stmts : /\ ~Pending(s)'
                          /\ stmts'[s].piece_mode => call'.by = s /\ stmts'[s].lob = "pieces"
                          /\ call'.by = s => stmts'[s].req = call'.req,
         linked' => Fits(put', srv') /\ (srv'.req = 0 \/ srv'.req = call'.req),
         \A i \in 1 .. Len(put') : put'[i].t = "head" =>
            put'[i].req = call'.req /\ (call'.by = COMMAND => put'[i].lob = COMMAND),
         call'.by = COMMAND => srv'.mode = "request"
  PROVE  Clean'
<1>1. Busy'
  BY DEF Busy
<1>2. Callers'
  BY <1>1 DEF Callers
<1>3. call'.req \in Mine'
  <2>1. call'.req \in Numbers
    <3>1. call'.req \in Reqs
      BY RequestNumber
    <3> QED
      BY <3>1 DEF Numbers
  <2> QED
    BY <1>1, <2>1 DEF Mine
<1>4. Answers'
  BY NoAnswers
<1>5. Expected'
  BY <1>3 DEF Expected
<1>6. Quiet'
  BY DEF Quiet
<1> QED
  BY <1>2, <1>4, <1>5, <1>6, CleanPartsNext

(* A request with all its rows is what an idle server expects. *)
LEMMA RequestFits ==
  ASSUME NEW q \in Seq(TokenType), NEW n \in Nat, Len(q) = n + 1, q[1].t = "head",
         q[1].rows = n, \A i \in 2 .. n + 1 : q[i].t = "row"
  PROVE  /\ Fits(q, Fresh)
         /\ \A i \in 1 .. Len(q) : q[i].t = "head" => i = 1
         /\ q # <<>>
<1>1. q # <<>>
  <2>1. Len(q) # 0
    OBVIOUS
  <2> QED
    BY <2>1, EmptyIffNone
<1>2. Fits(q, Fresh)
  BY <1>1 DEF Fits, Fresh
<1>3. \A i \in 1 .. Len(q) : i = 1 \/ i \in 2 .. n + 1
  OBVIOUS
<1> QED
  BY <1>1, <1>2, <1>3

LEMMA ExecuteClean ==
  ASSUME Always, Clean, NEW s \in Stmts, NEW n \in Iters, NEW bad \in 0 .. n,
         Execute(s, n, bad), ~spoiled'
  PROVE  Clean'
<1>1. StmtTypes /\ Succeeded /\ ~mixed /\ StmtTypes'
  BY AlwaysParts, CleanParts, ExecuteAlways, AlwaysPartsNext
<1>2. /\ UNCHANGED <<sbuff, linked, breaks, up, down, srv, ran, kept, mixed>> /\ reqs' = reqs + 1
      /\ stmts' = [stmts EXCEPT ![s].req = reqs + 1] /\ spoiled' = (spoiled \/ bad # 0)
      /\ ~Busy /\ \A t \in Stmts : ~Pending(t)
      /\ told' = [told EXCEPT ![s] = "nothing"]
  BY DEF Execute, MayBegin, Begin
<1>3. bad = 0
  BY <1>2
<1>4. /\ sbuff = <<>> /\ up = <<>> /\ put = <<>> /\ down = <<>> /\ Line = <<>> /\ kept = {}
      /\ srv = Fresh /\ \A t \in Stmts : ~stmts[t].piece_mode
  BY <1>2, IdleClean
<1>5. /\ call' = [by |-> s, at |-> "put",
                  path |-> CASE n > 1 -> "many" [] bad = 1 -> "gives up" [] OTHER -> "one",
                  req |-> reqs + 1, asked |-> FALSE]
      /\ n \in Nat \ {0} /\ reqs + 1 \in Reqs /\ reqs \in Nat
  BY <1>1, ExecuteFacts
<1>6. /\ ~call'.asked /\ call'.by = s /\ call'.at = "put" /\ call'.req = reqs + 1 /\ call'.path # "gives up"
  BY <1>3, <1>5
<1>7. /\ Line' = Line \o put' /\ Len(put') = n + 1 /\ put' \in Seq(TokenType)
      /\ put'[1] = [t |-> "head", req |-> reqs + 1, rows |-> n, lob |-> stmts[s].lob]
      /\ \A i \in 2 .. n + 1 : i - 1 # bad => put'[i].t = "row"
  BY ExecuteAlways
<1>8. Line' = put'
  BY <1>4, <1>7, ConcatEmptySeq
<1>9. /\ put'[1].t = "head" /\ put'[1].rows = n /\ put'[1].req = reqs + 1
      /\ \A i \in 2 .. n + 1 : put'[i].t = "row"
  BY <1>3, <1>5, <1>7
<1>10. /\ Fits(put', Fresh) /\ put' # <<>>
       /\ \A i \in 1 .. Len(put') : put'[i].t = "head" => i = 1
  <2> DEFINE q == put'
  <2>1. /\ q \in Seq(TokenType) /\ n \in Nat /\ Len(q) = n + 1 /\ q[1].t = "head"
        /\ q[1].rows = n /\ \A i \in 2 .. n + 1 : q[i].t = "row"
    BY <1>5, <1>7, <1>9
  <2> HIDE DEF q
  <2>2. Fits(q, Fresh) /\ q # <<>> /\ \A i \in 1 .. Len(q) : q[i].t = "head" => i = 1
    BY <2>1, RequestFits
  <2> QED
    BY <2>2 DEF q
<1>11. /\ \A t \in Stmts : stmts'[t].piece_mode = stmts[t].piece_mode
       /\ \A t \in Stmts : stmts'[t].req = IF t = s THEN reqs + 1 ELSE stmts[t].req
       /\ \A t \in Stmts : told'[t] = IF t = s THEN "nothing" ELSE told[t]
  <2> DEFINE StmtType == [prepared : BOOLEAN, lob : Lobs \union {"none"},
                          piece_mode : BOOLEAN, req : Numbers]
             ToldType == {"nothing", "success", "error", "need data"}
  <2>1. stmts \in [Stmts -> StmtType] /\ told \in [Stmts -> ToldType]
    BY <1>1 DEF StmtTypes
  <2> HIDE DEF StmtType, ToldType
  <2>2. \A t \in Stmts : stmts'[t] = IF t = s THEN [stmts[t] EXCEPT !.req = reqs + 1] ELSE stmts[t]
    BY <1>2, <2>1
  <2>3. \A t \in Stmts : stmts[t] \in StmtType
    BY <2>1
  <2>4. \A t \in Stmts : told'[t] = IF t = s THEN "nothing" ELSE told[t]
    BY <1>2, <2>1
  <2>5. \A t \in Stmts : stmts'[t].piece_mode = stmts[t].piece_mode
    BY <2>2, <2>3 DEF StmtType
  <2>6. \A t \in Stmts : stmts'[t].req = IF t = s THEN reqs + 1 ELSE stmts[t].req
    BY <2>2, <2>3 DEF StmtType
  <2> QED
    BY <2>4, <2>5, <2>6
<1>12. \A t \in Stmts : /\ ~Pending(t)'
                        /\ stmts'[t].piece_mode => call'.by = t /\ stmts'[t].lob = "pieces"
                        /\ call'.by = t => stmts'[t].req = call'.req
  <2>1. \A t \in Stmts : ~Pending(t)'
    <3>1. \A t \in Stmts : told[t] # "need data"
      BY <1>2 DEF Pending
    <3>2. \A t \in Stmts : told'[t] # "need data"
      BY <1>11, <3>1
    <3> QED
      BY <3>2 DEF Pending
  <2>2. \A t \in Stmts : ~stmts'[t].piece_mode
    BY <1>4, <1>11
  <2>3. \A t \in Stmts : call'.by = t => stmts'[t].req = call'.req
    BY <1>6, <1>11
  <2> QED
    BY <2>1, <2>2, <2>3
<1>13. Succeeded'
  <2>1. \A t \in Stmts : told'[t] = "success" => t # s /\ told[t] = "success"
    BY <1>11
  <2> QED
    BY <1>1, <1>2, <1>11, <2>1 DEF Succeeded
<1>14. COMMAND \notin Stmts /\ "nobody" \notin Stmts
  BY StmtsAssumption DEF COMMAND
<1>15. reqs' \in 0 .. MaxReqs /\ call'.req \in 1 .. reqs'
  <2>1. reqs' \in 0 .. MaxReqs
    BY <1>1 DEF StmtTypes
  <2>2. call'.req = reqs + 1 /\ reqs' = reqs + 1
    BY <1>2, <1>6
  <2>3. reqs + 1 \in 1 .. (reqs + 1)
    <3>1. \A k \in Nat : k + 1 \in 1 .. (k + 1)
      OBVIOUS
    <3> QED
      BY <1>5, <3>1
  <2> QED
    BY <2>1, <2>2, <2>3
<1>16. Fresh.req = 0
  BY DEF Fresh
<1>17. down' = <<>> /\ sbuff' = <<>> /\ up' = <<>> /\ ~mixed' /\ kept' = {} /\ srv' = Fresh
  BY <1>1, <1>2, <1>4
<1>18. call'.by # "nobody" /\ call'.by # COMMAND
  BY <1>6, <1>14
<1>19. \A i \in 1 .. Len(put') : put'[i].t = "head" => put'[i].req = call'.req
  BY <1>6, <1>9, <1>10
<1> QED
  BY <1>6, <1>7, <1>8, <1>10, <1>12, <1>13, <1>15, <1>16, <1>17, <1>18, <1>19, BeginClean

LEMMA CommandClean ==
  ASSUME Always, Clean, Command
  PROVE  Clean'
<1>1. StmtTypes /\ Succeeded /\ ~mixed /\ StmtTypes'
  BY AlwaysParts, CleanParts, CommandAlways, AlwaysPartsNext
<1>2. COMMAND \notin Stmts
  BY StmtsAssumption DEF COMMAND
<1>3. /\ UNCHANGED <<stmts, sbuff, linked, breaks, up, down, srv, ran, kept, mixed, spoiled>>
      /\ reqs' = reqs + 1 /\ told' = told
      /\ ~Busy /\ \A t \in Stmts : ~Pending(t)
  BY <1>2 DEF Command, MayBegin, Begin
<1>4. /\ sbuff = <<>> /\ up = <<>> /\ put = <<>> /\ down = <<>> /\ Line = <<>> /\ kept = {}
      /\ srv = Fresh /\ \A t \in Stmts : ~stmts[t].piece_mode
  BY <1>3, IdleClean
<1>5. /\ call' = [by |-> COMMAND, at |-> "put", path |-> "command", req |-> reqs + 1,
                  asked |-> FALSE]
      /\ reqs \in Nat
  BY <1>1, CommandFacts
<1>6. /\ ~call'.asked /\ call'.by = COMMAND /\ call'.at = "put" /\ call'.req = reqs + 1 /\ call'.path # "gives up"
      /\ call'.by # "nobody"
  BY <1>5 DEF COMMAND
<1>7. /\ Line' = Line \o put' /\ Len(put') = 2 /\ put' \in Seq(TokenType)
      /\ put'[1] = [t |-> "head", req |-> reqs + 1, rows |-> 1, lob |-> COMMAND]
      /\ put'[2].t = "row"
  BY CommandAlways
<1>8. Line' = put'
  BY <1>4, <1>7, ConcatEmptySeq
<1>9. put'[1].t = "head" /\ put'[1].rows = 1 /\ put'[1].req = reqs + 1 /\ put'[1].lob = COMMAND
  BY <1>7
<1>10. /\ Fits(put', Fresh) /\ put' # <<>>
       /\ \A i \in 1 .. Len(put') : put'[i].t = "head" => i = 1
  <2> DEFINE q == put'
             n == 1
  <2>1. /\ q \in Seq(TokenType) /\ n \in Nat /\ Len(q) = n + 1 /\ q[1].t = "head"
        /\ q[1].rows = n /\ \A i \in 2 .. n + 1 : q[i].t = "row"
    <3>1. \A i \in 2 .. 2 : i = 2
      OBVIOUS
    <3> QED
      BY <1>7, <1>9, <3>1
  <2> HIDE DEF q, n
  <2>2. Fits(q, Fresh) /\ q # <<>> /\ \A i \in 1 .. Len(q) : q[i].t = "head" => i = 1
    BY <2>1, RequestFits
  <2> QED
    BY <2>2 DEF q
<1>11. \A t \in Stmts : /\ ~Pending(t)'
                        /\ stmts'[t].piece_mode => call'.by = t /\ stmts'[t].lob = "pieces"
                        /\ call'.by = t => stmts'[t].req = call'.req
  BY <1>2, <1>3, <1>4, <1>6 DEF Pending
<1>12. Succeeded'
  BY <1>1, <1>3 DEF Succeeded
<1>13. reqs' \in 0 .. MaxReqs /\ call'.req \in 1 .. reqs'
  <2>1. reqs' \in 0 .. MaxReqs
    BY <1>1 DEF StmtTypes
  <2> QED
    BY <1>3, <1>5, <1>6, <2>1
<1>14. Fresh.req = 0 /\ Fresh.mode = "request"
  BY DEF Fresh
<1>15. down' = <<>> /\ sbuff' = <<>> /\ up' = <<>> /\ ~mixed' /\ kept' = {} /\ srv' = Fresh
  BY <1>1, <1>3, <1>4
<1>16. \A i \in 1 .. Len(put') : put'[i].t = "head" => put'[i].req = call'.req /\ put'[i].lob = COMMAND
  BY <1>6, <1>9, <1>10
<1> QED
  BY <1>6, <1>7, <1>8, <1>10, <1>11, <1>12, <1>13, <1>14, <1>15, <1>16, BeginClean

LEMMA PieceClean ==
  ASSUME Always, Clean, NEW s \in Stmts, ExecutePiece(s)
  PROVE  Clean'
<1>1. StmtTypes /\ Succeeded /\ ~mixed /\ StmtTypes' /\ Callers /\ Quiet /\ Expected
  BY AlwaysParts, CleanParts, PieceAlways, AlwaysPartsNext
<1>2. /\ UNCHANGED <<stmts, sbuff, linked, breaks, up, down, srv, ran, kept, reqs, mixed, spoiled>>
      /\ told' = [told EXCEPT ![s] = "nothing"]
      /\ ~Busy /\ stmts[s].piece_mode /\ \A t \in Stmts \ {s} : ~Pending(t)
  BY DEF ExecutePiece, Begin
<1>3. /\ sbuff = <<>> /\ up = <<>> /\ put = <<>> /\ down = <<>> /\ Line = <<>> /\ kept = {}
  BY <1>2, IdleClean
<1>4. Pending(s) /\ stmts[s].req \in 1 .. reqs
  BY <1>1, <1>2 DEF Callers
<1>5. /\ put' \in Seq(TokenType) /\ Len(put') = 2
      /\ put'[1].t = "piece" /\ put'[2].t = "stop"
      /\ call' = [by |-> s, at |-> "put", path |-> "piece", req |-> stmts[s].req, asked |-> FALSE]
  BY <1>1, PieceFacts
<1>6. /\ ~call'.asked /\ call'.by = s /\ call'.at = "put" /\ call'.req = stmts[s].req /\ call'.path # "gives up"
  BY <1>5
<1>7. Line' = put'
  BY <1>3, <1>5, PieceAlways, ConcatEmptySeq
<1>8. linked => srv.mode = "stream" /\ (srv.req = 0 \/ srv.req = stmts[s].req)
  <2>1. linked => srv.mode = "stream" /\ (srv.req = 0 \/ srv.req \in Mine)
    BY <1>1, <1>4 DEF Quiet, Expected
  <2>2. \A r \in Mine : r = stmts[s].req
    BY <1>2 DEF Mine
  <2> QED
    BY <2>1, <2>2
<1>9. put' # <<>> /\ \A i \in 1 .. Len(put') : put'[i].t # "head"
  <2>1. \A i \in 1 .. 2 : i = 1 \/ i = 2
    OBVIOUS
  <2>2. \A i \in 1 .. 2 : put'[i].t # "head"
    BY <1>5, <2>1
  <2>3. put' # <<>>
    <3>1. Len(put') # 0
      BY <1>5
    <3> QED
      BY <1>5, <3>1, EmptyIffNone
  <2> QED
    BY <1>5, <2>2, <2>3
<1>10. linked => Fits(put', srv')
  <2>1. \A i \in 1 .. Len(put') - 1 : i = 1
    BY <1>5
  <2>2. put'[Len(put')].t = "stop"
    BY <1>5
  <2>3. \A i \in 1 .. Len(put') - 1 : put'[i].t = "piece"
    BY <1>5, <2>1
  <2> QED
    BY <1>2, <1>8, <1>9, <2>2, <2>3 DEF Fits
<1>11. \A t \in Stmts : told'[t] = IF t = s THEN "nothing" ELSE told[t]
  BY <1>1, <1>2 DEF StmtTypes
<1>12. \A t \in Stmts : /\ ~Pending(t)'
                        /\ stmts'[t].piece_mode => call'.by = t /\ stmts'[t].lob = "pieces"
                        /\ call'.by = t => stmts'[t].req = call'.req
  <2>1. \A t \in Stmts : stmts[t].piece_mode => t = s /\ stmts[t].lob = "pieces"
    BY <1>1, <1>2 DEF Callers
  <2>2. \A t \in Stmts : told'[t] # "need data"
    <3>1. \A t \in Stmts \ {s} : told[t] # "need data"
      BY <1>2 DEF Pending
    <3> QED
      BY <1>11, <3>1
  <2>3. \A t \in Stmts : ~Pending(t)'
    BY <2>2 DEF Pending
  <2>4. \A t \in Stmts : stmts'[t].piece_mode => call'.by = t /\ stmts'[t].lob = "pieces"
    BY <1>2, <1>6, <2>1
  <2>5. \A t \in Stmts : call'.by = t => stmts'[t].req = call'.req
    BY <1>2, <1>6
  <2> QED
    BY <2>3, <2>4, <2>5
<1>13. Succeeded'
  <2>1. \A t \in Stmts : told'[t] = "success" => told[t] = "success"
    BY <1>11
  <2> QED
    BY <1>1, <1>2, <2>1 DEF Succeeded
<1>14. COMMAND \notin Stmts /\ "nobody" \notin Stmts
  BY StmtsAssumption DEF COMMAND
<1>15. reqs' \in 0 .. MaxReqs /\ call'.req \in 1 .. reqs'
  BY <1>1, <1>2, <1>4, <1>6 DEF StmtTypes
<1>16. down' = <<>> /\ sbuff' = <<>> /\ up' = <<>> /\ ~mixed' /\ kept' = {} /\ srv' = srv /\ linked' = linked
  BY <1>1, <1>2, <1>3
<1>17. call'.by # "nobody" /\ call'.by # COMMAND
  BY <1>6, <1>14
<1>18. linked' => Fits(put', srv') /\ (srv'.req = 0 \/ srv'.req = call'.req)
  BY <1>6, <1>8, <1>10, <1>16
<1> QED
  BY <1>5, <1>6, <1>7, <1>9, <1>12, <1>13, <1>15, <1>16, <1>17, <1>18, BeginClean

(* A connection that is spoiled stays so. *)
LEMMA SpoiledStays == [Next]_vars /\ spoiled => spoiled'
<1> SUFFICES ASSUME [Next]_vars, spoiled PROVE spoiled'
  OBVIOUS
<1>1. ASSUME NEW s \in Stmts, NEW lob \in Lobs, Prepare(s, lob) PROVE spoiled'
  BY <1>1 DEF Prepare
<1>2. ASSUME NEW s \in Stmts, NEW n \in Iters, Refused(s, n) PROVE spoiled'
  BY <1>2 DEF Refused
<1>3. ASSUME NEW s \in Stmts, NEW n \in Iters,
             NEW bad \in IF ConvFails THEN 0 .. n ELSE {0}, Execute(s, n, bad)
      PROVE  spoiled'
  BY <1>3 DEF Execute
<1>4. ASSUME NEW s \in Stmts, ExecutePiece(s) PROVE spoiled'
  BY <1>4 DEF ExecutePiece
<1>5. CASE Command
  BY <1>5 DEF Command
<1>6. CASE Driver
  <2>1. CASE SendSome \/ Put
    <3>1. CASE Put
      BY <3>1, PutCall DEF Return
    <3> QED
      BY <2>1, <3>1 DEF SendSome
  <2>2. CASE Flush
    BY <2>2 DEF Flush
  <2>3. CASE NetError
    BY <2>3 DEF NetError, Return
  <2>4. CASE ReadMore \/ ReadStreamCallback \/ ReadStreamForeign
    BY <2>4 DEF ReadMore, ReadStreamCallback, ReadStreamForeign
  <2>5. CASE ReadStreamPieces
    BY <2>5 DEF ReadStreamPieces, Return
  <2>6. CASE ReadEnd
    BY <2>6 DEF ReadEnd, Return
  <2> QED
    BY <1>6, <2>1, <2>2, <2>3, <2>4, <2>5, <2>6 DEF Driver
<1>7. CASE Server
  BY <1>7 DEF Server, ServerTakes, ServerAnswers
<1>8. CASE Break
  BY <1>8 DEF Break
<1>9. CASE UNCHANGED vars
  BY <1>9 DEF vars
<1> QED
  BY <1>1, <1>2, <1>3, <1>4, <1>5, <1>6, <1>7, <1>8, <1>9 DEF Next, Application

LEMMA CleanInit == Init => Clean
<1> SUFFICES ASSUME Init PROVE Clean
  OBVIOUS
<1>1. /\ call = NoCall /\ put = <<>> /\ sbuff = <<>> /\ up = <<>> /\ down = <<>>
      /\ srv = Fresh /\ mixed = FALSE /\ kept = {}
      /\ \A s \in Stmts : ~stmts[s].piece_mode /\ told[s] = "nothing"
  BY DEF Init
<1>2. ~Busy
  BY <1>1 DEF Busy, NoCall
<1>3. \A s \in Stmts : ~Pending(s) /\ told[s] # "success"
  BY <1>1 DEF Pending
<1>4. Line = <<>>
  BY <1>1, AlwaysInit, AlwaysParts, LineEmpty
<1>5. Callers
  BY <1>1, <1>2, <1>3 DEF Callers
<1>6. Answers
  <2>1. 1 .. Len(down) = {}
    BY <1>1, EmptySeq
  <2> QED
    BY <2>1 DEF Answers
<1>7. Expected
  <2>1. 1 .. Len(Line) = {}
    BY <1>4, EmptySeq
  <2>2. Fits(Line, srv) /\ srv.req = 0
    BY <1>1, <1>4 DEF Fits, Fresh
  <2>3. call.by # COMMAND
    BY <1>1 DEF NoCall, COMMAND
  <2> QED
    BY <2>1, <2>2, <2>3 DEF Expected
<1>8. Quiet
  BY <1>1, <1>3 DEF Quiet
<1>9. Succeeded
  BY <1>3 DEF Succeeded
<1> QED
  BY <1>1, <1>5, <1>6, <1>7, <1>8, <1>9, CleanParts

LEMMA CleanStep ==
  ASSUME Always, Sent, Clean, [Next]_vars, ~spoiled'
  PROVE  Clean'
<1>1. ASSUME NEW s \in Stmts, NEW lob \in Lobs, Prepare(s, lob) PROVE Clean'
  BY <1>1, PrepareClean
<1>2. ASSUME NEW s \in Stmts, NEW n \in Iters, Refused(s, n) PROVE Clean'
  BY <1>2, RefusedClean
<1>3. ASSUME NEW s \in Stmts, NEW n \in Iters,
             NEW bad \in IF ConvFails THEN 0 .. n ELSE {0}, Execute(s, n, bad)
      PROVE  Clean'
  <2>1. bad \in 0 .. n
    BY ArgsAssumption
  <2> QED
    BY <1>3, <2>1, ExecuteClean
<1>4. ASSUME NEW s \in Stmts, ExecutePiece(s) PROVE Clean'
  BY <1>4, PieceClean
<1>5. CASE Command
  BY <1>5, CommandClean
<1>6. CASE Driver
  BY <1>6, SendClean, PutClean, FlushClean, NetErrorClean, ReadMoreClean, ReadStreamCallbackClean,
     ReadStreamPiecesClean, ReadStreamForeignClean, ReadEndClean DEF Driver
<1>7. CASE Server
  BY <1>7, ServerTakesClean, ServerAnswersClean DEF Server
<1>8. CASE Break
  BY <1>8, BreakClean
<1>9. CASE UNCHANGED vars
  <2>1. UNCHANGED <<stmts, told, call, put, sbuff, linked, breaks, up, down, srv, ran, kept, reqs,
                    mixed, spoiled>>
    BY <1>9 DEF vars
  <2>2. Line' = Line
    BY <2>1 DEF Line
  <2>3. (Busy' <=> Busy) /\ \A s \in Stmts : Pending(s)' <=> Pending(s)
    BY <2>1 DEF Busy, Pending
  <2>4. Callers' /\ Mine' = Mine
    BY <2>1, <2>3, CleanParts, KeepCallers
  <2>5. Answers'
    BY <2>1, <2>2, <2>4, CleanParts DEF Answers
  <2>6. Expected'
    BY <2>1, <2>2, <2>4, CleanParts DEF Expected, Fits
  <2>7. Quiet' /\ Succeeded'
    BY <2>1, <2>3, CleanParts DEF Quiet, Succeeded
  <2> QED
    BY <2>1, <2>4, <2>5, <2>6, <2>7, CleanParts, CleanPartsNext
<1> QED
  BY <1>1, <1>2, <1>3, <1>4, <1>5, <1>6, <1>7, <1>8, <1>9 DEF Next, Application

-----------------------------------------------------------------------------
(* On every connection no request is run twice and all is in one place; on *)
(* one that no call has spoiled, driver and server agree on everything     *)
(* Clean says: whose request is under way, what is still to come from      *)
(* either side, and that nothing is left between two calls.                *)
THEOREM RequestsSafe == Spec => []RequestInv
<1>1. Init => RequestInv
  BY AlwaysInit, CleanInit DEF RequestInv
<1>2. RequestInv /\ [Next]_vars => RequestInv'
  <2> SUFFICES ASSUME RequestInv, [Next]_vars PROVE RequestInv'
    OBVIOUS
  <2>1. Always'
    BY AlwaysStep DEF RequestInv
  <2>2. ~spoiled' => Clean'
    BY SpoiledStays, CleanStep DEF RequestInv
  <2>3. Sent'
    BY SentStep DEF RequestInv
  <2> QED
    BY <2>1, <2>2, <2>3 DEF RequestInv
<1> QED
  BY <1>1, <1>2, PTL DEF Spec

(* A call reads the answer to its own request: after errors, too, and on a *)
(* connection that broke and was built again, as long as no call has       *)
(* spoiled it.                                                             *)
THEOREM AnswersOfOwn == Spec => []AnswersMatch
<1>1. RequestInv => AnswersMatch
  BY DEF RequestInv, Clean, AnswersMatch
<1> QED
  BY RequestsSafe, <1>1, PTL

(* When KCIStmtExecute has returned KCI_SUCCESS, the server has run its    *)
(* request to the end.                                                     *)
THEOREM SuccessIsRun == Spec => []SuccessMeansRun
<1>1. RequestInv => SuccessMeansRun
  BY DEF RequestInv, Clean, Succeeded, SuccessMeansRun
<1> QED
  BY RequestsSafe, <1>1, PTL

(* The server is never left with half a row or with bytes it cannot place, *)
(* and never works behind the back of the application.                     *)
THEOREM StaysInStep == Spec => []InStep
<1>1. ASSUME RequestInv PROVE ServerInStep
  <2> SUFFICES ASSUME ~spoiled PROVE srv.mode \notin {"part", "lost"}
    BY DEF ServerInStep
  <2>1. CASE linked
    <3>1. Fits(Line, srv)
      BY <1>1, <2>1 DEF RequestInv, Clean, Expected
    <3> QED
      BY <3>1 DEF Fits
  <2>2. CASE ~linked
    BY <1>1, <2>2 DEF RequestInv, Always, Cut, Fresh
  <2> QED
    BY <2>1, <2>2
<1>2. ASSUME RequestInv PROVE RunsForCaller
  <2> SUFFICES ASSUME ~spoiled, srv.mode # "request"
               PROVE  \/ Busy /\ srv.req = call.req
                      \/ \E s \in Stmts : Pending(s) /\ srv.req = stmts[s].req
    BY DEF RunsForCaller
  <2>1. linked
    BY <1>2 DEF RequestInv, Always, Cut, Fresh
  <2>2. Fits(Line, srv) /\ (srv.req = 0 \/ srv.req \in Mine)
    BY <1>2, <2>1 DEF RequestInv, Clean, Expected
  <2>3. srv.mode \in {"rows", "run", "stream"}
    BY <2>2 DEF Fits
  <2>4. srv.req # 0
    BY <1>2, <2>3 DEF RequestInv, Always, OnePlace
  <2> QED
    BY <2>2, <2>4 DEF Mine
<1>3. RequestInv => InStep
  BY <1>1, <1>2 DEF RequestInv, Always, InStep
<1> QED
  BY RequestsSafe, <1>3, PTL

=============================================================================
