------------------------------- MODULE NetIO -------------------------------
(***************************************************************************)
(* The buffered byte streams of one physical connection (struct PhyConn):  *)
(* sendData / netFlush fill and flush sbuff, readData / readByte drain and *)
(* refill rbuff, sockSend / sockRecv move bytes through the socket, and    *)
(* reConnect puts a new socket under the same buffers.                     *)
(*                                                                         *)
(* A byte is represented by its position in the stream it was written to:  *)
(* the i-th byte the driver writes on a connection is the number i, and so *)
(* is the i-th byte the server sends.  Junk stands for memory nobody       *)
(* wrote.  The socket may fail in the middle of any transfer (IOEx).       *)
(* The encrypted mode is left out: buildPhyConn sets use_ssl to false.     *)
(***************************************************************************)
EXTENDS Integers

CONSTANTS
  BufSize,    \* _2K: capacity of sbuff, and of one recv into rbuff
  MaxStream,  \* bound of the model: bytes per direction and connection
  MaxConns,   \* bound of the model: number of sockets in a behaviour
  SendLens,   \* lengths handed to sendData
  ReadLens    \* lengths asked of readData

ASSUME BufSizeAssumption == BufSize \in Nat \ {0}
ASSUME BoundsAssumption  == MaxStream \in Nat /\ MaxConns \in Nat
ASSUME LensAssumption    == SendLens \subseteq Nat \ {0} /\ ReadLens \subseteq Nat \ {0}

VARIABLES
  sock,       \* "up", or "broken" once an IOEx was thrown
  conns,      \* sockets used so far
  sbuff, put_pos,           \* send buffer
  ubase, ulen,\* the user's buffer in the sendData call: first byte, length
  off, len,   \* cursor into it and bytes still to go (0: no call)
  written,    \* bytes handed to sendData on this socket
  wire, wireLen,            \* bytes the socket accepted
  rbuff, recv_pos, read_pos,\* receive buffer
  back,       \* bytes in back_byte: 0 or 1
  lastByte,   \* the last read was a readByte
  rd,         \* bytes the readData call in progress still wants
  direct,     \* that call bypasses rbuff
  produced,   \* bytes the server sent
  taken,      \* bytes recv returned
  got, delivered,           \* bytes handed to the callers of readData
  skewed,     \* a long sendData ran while sbuff was not empty
  stale       \* the socket was replaced while a buffer was not empty

userVars == <<ubase, ulen, off, len>>
sendVars == <<sbuff, put_pos, userVars, written, wire, wireLen, skewed>>
recvVars == <<rbuff, recv_pos, read_pos, back, lastByte, rd, direct,
              produced, taken, got, delivered>>
vars == <<sock, conns, sendVars, recvVars, stale>>

Junk == -1

(* memcpy of n elements, from src + s to dst + d *)
MemCpy(dst, d, src, s, n) ==
  [i \in DOMAIN dst |-> IF d <= i /\ i < d + n THEN src[s + i - d] ELSE dst[i]]

(* The buffer the caller of sendData owns, and the memory behind it. *)
UserBuff ==
  [o \in 0 .. 2 * MaxStream + BufSize |-> IF o < ulen THEN ubase + o ELSE Junk]

(* What the server sends. *)
Stream == [i \in 0 .. MaxStream - 1 |-> i]

Fresh(n) == [i \in 0 .. n - 1 |-> Junk]

Init ==
  /\ sock = "up" /\ conns = 1
  /\ sbuff = Fresh(BufSize) /\ put_pos = 0
  /\ ubase = 0 /\ ulen = 0 /\ off = 0 /\ len = 0 /\ written = 0
  /\ wire = Fresh(MaxStream) /\ wireLen = 0
  /\ rbuff = Fresh(BufSize) /\ recv_pos = 0 /\ read_pos = 0
  /\ back = 0 /\ lastByte = FALSE
  /\ rd = 0 /\ direct = FALSE
  /\ produced = 0 /\ taken = 0
  /\ got = Fresh(MaxStream) /\ delivered = 0
  /\ skewed = FALSE /\ stale = FALSE

-----------------------------------------------------------------------------
(* Sending *)

(* sockSend: all n bytes go out, or an IOEx leaves the call after some. *)
SockSend(src, from, n) ==
  /\ wireLen + n <= MaxStream
  /\ wire' = MemCpy(wire, wireLen, src, from, n)
  /\ wireLen' = wireLen + n
  /\ UNCHANGED sock

SockSendFails(src, from, n) ==
  /\ \E j \in 0 .. n - 1 :
        /\ wireLen + j <= MaxStream
        /\ wire' = MemCpy(wire, wireLen, src, from, j)
        /\ wireLen' = wireLen + j
  /\ sock' = "broken"
  /\ len' = 0
  /\ UNCHANGED <<conns, sbuff, put_pos, ubase, ulen, off, written, skewed, stale, recvVars>>

(* One thread drives a connection: no call starts inside another. *)
Quiet == sock = "up" /\ len = 0 /\ rd = 0

SendData(n) ==
  /\ Quiet /\ back = 0
  /\ written + n <= MaxStream
  /\ ubase' = written /\ ulen' = n /\ off' = 0 /\ len' = n
  /\ written' = written + n
  /\ lastByte' = FALSE
  /\ UNCHANGED <<sock, conns, sbuff, put_pos, wire, wireLen, skewed, stale, rbuff,
                 recv_pos, read_pos, back, rd, direct, produced, taken, got, delivered>>

IsLong == ulen > BufSize

NoLimit(a, b) == a                            \* mutant: no look at the room left
Lesser(a, b) == IF a <= b THEN a ELSE b

(* The cursor into the user's buffer moves on by n. *)
AdvanceLenOnly(n)   == len' = len - n /\ UNCHANGED off     \* mutant
AdvanceToTheEnd(n)  == len' = 0 /\ off' = off + n          \* mutant: no loop
Advance(n) == off' = off + n /\ len' = len - n

(* Short data: copy what fits into sbuff ... *)
CopyIn ==
  /\ sock = "up" /\ len > 0 /\ ~IsLong /\ put_pos < BufSize
  /\ LET len1 == Lesser(len, BufSize - put_pos) IN
       /\ sbuff' = MemCpy(sbuff, put_pos, UserBuff, off, len1)
       /\ put_pos' = put_pos + len1
       /\ Advance(len1)
  /\ UNCHANGED <<sock, conns, ubase, ulen, written, wire, wireLen, skewed, stale, recvVars>>

(* ... and send the buffer when it is full and more is to come. *)
SendFull ==
  /\ sock = "up" /\ len > 0 /\ ~IsLong /\ put_pos = BufSize
  /\ \/ /\ SockSend(sbuff, 0, put_pos)
        /\ put_pos' = 0
        /\ UNCHANGED <<conns, sbuff, userVars, written, skewed, stale, recvVars>>
     \/ SockSendFails(sbuff, 0, put_pos)

(* Long data: what sbuff holds goes first, and the cursor into the user's  *)
(* buffer is advanced by that amount.                                      *)
DrainBeforeLong ==
  /\ sock = "up" /\ len > 0 /\ IsLong /\ put_pos > 0
  /\ \/ /\ SockSend(sbuff, 0, put_pos)
        /\ off' = off + put_pos
        /\ put_pos' = 0
        /\ skewed' = TRUE
        /\ UNCHANGED <<conns, sbuff, ubase, ulen, len, written, stale, recvVars>>
     \/ SockSendFails(sbuff, 0, put_pos)

SendLong ==
  /\ sock = "up" /\ len > 0 /\ IsLong /\ put_pos = 0
  /\ \/ /\ SockSend(UserBuff, off, len)
        /\ len' = 0
        /\ UNCHANGED <<conns, sbuff, put_pos, ubase, ulen, off, written, skewed, stale, recvVars>>
     \/ SockSendFails(UserBuff, off, len)

NetFlush ==
  /\ Quiet /\ back = 0 /\ put_pos > 0
  /\ \/ /\ SockSend(sbuff, 0, put_pos)
        /\ put_pos' = 0
        /\ UNCHANGED <<conns, sbuff, userVars, written, skewed, stale, recvVars>>
     \/ SockSendFails(sbuff, 0, put_pos)

-----------------------------------------------------------------------------
(* Receiving *)

(* The server sends more bytes. *)
ServerSends ==
  /\ produced < MaxStream
  /\ \E k \in 1 .. MaxStream - produced : produced' = produced + k
  /\ UNCHANGED <<sock, conns, sendVars, stale, rbuff, recv_pos, read_pos, back,
                 lastByte, rd, direct, taken, got, delivered>>

(* readData(len), which readI2, readI4 and readStr are made of.  It does   *)
(* not look at back_byte: its callers never leave one behind.              *)
ReadData(n) ==
  /\ Quiet /\ back = 0
  /\ delivered + n <= MaxStream
  /\ rd' = n
  /\ direct' = (n > BufSize)
  /\ lastByte' = FALSE
  /\ UNCHANGED <<sock, conns, sendVars, stale, rbuff, recv_pos, read_pos, back,
                 produced, taken, got, delivered>>

(* readByte looks at back_byte first. *)
ReadByte ==
  /\ Quiet
  /\ delivered < MaxStream
  /\ lastByte' = TRUE
  /\ \/ /\ back = 1
        /\ back' = 0
        /\ delivered' = delivered + 1
        /\ UNCHANGED <<rd, direct>>
     \/ /\ back = 0
        /\ rd' = 1
        /\ direct' = FALSE
        /\ UNCHANGED <<back, delivered>>
  /\ UNCHANGED <<sock, conns, sendVars, stale, rbuff, recv_pos, read_pos,
                 produced, taken, got>>

(* recvRows and recvResult put back the byte they just read. *)
BackByte ==
  /\ Quiet /\ lastByte
  /\ back' = 1
  /\ delivered' = delivered - 1
  /\ lastByte' = FALSE
  /\ UNCHANGED <<sock, conns, sendVars, stale, rbuff, recv_pos, read_pos, rd,
                 direct, produced, taken, got>>

Buffered == recv_pos - read_pos

(* n bytes of rbuff are used up; a direct read empties it. *)
ConsumeNone(n) == UNCHANGED <<recv_pos, read_pos>>          \* mutant
ConsumeAll(n)  == recv_pos' = 0 /\ read_pos' = 0            \* mutant
Consume(n) == IF direct THEN recv_pos' = 0 /\ read_pos' = 0
                        ELSE read_pos' = read_pos + n /\ UNCHANGED recv_pos

(* Take what rbuff holds. *)
CopyOut ==
  /\ sock = "up" /\ rd > 0 /\ Buffered > 0
  /\ LET n == Lesser(Buffered, rd) IN
       /\ got' = MemCpy(got, delivered, rbuff, read_pos, n)
       /\ delivered' = delivered + n
       /\ rd' = rd - n
       /\ Consume(n)
  /\ UNCHANGED <<sock, conns, sendVars, stale, rbuff, back, lastByte, direct,
                 produced, taken>>

(* recv returned nothing: both positions are already reset. *)
RecvFails ==
  /\ sock' = "broken"
  /\ rd' = 0
  /\ recv_pos' = 0 /\ read_pos' = 0
  /\ UNCHANGED <<conns, sendVars, stale, back, lastByte, direct, produced, taken,
                 got, delivered>>

(* rbuff is empty: one recv refills it with whatever has arrived. *)
Refill ==
  /\ sock = "up" /\ rd > 0 /\ ~direct /\ Buffered = 0
  /\ \/ \E k \in 1 .. Lesser(BufSize, produced - taken) :
          /\ rbuff' = MemCpy(Fresh(BufSize), 0, Stream, taken, k)
          /\ recv_pos' = k /\ read_pos' = 0
          /\ taken' = taken + k
          /\ UNCHANGED <<sock, conns, sendVars, stale, back, lastByte, rd, direct,
                         produced, got, delivered>>
     \/ rbuff' = Fresh(BufSize) /\ RecvFails

(* Long data is received straight into the user's buffer. *)
RecvDirect ==
  /\ sock = "up" /\ rd > 0 /\ direct /\ Buffered = 0
  /\ \/ \E k \in 1 .. Lesser(rd, produced - taken) :
          /\ got' = MemCpy(got, delivered, Stream, taken, k)
          /\ delivered' = delivered + k
          /\ rd' = rd - k
          /\ taken' = taken + k
          /\ recv_pos' = 0 /\ read_pos' = 0
          /\ UNCHANGED <<sock, conns, sendVars, stale, rbuff, back, lastByte, direct,
                         produced>>
     \/ RecvFails /\ UNCHANGED rbuff

-----------------------------------------------------------------------------
(* reConnect: buildPhyConn stores the new socket.  The buffers and their   *)
(* positions, and back_byte, stay as the old socket left them.             *)
ReConnect ==
  /\ sock = "broken" /\ conns < MaxConns
  /\ sock' = "up" /\ conns' = conns + 1
  /\ written' = 0 /\ wire' = Fresh(MaxStream) /\ wireLen' = 0
  /\ produced' = 0 /\ taken' = 0 /\ got' = Fresh(MaxStream) /\ delivered' = 0
  /\ lastByte' = FALSE
  /\ skewed' = FALSE
  /\ stale' = (put_pos > 0 \/ Buffered > 0)
  /\ UNCHANGED <<sbuff, put_pos, userVars, rbuff, recv_pos, read_pos, back, rd, direct>>

Next ==
  \/ \E n \in SendLens : SendData(n)
  \/ CopyIn \/ SendFull \/ DrainBeforeLong \/ SendLong \/ NetFlush
  \/ ServerSends
  \/ \E n \in ReadLens : ReadData(n)
  \/ ReadByte \/ BackByte \/ CopyOut \/ Refill \/ RecvDirect
  \/ ReConnect

Spec == Init /\ [][Next]_vars

-----------------------------------------------------------------------------
(* Properties *)

FlagTypes ==
  /\ sock \in {"up", "broken"}
  /\ lastByte \in BOOLEAN /\ direct \in BOOLEAN
  /\ skewed \in BOOLEAN /\ stale \in BOOLEAN

SendTypes ==
  /\ conns \in Nat
  /\ sbuff \in [0 .. BufSize - 1 -> Int] /\ put_pos \in 0 .. BufSize
  /\ ubase \in Nat /\ ulen \in 0 .. MaxStream /\ off \in Nat /\ len \in Nat
  /\ written \in 0 .. MaxStream
  /\ wire \in [0 .. MaxStream - 1 -> Int] /\ wireLen \in 0 .. MaxStream

RecvTypes ==
  /\ rbuff \in [0 .. BufSize - 1 -> Int]
  /\ recv_pos \in 0 .. BufSize /\ read_pos \in 0 .. recv_pos
  /\ back \in 0 .. 1
  /\ rd \in 0 .. MaxStream
  /\ produced \in 0 .. MaxStream /\ taken \in 0 .. produced
  /\ got \in [0 .. MaxStream - 1 -> Int] /\ delivered \in 0 .. MaxStream

TypeOK == FlagTypes /\ SendTypes /\ RecvTypes

(* What reaches the server is what was handed to sendData, in that order   *)
(* and without a gap, also across partial sends and refills of sbuff, as   *)
(* long as no long sendData met a non-empty sbuff on this socket and the   *)
(* socket was put under empty buffers.                                     *)
SentInOrder == ~skewed /\ ~stale => \A i \in 0 .. wireLen - 1 : wire[i] = i

(* Between two calls every byte handed to sendData is on the wire or in    *)
(* sbuff, so a netFlush that succeeds leaves nothing behind.               *)
NothingWithheld ==
  sock = "up" /\ len = 0 /\ ~skewed /\ ~stale => wireLen + put_pos = written

(* The callers of readData and readByte receive the server's bytes in      *)
(* order, once each, whatever recv returned and whichever byte was put     *)
(* back, if the socket was put under empty buffers.                        *)
ReceivedInOrder == ~stale => \A i \in 0 .. delivered - 1 : got[i] = i

(* A byte recv returned is delivered, in rbuff, or in back_byte: switching *)
(* between buffered and direct reads drops none.                           *)
NoByteDropped ==
  sock = "up" /\ ~stale => taken = delivered + Buffered + back

(* Each direction is a queue of bytes: what the callers of sendData put in *)
(* the socket takes out, what the server puts in the callers of readData   *)
(* and readByte take out, step by step, whatever the buffers in between    *)
(* hold.  A skewed connection, or one under stale buffers, may do anything *)
(* until the next socket.                                                  *)
Outbound == INSTANCE ByteQueue
  WITH offered <- written, received <- [i \in 1 .. wireLen |-> wire[i - 1]]
Inbound == INSTANCE ByteQueue
  WITH offered <- produced, received <- [i \in 1 .. delivered |-> got[i - 1]]

ImplementsQueues ==
  /\ Outbound!Init /\ [][Outbound!Next \/ skewed' \/ stale']_(Outbound!queue)
  /\ Inbound!Init /\ [][Inbound!Next \/ stale']_(Inbound!queue)
-----------------------------------------------------------------------------
(* The inductive invariant behind SentInOrder and ReceivedInOrder: what    *)
(* the buffers hold continues the stream where the wire, or the caller,    *)
(* stopped.                                                                *)

(* The shape of the calls in progress. *)
CallShape ==
  /\ len > 0 =>
       IF IsLong THEN len = ulen /\ off <= BufSize /\ (put_pos > 0 => off = 0)
                 ELSE off + len = ulen
  /\ len > 0 => rd = 0
  /\ rd + delivered <= MaxStream
  /\ back = 1 => delivered < MaxStream
  /\ sock = "up" /\ lastByte /\ rd = 0 => delivered > 0 /\ back = 0
  /\ sock = "broken" => len = 0 /\ rd = 0
  /\ sock = "broken" \/ rd > 0 \/ len > 0 => back = 0
  /\ direct /\ rd > 0 /\ Buffered > 0 => rd > BufSize

SendInv ==
  ~skewed /\ ~stale =>
    /\ \A i \in 0 .. wireLen - 1 : wire[i] = i
    /\ sock = "up" =>
         /\ \A i \in 0 .. put_pos - 1 : sbuff[i] = wireLen + i
         /\ wireLen + put_pos + len = written
         /\ len > 0 => ubase + off = wireLen + put_pos
         /\ len > 0 /\ IsLong /\ put_pos = 0 => off = 0

RecvInv ==
  ~stale =>
    /\ \A i \in 0 .. delivered - 1 : got[i] = i
    /\ sock = "up" =>
         /\ taken = delivered + Buffered + back
         /\ \A i \in read_pos .. recv_pos - 1 : rbuff[i] = taken - recv_pos + i
         /\ back = 1 => got[delivered] = delivered

StreamInv == TypeOK /\ CallShape /\ SendInv /\ RecvInv
=============================================================================
