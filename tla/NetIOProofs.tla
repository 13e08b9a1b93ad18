---------------------------- MODULE NetIOProofs ----------------------------
(***************************************************************************)
(* For every buffer size, stream length and set of call lengths: both      *)
(* directions of a connection keep order and drop nothing, and each step   *)
(* of NetIO is a step of ByteQueue or leaves the queue alone.              *)
(***************************************************************************)
EXTENDS NetIO, Sequences, SequenceTheorems, TLAPS

LEMMA FreshType ==
  ASSUME NEW n \in Nat
  PROVE  Fresh(n) \in [0 .. n - 1 -> Int]
BY DEF Fresh, Junk

LEMMA StreamType ==
  /\ Stream \in [0 .. MaxStream - 1 -> Int]
  /\ \A i \in 0 .. MaxStream - 1 : Stream[i] = i
BY BoundsAssumption DEF Stream

LEMMA UserBuffType ==
  ASSUME ulen \in Nat, ubase \in Nat
  PROVE  /\ UserBuff \in [0 .. 2 * MaxStream + BufSize -> Int]
         /\ \A o \in 0 .. 2 * MaxStream + BufSize : o < ulen => UserBuff[o] = ubase + o
BY BoundsAssumption, BufSizeAssumption DEF UserBuff, Junk

LEMMA InitStreamInv == Init => StreamInv
<1> SUFFICES ASSUME Init PROVE StreamInv
  OBVIOUS
<1> USE BufSizeAssumption, BoundsAssumption DEF Init
<1>1. Fresh(BufSize) \in [0 .. BufSize - 1 -> Int] /\ Fresh(MaxStream) \in [0 .. MaxStream - 1 -> Int]
  BY FreshType
<1>3. FlagTypes
  BY DEF FlagTypes
<1>4. SendTypes
  BY <1>1 DEF SendTypes
<1>5. RecvTypes
  BY <1>1 DEF RecvTypes
<1>6. CallShape
  BY DEF CallShape
<1>7. SendInv
  BY DEF SendInv
<1>8. RecvInv
  BY DEF RecvInv, Buffered
<1> QED
  BY <1>3, <1>4, <1>5, <1>6, <1>7, <1>8 DEF StreamInv, TypeOK

(* A socket write of (part of) sbuff continues the stream on the wire.     *)
LEMMA FlushExtendsWire ==
  ASSUME StreamInv, NEW n \in 0 .. put_pos, wireLen + n <= MaxStream,
         wire' = MemCpy(wire, wireLen, sbuff, 0, n), wireLen' = wireLen + n
  PROVE  /\ wire' \in [0 .. MaxStream - 1 -> Int] /\ wireLen' \in 0 .. MaxStream
         /\ sock = "up" /\ ~skewed /\ ~stale => \A i \in 0 .. wireLen' - 1 : wire'[i] = i
<1>1. /\ wire \in [0 .. MaxStream - 1 -> Int] /\ wireLen \in 0 .. MaxStream
      /\ MaxStream \in Nat /\ BufSize \in Nat
      /\ sbuff \in [0 .. BufSize - 1 -> Int] /\ put_pos \in 0 .. BufSize
  BY BoundsAssumption, BufSizeAssumption DEF StreamInv, TypeOK, SendTypes
<1>2. wire' = [i \in 0 .. MaxStream - 1 |->
                 IF wireLen <= i /\ i < wireLen + n THEN sbuff[0 + i - wireLen] ELSE wire[i]]
  <2>1. DOMAIN wire = 0 .. MaxStream - 1
    BY <1>1
  <2> QED
    BY <2>1 DEF MemCpy
<1>3. \A i \in 0 .. MaxStream - 1 : wireLen <= i /\ i < wireLen + n =>
        0 + i - wireLen \in 0 .. BufSize - 1
  BY <1>1
<1>4. wire' \in [0 .. MaxStream - 1 -> Int] /\ wireLen' \in 0 .. MaxStream
  BY <1>1, <1>2, <1>3
<1>5. ASSUME sock = "up", ~skewed, ~stale, NEW i \in 0 .. wireLen' - 1
      PROVE  wire'[i] = i
  <2>1. /\ \A j \in 0 .. wireLen - 1 : wire[j] = j
        /\ \A j \in 0 .. put_pos - 1 : sbuff[j] = wireLen + j
    BY <1>5 DEF StreamInv, SendInv
  <2>2. CASE i < wireLen
    BY <1>1, <1>2, <1>5, <2>1, <2>2
  <2>3. CASE i >= wireLen
    <3>1. 0 + i - wireLen \in 0 .. put_pos - 1 /\ i \in 0 .. MaxStream - 1
          /\ 0 + i - wireLen = i - wireLen
      BY <1>1, <1>5, <2>3
    <3>2. sbuff[i - wireLen] = wireLen + (i - wireLen)
      BY <2>1, <3>1
    <3> QED
      BY <1>1, <1>2, <1>5, <2>3, <3>1, <3>2
  <2> QED
    BY <1>1, <1>5, <2>2, <2>3
<1> QED
  BY <1>4, <1>5

(* So does the direct write of a long buffer, if nothing was drained first. *)
LEMMA LongExtendsWire ==
  ASSUME StreamInv, sock = "up", len > 0, IsLong, put_pos = 0,
         NEW n \in 0 .. len, wireLen + n <= MaxStream,
         wire' = MemCpy(wire, wireLen, UserBuff, off, n), wireLen' = wireLen + n
  PROVE  /\ wire' \in [0 .. MaxStream - 1 -> Int] /\ wireLen' \in 0 .. MaxStream
         /\ sock = "up" /\ ~skewed /\ ~stale => \A i \in 0 .. wireLen' - 1 : wire'[i] = i
<1>1. /\ wire \in [0 .. MaxStream - 1 -> Int] /\ wireLen \in 0 .. MaxStream
      /\ MaxStream \in Nat /\ BufSize \in Nat
      /\ ubase \in Nat /\ ulen \in 0 .. MaxStream /\ off \in 0 .. BufSize /\ len = ulen
  BY BoundsAssumption, BufSizeAssumption DEF StreamInv, TypeOK, SendTypes, CallShape
<1>2. wire' = [i \in 0 .. MaxStream - 1 |->
                 IF wireLen <= i /\ i < wireLen + n THEN UserBuff[off + i - wireLen] ELSE wire[i]]
  <2>1. DOMAIN wire = 0 .. MaxStream - 1
    BY <1>1
  <2> QED
    BY <2>1 DEF MemCpy
<1>3. \A i \in 0 .. MaxStream - 1 : wireLen <= i /\ i < wireLen + n =>
        off + i - wireLen \in 0 .. 2 * MaxStream + BufSize
  BY <1>1
<1>4. wire' \in [0 .. MaxStream - 1 -> Int] /\ wireLen' \in 0 .. MaxStream
  BY <1>1, <1>2, <1>3, UserBuffType
<1>5. ASSUME ~skewed, ~stale, NEW i \in 0 .. wireLen' - 1
      PROVE  wire'[i] = i
  <2>1. (\A j \in 0 .. wireLen - 1 : wire[j] = j) /\ ubase + off = wireLen /\ off = 0
    BY <1>1, <1>5 DEF StreamInv, SendInv
  <2>2. CASE i < wireLen
    BY <1>1, <1>2, <1>5, <2>1, <2>2
  <2>3. CASE i >= wireLen
    <3>1. /\ off + i - wireLen = i - wireLen
          /\ i - wireLen \in 0 .. 2 * MaxStream + BufSize /\ i - wireLen < ulen
          /\ i \in 0 .. MaxStream - 1
      BY <1>1, <1>5, <2>1, <2>3
    <3>2. UserBuff[i - wireLen] = ubase + (i - wireLen)
      BY <1>1, <3>1, UserBuffType
    <3> QED
      BY <1>1, <1>2, <1>5, <2>1, <2>3, <3>1, <3>2
  <2> QED
    BY <1>1, <1>5, <2>2, <2>3
<1> QED
  BY <1>4, <1>5

LEMMA SendDataStep ==
  ASSUME StreamInv, NEW n \in SendLens, SendData(n)
  PROVE  StreamInv'
<1> USE BufSizeAssumption, BoundsAssumption, LensAssumption
        DEF StreamInv, TypeOK, SendData, Quiet
<1>1. FlagTypes'
  BY DEF FlagTypes
<1>2. SendTypes'
  BY DEF SendTypes
<1>3. RecvTypes'
  BY DEF RecvTypes
<1>4. CallShape'
  BY DEF CallShape, IsLong, SendTypes, RecvTypes, FlagTypes
<1>5. SendInv'
  BY DEF SendInv, IsLong, SendTypes
<1>6. RecvInv'
  BY DEF RecvInv, Buffered
<1> QED
  BY <1>1, <1>2, <1>3, <1>4, <1>5, <1>6

LEMMA CopyInStep ==
  ASSUME StreamInv, CopyIn
  PROVE  StreamInv'
<1> DEFINE len1 == Lesser(len, BufSize - put_pos)
<1>1. /\ BufSize \in Nat \ {0} /\ MaxStream \in Nat
      /\ sbuff \in [0 .. BufSize - 1 -> Int] /\ put_pos \in 0 .. BufSize - 1
      /\ ubase \in Nat /\ ulen \in 0 .. MaxStream /\ off \in Nat /\ len \in Nat
      /\ len > 0 /\ ~IsLong /\ sock = "up" /\ off + len = ulen
  BY BufSizeAssumption, BoundsAssumption
     DEF StreamInv, TypeOK, SendTypes, CallShape, CopyIn
<1>2. len1 \in Nat /\ len1 <= len /\ put_pos + len1 <= BufSize /\ len1 > 0
  BY <1>1 DEF Lesser
<1>3. /\ sbuff' = MemCpy(sbuff, put_pos, UserBuff, off, len1)
      /\ put_pos' = put_pos + len1
      /\ off' = off + len1 /\ len' = len - len1
      /\ UNCHANGED <<sock, conns, ubase, ulen, written, wire, wireLen, skewed, stale, recvVars>>
  BY DEF CopyIn, Advance
<1> HIDE DEF len1
<1>4. \A i \in 0 .. BufSize - 1 : put_pos <= i /\ i < put_pos + len1 =>
        UserBuff[off + i - put_pos] = ubase + off + i - put_pos
  <2> SUFFICES ASSUME NEW i \in 0 .. BufSize - 1, put_pos <= i, i < put_pos + len1
               PROVE  UserBuff[off + i - put_pos] = ubase + off + i - put_pos
    OBVIOUS
  <2> DEFINE o == off + i - put_pos
  <2>1. o \in 0 .. 2 * MaxStream + BufSize /\ o < ulen
    BY <1>1, <1>2
  <2>2. UserBuff[o] = ubase + o
    BY <1>1, <2>1, UserBuffType
  <2> QED
    BY <1>1, <2>2
<1>5. /\ sbuff' \in [0 .. BufSize - 1 -> Int]
      /\ \A i \in 0 .. BufSize - 1 :
            sbuff'[i] = IF put_pos <= i /\ i < put_pos + len1
                        THEN ubase + off + i - put_pos ELSE sbuff[i]
  <2>1. DOMAIN sbuff = 0 .. BufSize - 1
    BY <1>1
  <2>2. sbuff' = [i \in 0 .. BufSize - 1 |->
                    IF put_pos <= i /\ i < put_pos + len1
                    THEN UserBuff[off + i - put_pos] ELSE sbuff[i]]
    BY <1>3, <2>1 DEF MemCpy
  <2>3. sbuff' = [i \in 0 .. BufSize - 1 |->
                    IF put_pos <= i /\ i < put_pos + len1
                    THEN ubase + off + i - put_pos ELSE sbuff[i]]
    BY <1>4, <2>2
  <2> QED
    BY <1>1, <1>2, <2>3
<1>6. FlagTypes' /\ RecvTypes'
  BY <1>3 DEF StreamInv, TypeOK, FlagTypes, RecvTypes, recvVars
<1>7. SendTypes'
  BY <1>1, <1>2, <1>3, <1>5, SMTT(40) DEF StreamInv, TypeOK, SendTypes
<1>8. CallShape'
  BY <1>1, <1>2, <1>3 DEF StreamInv, CallShape, IsLong, recvVars
<1>9. SendInv'
  <2> SUFFICES ASSUME ~skewed, ~stale PROVE SendInv'
    BY <1>3 DEF SendInv
  <2>1. /\ \A i \in 0 .. wireLen - 1 : wire[i] = i
        /\ \A i \in 0 .. put_pos - 1 : sbuff[i] = wireLen + i
        /\ wireLen + put_pos + len = written
        /\ ubase + off = wireLen + put_pos
        /\ wireLen \in Nat
    BY <1>1 DEF StreamInv, SendInv, TypeOK, SendTypes
  <2>2. \A i \in 0 .. put_pos' - 1 : sbuff'[i] = wireLen' + i
    BY <1>1, <1>2, <1>3, <1>5, <2>1, SMTT(40)
  <2> QED
    BY <1>1, <1>2, <1>3, <2>1, <2>2 DEF SendInv, IsLong
<1>10. RecvInv'
  BY <1>3 DEF StreamInv, RecvInv, Buffered, recvVars
<1> QED
  BY <1>6, <1>7, <1>8, <1>9, <1>10 DEF StreamInv, TypeOK

(* A flush of sbuff that succeeds: SendFull, NetFlush, and the drain before *)
(* a long sendData, which marks the socket as skewed.                      *)
LEMMA FlushStep ==
  ASSUME StreamInv, sock = "up", SockSend(sbuff, 0, put_pos), put_pos' = 0,
         UNCHANGED <<conns, sbuff, ubase, ulen, len, written, stale, recvVars>>,
         \/ skewed' = skewed /\ off' = off /\ ~(len > 0 /\ IsLong)
         \/ skewed' = TRUE /\ off' = off + put_pos /\ len > 0 /\ IsLong /\ put_pos > 0
  PROVE  StreamInv'
<1>1. /\ put_pos \in 0 .. BufSize /\ BufSize \in Nat /\ put_pos \in Nat /\ put_pos \in 0 .. put_pos
      /\ wireLen \in Nat /\ off \in Nat /\ len \in Nat /\ ulen \in Nat
  BY BufSizeAssumption DEF StreamInv, TypeOK, SendTypes
<1>2. /\ wire' \in [0 .. MaxStream - 1 -> Int] /\ wireLen' \in 0 .. MaxStream
      /\ sock = "up" /\ ~skewed /\ ~stale => \A i \in 0 .. wireLen' - 1 : wire'[i] = i
  BY <1>1, FlushExtendsWire DEF SockSend
<1>3. wireLen' = wireLen + put_pos /\ sock' = sock
  BY DEF SockSend
<1>4. FlagTypes'
  BY <1>3 DEF StreamInv, TypeOK, FlagTypes, recvVars
<1>5. RecvTypes'
  BY DEF StreamInv, TypeOK, RecvTypes, recvVars
<1>6. SendTypes'
  BY <1>1, <1>2 DEF StreamInv, TypeOK, SendTypes
<1>7. CallShape'
  BY <1>1, <1>3 DEF StreamInv, CallShape, IsLong, recvVars, Buffered
<1>8. SendInv'
  BY <1>1, <1>2, <1>3 DEF StreamInv, SendInv, IsLong
<1>9. RecvInv'
  BY <1>3 DEF StreamInv, RecvInv, Buffered, recvVars
<1> QED
  BY <1>4, <1>5, <1>6, <1>7, <1>8, <1>9 DEF StreamInv, TypeOK

(* A socket write that throws: the wire keeps a prefix, the call is gone.  *)
LEMMA SendFailsStep ==
  ASSUME StreamInv, back = 0, rd = 0,
         wire' \in [0 .. MaxStream - 1 -> Int], wireLen' \in 0 .. MaxStream,
         ~skewed /\ ~stale => \A i \in 0 .. wireLen' - 1 : wire'[i] = i,
         sock' = "broken", len' = 0,
         UNCHANGED <<conns, sbuff, put_pos, ubase, ulen, off, written, skewed, stale, recvVars>>
  PROVE  StreamInv'
<1>1. FlagTypes'
  BY DEF StreamInv, TypeOK, FlagTypes, recvVars
<1>2. RecvTypes'
  BY DEF StreamInv, TypeOK, RecvTypes, recvVars
<1>3. SendTypes'
  BY DEF StreamInv, TypeOK, SendTypes
<1>4. CallShape'
  BY DEF StreamInv, CallShape, recvVars
<1>5. SendInv'
  BY DEF StreamInv, SendInv
<1>6. RecvInv'
  BY DEF StreamInv, RecvInv, recvVars
<1> QED
  BY <1>1, <1>2, <1>3, <1>4, <1>5, <1>6 DEF StreamInv, TypeOK

LEMMA FlushFailsStep ==
  ASSUME StreamInv, sock = "up", back = 0, rd = 0, SockSendFails(sbuff, 0, put_pos)
  PROVE  StreamInv'
<1>1. put_pos \in Nat
  BY DEF StreamInv, TypeOK, SendTypes
<1>2. PICK j \in 0 .. put_pos - 1 :
        /\ wireLen + j <= MaxStream
        /\ wire' = MemCpy(wire, wireLen, sbuff, 0, j)
        /\ wireLen' = wireLen + j
  BY DEF SockSendFails
<1>3. j \in 0 .. put_pos
  BY <1>1
<1>4. /\ wire' \in [0 .. MaxStream - 1 -> Int] /\ wireLen' \in 0 .. MaxStream
      /\ ~skewed /\ ~stale => \A i \in 0 .. wireLen' - 1 : wire'[i] = i
  BY <1>2, <1>3, FlushExtendsWire
<1> QED
  BY <1>4, SendFailsStep DEF SockSendFails

LEMMA SendLongStep ==
  ASSUME StreamInv, SendLong
  PROVE  StreamInv'
<1>1. /\ sock = "up" /\ len > 0 /\ IsLong /\ put_pos = 0 /\ len \in Nat /\ wireLen \in Nat
      /\ len = ulen /\ back = 0 /\ rd = 0
  BY DEF StreamInv, TypeOK, SendTypes, CallShape, SendLong
<1>2. CASE SockSendFails(UserBuff, off, len)
  <2>1. PICK j \in 0 .. len - 1 :
          /\ wireLen + j <= MaxStream
          /\ wire' = MemCpy(wire, wireLen, UserBuff, off, j)
          /\ wireLen' = wireLen + j
    BY <1>2 DEF SockSendFails
  <2>2. j \in 0 .. len
    BY <1>1
  <2>3. /\ wire' \in [0 .. MaxStream - 1 -> Int] /\ wireLen' \in 0 .. MaxStream
        /\ ~skewed /\ ~stale => \A i \in 0 .. wireLen' - 1 : wire'[i] = i
    BY <1>1, <2>1, <2>2, LongExtendsWire
  <2> QED
    BY <1>1, <1>2, <2>3, SendFailsStep DEF SockSendFails
<1>3. CASE /\ SockSend(UserBuff, off, len) /\ len' = 0
           /\ UNCHANGED <<conns, sbuff, put_pos, ubase, ulen, off, written, skewed, stale, recvVars>>
  <2>1. len \in 0 .. len
    BY <1>1
  <2>2. /\ wire' \in [0 .. MaxStream - 1 -> Int] /\ wireLen' \in 0 .. MaxStream
        /\ ~skewed /\ ~stale => \A i \in 0 .. wireLen' - 1 : wire'[i] = i
    BY <1>1, <1>3, <2>1, LongExtendsWire DEF SockSend
  <2>3. wireLen' = wireLen + len /\ sock' = sock
    BY <1>3 DEF SockSend
  <2>4. FlagTypes'
    BY <1>3, <2>3 DEF StreamInv, TypeOK, FlagTypes, recvVars
  <2>5. RecvTypes'
    BY <1>3 DEF StreamInv, TypeOK, RecvTypes, recvVars
  <2>6. SendTypes'
    BY <1>1, <1>3, <2>2 DEF StreamInv, TypeOK, SendTypes
  <2>7. CallShape'
    BY <1>1, <1>3, <2>3 DEF StreamInv, CallShape, recvVars
  <2>8. SendInv'
    BY <1>1, <1>3, <2>2, <2>3 DEF StreamInv, SendInv
  <2>9. RecvInv'
    BY <1>3, <2>3 DEF StreamInv, RecvInv, Buffered, recvVars
  <2> QED
    BY <2>4, <2>5, <2>6, <2>7, <2>8, <2>9 DEF StreamInv, TypeOK
<1> QED
  BY <1>2, <1>3 DEF SendLong

LEMMA FlushSteps ==
  ASSUME StreamInv, SendFull \/ DrainBeforeLong \/ NetFlush
  PROVE  StreamInv'
<1>1. CASE SendFull
  <2>1. back = 0 /\ rd = 0
    BY <1>1 DEF StreamInv, CallShape, SendFull
  <2> QED
    BY <1>1, <2>1, FlushStep, FlushFailsStep DEF SendFull, userVars
<1>2. CASE DrainBeforeLong
  <2>1. back = 0 /\ rd = 0
    BY <1>2 DEF StreamInv, CallShape, DrainBeforeLong
  <2> QED
    BY <1>2, <2>1, FlushStep, FlushFailsStep DEF DrainBeforeLong
<1>3. CASE NetFlush
  <2>1. sock = "up" /\ back = 0 /\ rd = 0 /\ len = 0
    BY <1>3 DEF NetFlush, Quiet
  <2> QED
    BY <1>3, <2>1, FlushStep, FlushFailsStep DEF NetFlush, userVars
<1> QED
  BY <1>1, <1>2, <1>3

(* The actions that leave the send side alone. *)
LEMMA SendSideKept ==
  ASSUME StreamInv, UNCHANGED <<sock, conns, sendVars, stale>>
  PROVE  SendTypes' /\ SendInv'
BY DEF StreamInv, TypeOK, SendTypes, SendInv, sendVars, userVars, IsLong

LEMMA ReadCallSteps ==
  ASSUME StreamInv,
         ServerSends \/ (\E n \in ReadLens : ReadData(n)) \/ ReadByte \/ BackByte
  PROVE  StreamInv'
<1>1. /\ RecvTypes /\ FlagTypes /\ CallShape /\ RecvInv /\ BufSize \in Nat /\ MaxStream \in Nat
      /\ UNCHANGED <<sock, conns, sendVars, stale>>
  BY BufSizeAssumption, BoundsAssumption
     DEF StreamInv, TypeOK, ServerSends, ReadData, ReadByte, BackByte
<1>2. SendTypes' /\ SendInv'
  BY <1>1, SendSideKept
<1>3. len' = len /\ ulen' = ulen /\ off' = off /\ put_pos' = put_pos /\ IsLong' = IsLong
  BY <1>1 DEF sendVars, userVars, IsLong
<1>4. CASE ServerSends
  <2>1. FlagTypes'
    BY <1>1, <1>4 DEF FlagTypes, ServerSends, sendVars
  <2>2. RecvTypes'
    BY <1>1, <1>4 DEF RecvTypes, ServerSends
  <2>3. CallShape'
    BY <1>1, <1>3, <1>4 DEF CallShape, ServerSends, Buffered
  <2>4. RecvInv'
    BY <1>1, <1>4 DEF RecvInv, Buffered, ServerSends
  <2> QED
    BY <1>2, <2>1, <2>2, <2>3, <2>4 DEF StreamInv, TypeOK
<1>5. ASSUME NEW n \in ReadLens, ReadData(n) PROVE StreamInv'
  <2>0. n \in Nat \ {0}
    BY LensAssumption
  <2>1. FlagTypes'
    <3>1. direct' \in BOOLEAN
      BY <1>5 DEF ReadData
    <3>2. lastByte' \in BOOLEAN
      BY <1>5 DEF ReadData
    <3>3. sock' = sock /\ skewed' = skewed /\ stale' = stale
      BY <1>1 DEF sendVars
    <3> QED
      BY <1>1, <3>1, <3>2, <3>3 DEF FlagTypes
  <2>2. RecvTypes'
    BY <1>1, <1>5, <2>0 DEF RecvTypes, ReadData
  <2>3. CallShape'
    <3>1. direct' => n > BufSize
      BY <1>5, Zenon DEF ReadData
    <3>2. /\ rd' = n /\ lastByte' = FALSE /\ sock = "up" /\ len = 0 /\ back = 0
          /\ delivered + n <= MaxStream
          /\ UNCHANGED <<sock, delivered, back, recv_pos, read_pos>>
      BY <1>1, <1>5 DEF ReadData, Quiet
    <3> QED
      BY <1>1, <1>3, <2>0, <3>1, <3>2 DEF CallShape, RecvTypes, Buffered
  <2>4. RecvInv'
    BY <1>1, <1>5 DEF RecvInv, Buffered, ReadData
  <2> QED
    BY <1>2, <2>1, <2>2, <2>3, <2>4 DEF StreamInv, TypeOK
<1>6. CASE ReadByte
  <2>1. FlagTypes'
    <3>1. direct' \in BOOLEAN
      BY <1>1, <1>6 DEF FlagTypes, ReadByte
    <3>2. lastByte' \in BOOLEAN
      BY <1>6 DEF ReadByte
    <3>3. sock' = sock /\ skewed' = skewed /\ stale' = stale
      BY <1>1 DEF sendVars
    <3> QED
      BY <1>1, <3>1, <3>2, <3>3 DEF FlagTypes
  <2>2. RecvTypes'
    BY <1>1, <1>6 DEF RecvTypes, ReadByte, Quiet
  <2>3. CallShape'
    BY <1>1, <1>3, <1>6 DEF CallShape, ReadByte, Quiet, RecvTypes, Buffered
  <2>4. RecvInv'
    <3>1. UNCHANGED <<sock, stale, rbuff, recv_pos, read_pos, taken, got>>
      BY <1>1, <1>6 DEF ReadByte
    <3>2. Buffered' = Buffered /\ Buffered \in Int /\ delivered \in Nat
      BY <1>1, <3>1 DEF Buffered, RecvTypes
    <3>3. CASE back = 1 /\ back' = 0 /\ delivered' = delivered + 1
      <4> SUFFICES ASSUME ~stale
                   PROVE  /\ \A i \in 0 .. delivered' - 1 : got[i] = i
                          /\ sock = "up" => taken = delivered' + Buffered
        BY <1>1, <3>1, <3>2, <3>3 DEF RecvInv
      <4>1. sock = "up"
        BY <1>6 DEF ReadByte, Quiet
      <4>2. /\ \A i \in 0 .. delivered - 1 : got[i] = i
            /\ got[delivered] = delivered
            /\ taken = delivered + Buffered + 1
        BY <1>1, <3>3, <4>1 DEF RecvInv
      <4> QED
        BY <3>2, <3>3, <4>2
    <3>4. CASE UNCHANGED <<back, delivered>>
      BY <1>1, <3>1, <3>2, <3>4 DEF RecvInv
    <3> QED
      BY <1>6, <3>3, <3>4 DEF ReadByte
  <2> QED
    BY <1>2, <2>1, <2>2, <2>3, <2>4 DEF StreamInv, TypeOK
<1>7. CASE BackByte
  <2>0. delivered > 0 /\ back = 0
    BY <1>1, <1>7 DEF CallShape, BackByte, Quiet
  <2>1. FlagTypes'
    BY <1>1, <1>7 DEF FlagTypes, BackByte, sendVars
  <2>2. RecvTypes'
    BY <1>1, <1>7, <2>0 DEF RecvTypes, BackByte
  <2>3. CallShape'
    BY <1>1, <1>3, <1>7, <2>0 DEF CallShape, BackByte, Quiet, RecvTypes, Buffered
  <2>4. RecvInv'
    <3>1. /\ back' = 1 /\ delivered' = delivered - 1 /\ delivered \in Nat
          /\ UNCHANGED <<sock, stale, rbuff, recv_pos, read_pos, taken, got>>
      BY <1>1, <1>7 DEF BackByte, RecvTypes
    <3>2. ASSUME ~stale
          PROVE  /\ \A i \in 0 .. delivered' - 1 : got[i] = i
                 /\ got[delivered'] = delivered'
                 /\ sock = "up" => taken = delivered' + Buffered + 1
      <4>1. /\ \A i \in 0 .. delivered - 1 : got[i] = i
            /\ sock = "up" => taken = delivered + Buffered + back
        BY <1>1, <3>2 DEF RecvInv
      <4>2. delivered' \in 0 .. delivered - 1
        BY <2>0, <3>1
      <4>3. Buffered \in Int
        BY <1>1 DEF RecvTypes, Buffered
      <4> QED
        BY <2>0, <3>1, <4>1, <4>2, <4>3
    <3>3. Buffered' = Buffered
      BY <3>1 DEF Buffered
    <3> QED
      BY <1>1, <3>1, <3>2, <3>3 DEF RecvInv
  <2> QED
    BY <1>2, <2>1, <2>2, <2>3, <2>4 DEF StreamInv, TypeOK
<1> QED
  BY <1>1, <1>4, <1>5, <1>6, <1>7

(* n bytes from rbuff, which continue the server's stream, are appended to *)
(* what the callers got.                                                   *)
LEMMA CopyOutStep ==
  ASSUME StreamInv, CopyOut
  PROVE  StreamInv'
<1> DEFINE n == Lesser(Buffered, rd)
<1>1. /\ RecvTypes /\ FlagTypes /\ CallShape /\ BufSize \in Nat /\ MaxStream \in Nat
      /\ UNCHANGED <<sock, conns, sendVars, stale>>
      /\ sock = "up" /\ rd > 0 /\ Buffered > 0 /\ Buffered \in Nat /\ back = 0
      /\ rd \in Nat /\ delivered \in Nat /\ taken \in Nat /\ delivered + rd <= MaxStream
      /\ recv_pos \in 0 .. BufSize /\ read_pos \in 0 .. recv_pos
      /\ rbuff \in [0 .. BufSize - 1 -> Int]
      /\ Buffered = recv_pos - read_pos
  BY BufSizeAssumption, BoundsAssumption, SMTT(40)
     DEF StreamInv, TypeOK, CopyOut, Buffered, RecvTypes, CallShape
<1>2. n \in Nat /\ n <= Buffered /\ n <= rd /\ n > 0 /\ (n = Buffered \/ n = rd)
  BY <1>1 DEF Lesser
<1>3. /\ got' = MemCpy(got, delivered, rbuff, read_pos, n)
      /\ delivered' = delivered + n /\ rd' = rd - n
      /\ IF direct THEN recv_pos' = 0 /\ read_pos' = 0
                   ELSE read_pos' = read_pos + n /\ recv_pos' = recv_pos
      /\ UNCHANGED <<sock, conns, sendVars, stale, rbuff, back, lastByte, direct,
                     produced, taken>>
  BY DEF CopyOut, Consume
<1>4. direct => n = Buffered
  <2> SUFFICES ASSUME direct PROVE n = Buffered
    OBVIOUS
  <2>1. rd > BufSize
    BY <1>1 DEF CallShape
  <2> QED
    BY <1>1, <2>1 DEF Lesser
<1> HIDE DEF n
<1>5. got' = [i \in 0 .. MaxStream - 1 |->
                IF delivered <= i /\ i < delivered + n THEN rbuff[read_pos + i - delivered] ELSE got[i]]
  <2>1. DOMAIN got = 0 .. MaxStream - 1
    BY <1>1 DEF RecvTypes
  <2> QED
    BY <1>3, <2>1 DEF MemCpy
<1>6. \A i \in 0 .. MaxStream - 1 : delivered <= i /\ i < delivered + n =>
        read_pos + i - delivered \in read_pos .. recv_pos - 1
  BY <1>1, <1>2
<1>7. got' \in [0 .. MaxStream - 1 -> Int]
  BY <1>1, <1>5, <1>6 DEF RecvTypes
<1>8. SendTypes' /\ SendInv'
  BY <1>1, SendSideKept
<1>9. FlagTypes'
  BY <1>1, <1>3 DEF FlagTypes, sendVars
<1>10. Buffered' = Buffered - n /\ recv_pos' \in 0 .. BufSize /\ read_pos' \in 0 .. recv_pos'
  <2>1. CASE direct
    BY <1>1, <1>2, <1>3, <1>4, <2>1 DEF Buffered
  <2>2. CASE ~direct
    BY <1>1, <1>2, <1>3, <2>2 DEF Buffered
  <2> QED
    BY <2>1, <2>2
<1>11. RecvTypes'
  BY <1>1, <1>2, <1>3, <1>7, <1>10, SMTT(40) DEF RecvTypes
<1>12. CallShape'
  <2>1. direct => Buffered' = 0
    BY <1>1, <1>4, <1>10
  <2>2. len' = len /\ ulen' = ulen /\ off' = off /\ put_pos' = put_pos /\ IsLong' = IsLong
        /\ len = 0
    BY <1>1 DEF sendVars, userVars, IsLong, CallShape, StreamInv, TypeOK, SendTypes
  <2>3. direct' = direct /\ lastByte' = lastByte /\ back' = 0 /\ sock' = "up"
    BY <1>1, <1>3
  <2> QED
    BY <1>1, <1>2, <1>3, <2>1, <2>2, <2>3 DEF CallShape
<1>13. RecvInv'
  <2> SUFFICES ASSUME ~stale' PROVE RecvInv'
    BY DEF RecvInv
  <2>0. ~stale
    BY <1>3
  <2>1. /\ \A i \in 0 .. delivered - 1 : got[i] = i
        /\ taken = delivered + Buffered
        /\ \A i \in read_pos .. recv_pos - 1 : rbuff[i] = taken - recv_pos + i
    BY <1>1, <2>0 DEF StreamInv, RecvInv
  <2>2. ASSUME NEW i \in 0 .. delivered' - 1 PROVE got'[i] = i
    <3>1. i \in 0 .. MaxStream - 1
      BY <1>1, <1>2, <1>3
    <3>2. CASE i < delivered
      BY <1>1, <1>5, <2>1, <3>1, <3>2
    <3>3. CASE i >= delivered
      <4> DEFINE j == read_pos + i - delivered
      <4>1. i < delivered + n /\ delivered <= i
        BY <1>1, <1>2, <1>3, <3>3
      <4>2. j \in read_pos .. recv_pos - 1
        BY <1>6, <3>1, <4>1
      <4>3. rbuff[j] = taken - recv_pos + j
        BY <2>1, <4>2
      <4>4. got'[i] = rbuff[j]
        BY <1>5, <3>1, <4>1
      <4> QED
        BY <1>1, <2>1, <4>3, <4>4
    <3> QED
      BY <1>1, <3>1, <3>2, <3>3
  <2>3. taken = delivered' + Buffered'
    BY <1>1, <1>2, <1>3, <1>10, <2>1
  <2>4. ASSUME NEW i \in read_pos' .. recv_pos' - 1
        PROVE  rbuff[i] = taken - recv_pos' + i
    <3>1. CASE direct
      BY <1>3, <2>4, <3>1
    <3>2. CASE ~direct
      BY <1>1, <1>2, <1>3, <2>1, <2>4, <3>2
    <3> QED
      BY <3>1, <3>2
  <2>5. back' = 0 /\ rbuff' = rbuff /\ taken' = taken /\ stale' = stale
    BY <1>1, <1>3
  <2>6. taken' = delivered' + Buffered' + back'
    BY <1>1, <1>2, <1>3, <1>10, <2>3, <2>5
  <2> QED
    BY <2>2, <2>4, <2>5, <2>6 DEF RecvInv
<1> QED
  BY <1>8, <1>9, <1>11, <1>12, <1>13 DEF StreamInv, TypeOK

(* recv failed: the call is gone and rbuff is empty. *)
LEMMA RecvFailsStep ==
  ASSUME StreamInv, sock = "up", rd > 0, Buffered = 0, RecvFails,
         rbuff' \in [0 .. BufSize - 1 -> Int]
  PROVE  StreamInv'
<1>1. /\ FlagTypes /\ SendTypes /\ RecvTypes /\ CallShape /\ SendInv /\ RecvInv
      /\ back = 0 /\ len = 0 /\ BufSize \in Nat
  BY BufSizeAssumption DEF StreamInv, TypeOK, CallShape, SendTypes
<1>2. /\ sock' = "broken" /\ rd' = 0 /\ recv_pos' = 0 /\ read_pos' = 0
      /\ UNCHANGED <<conns, sendVars, stale, back, lastByte, direct, produced, taken,
                     got, delivered>>
  BY DEF RecvFails
<1>3. FlagTypes'
  BY <1>1, <1>2 DEF FlagTypes, sendVars
<1>4. SendTypes' /\ SendInv'
  BY <1>1, <1>2 DEF SendTypes, SendInv, sendVars, userVars
<1>5. RecvTypes'
  <2>1. 0 \in 0 .. BufSize /\ 0 \in 0 .. MaxStream /\ 0 \in 0 .. 0
    BY <1>1, BoundsAssumption
  <2> QED
    BY <1>1, <1>2, <2>1 DEF RecvTypes
<1>6. CallShape'
  BY <1>1, <1>2 DEF CallShape, sendVars, userVars, RecvTypes
<1>7. RecvInv'
  BY <1>1, <1>2 DEF RecvInv
<1> QED
  BY <1>3, <1>4, <1>5, <1>6, <1>7 DEF StreamInv, TypeOK

LEMMA RefillStep ==
  ASSUME StreamInv, Refill
  PROVE  StreamInv'
<1>1. /\ FlagTypes /\ SendTypes /\ RecvTypes /\ CallShape /\ SendInv /\ RecvInv
      /\ sock = "up" /\ rd > 0 /\ ~direct /\ Buffered = 0 /\ recv_pos = read_pos
      /\ BufSize \in Nat /\ MaxStream \in Nat
      /\ produced \in 0 .. MaxStream /\ taken \in 0 .. produced
  BY BufSizeAssumption, BoundsAssumption
     DEF StreamInv, TypeOK, Refill, Buffered, RecvTypes
<1>2. Fresh(BufSize) \in [0 .. BufSize - 1 -> Int]
  BY <1>1, FreshType
<1>3. CASE rbuff' = Fresh(BufSize) /\ RecvFails
  BY <1>1, <1>2, <1>3, RecvFailsStep
<1>4. ASSUME NEW k \in 1 .. Lesser(BufSize, produced - taken),
             /\ rbuff' = MemCpy(Fresh(BufSize), 0, Stream, taken, k)
             /\ recv_pos' = k /\ read_pos' = 0
             /\ taken' = taken + k
             /\ UNCHANGED <<sock, conns, sendVars, stale, back, lastByte, rd, direct,
                            produced, got, delivered>>
      PROVE  StreamInv'
  <2>1. k \in 1 .. BufSize /\ taken + k <= produced
    BY <1>1 DEF Lesser
  <2>2. rbuff' = [i \in 0 .. BufSize - 1 |->
                    IF 0 <= i /\ i < 0 + k THEN Stream[taken + i - 0] ELSE Fresh(BufSize)[i]]
    <3>1. DOMAIN Fresh(BufSize) = 0 .. BufSize - 1
      BY <1>2
    <3> QED
      BY <1>4, <3>1 DEF MemCpy
  <2>3. \A i \in 0 .. BufSize - 1 : i < k => Stream[taken + i - 0] = taken + i
    <3> SUFFICES ASSUME NEW i \in 0 .. BufSize - 1, i < k
                 PROVE  Stream[taken + i - 0] = taken + i
      OBVIOUS
    <3>1. taken + i - 0 \in 0 .. MaxStream - 1 /\ taken + i - 0 = taken + i
      BY <1>1, <2>1
    <3> QED
      BY <3>1, StreamType
  <2>4. /\ rbuff' \in [0 .. BufSize - 1 -> Int]
        /\ \A i \in 0 .. k - 1 : rbuff'[i] = taken + i
    <3>1. \A i \in 0 .. BufSize - 1 :
            rbuff'[i] = IF i < k THEN taken + i ELSE Fresh(BufSize)[i]
      BY <1>1, <2>1, <2>2, <2>3
    <3>2. \A i \in 0 .. BufSize - 1 : rbuff'[i] \in Int
      BY <1>1, <1>2, <2>1, <3>1
    <3>3. rbuff' = [i \in 0 .. BufSize - 1 |-> rbuff'[i]]
      BY <2>2
    <3>4. rbuff' \in [0 .. BufSize - 1 -> Int]
      BY <3>2, <3>3
    <3>5. \A i \in 0 .. k - 1 : i \in 0 .. BufSize - 1 /\ i < k
      BY <1>1, <2>1
    <3> QED
      BY <3>1, <3>4, <3>5
  <2>5. SendTypes' /\ SendInv'
    BY <1>4, SendSideKept
  <2>6. FlagTypes'
    BY <1>1, <1>4 DEF FlagTypes, sendVars
  <2>7. RecvTypes'
    BY <1>1, <1>4, <2>1, <2>4 DEF RecvTypes
  <2>8. CallShape'
    BY <1>1, <1>4 DEF CallShape, sendVars, userVars, IsLong
  <2>9. RecvInv'
    <3> SUFFICES ASSUME ~stale PROVE RecvInv'
      BY <1>4 DEF RecvInv
    <3>1. /\ \A i \in 0 .. delivered - 1 : got[i] = i
          /\ taken = delivered + Buffered + back
          /\ back = 1 => got[delivered] = delivered
      BY <1>1 DEF RecvInv
    <3>2. Buffered' = k
      BY <1>4, <2>1 DEF Buffered
    <3>3. delivered \in Nat /\ back \in Nat
      BY <1>1 DEF RecvTypes
    <3>4. taken' = delivered' + Buffered' + back'
      BY <1>1, <1>4, <2>1, <3>1, <3>2, <3>3
    <3>5. \A i \in read_pos' .. recv_pos' - 1 : rbuff'[i] = taken' - recv_pos' + i
      BY <1>1, <1>4, <2>1, <2>4
    <3> QED
      BY <1>4, <3>1, <3>4, <3>5 DEF RecvInv
  <2> QED
    BY <2>5, <2>6, <2>7, <2>8, <2>9 DEF StreamInv, TypeOK
<1> QED
  BY <1>3, <1>4 DEF Refill

LEMMA RecvDirectStep ==
  ASSUME StreamInv, RecvDirect
  PROVE  StreamInv'
<1>1. /\ FlagTypes /\ SendTypes /\ RecvTypes /\ CallShape /\ SendInv /\ RecvInv
      /\ sock = "up" /\ rd > 0 /\ rd \in Nat /\ direct /\ Buffered = 0 /\ back = 0
      /\ BufSize \in Nat /\ MaxStream \in Nat
      /\ produced \in 0 .. MaxStream /\ taken \in 0 .. produced
      /\ delivered \in Nat /\ rd + delivered <= MaxStream
      /\ got \in [0 .. MaxStream - 1 -> Int]
  BY BufSizeAssumption, BoundsAssumption
     DEF StreamInv, TypeOK, RecvDirect, RecvTypes, CallShape
<1>2. CASE RecvFails /\ UNCHANGED rbuff
  <2>1. rbuff' \in [0 .. BufSize - 1 -> Int]
    BY <1>1, <1>2 DEF RecvTypes
  <2> QED
    BY <1>1, <1>2, <2>1, RecvFailsStep
<1>3. ASSUME NEW k \in 1 .. Lesser(rd, produced - taken),
             /\ got' = MemCpy(got, delivered, Stream, taken, k)
             /\ delivered' = delivered + k
             /\ rd' = rd - k
             /\ taken' = taken + k
             /\ recv_pos' = 0 /\ read_pos' = 0
             /\ UNCHANGED <<sock, conns, sendVars, stale, rbuff, back, lastByte, direct,
                            produced>>
      PROVE  StreamInv'
  <2>1. k \in Nat /\ k > 0 /\ k <= rd /\ taken + k <= produced
    BY <1>1 DEF Lesser
  <2>2. got' = [i \in 0 .. MaxStream - 1 |->
                  IF delivered <= i /\ i < delivered + k THEN Stream[taken + i - delivered] ELSE got[i]]
    <3>1. DOMAIN got = 0 .. MaxStream - 1
      BY <1>1
    <3> QED
      BY <1>3, <3>1 DEF MemCpy
  <2>3. \A i \in 0 .. MaxStream - 1 : delivered <= i /\ i < delivered + k =>
           Stream[taken + i - delivered] = taken + i - delivered
    <3> SUFFICES ASSUME NEW i \in 0 .. MaxStream - 1, delivered <= i, i < delivered + k
                 PROVE  Stream[taken + i - delivered] = taken + i - delivered
      OBVIOUS
    <3>1. taken + i - delivered \in 0 .. MaxStream - 1
      BY <1>1, <2>1
    <3> QED
      BY <3>1, StreamType
  <2>4. got' = [i \in 0 .. MaxStream - 1 |->
                  IF delivered <= i /\ i < delivered + k THEN taken + i - delivered ELSE got[i]]
    BY <2>2, <2>3
  <2>5. got' \in [0 .. MaxStream - 1 -> Int]
    BY <1>1, <2>1, <2>4
  <2>6. SendTypes' /\ SendInv'
    BY <1>3, SendSideKept
  <2>7. FlagTypes'
    BY <1>1, <1>3 DEF FlagTypes, sendVars
  <2>8. RecvTypes'
    BY <1>1, <1>3, <2>1, <2>5 DEF RecvTypes
  <2>9. Buffered' = 0
    BY <1>3 DEF Buffered
  <2>10. CallShape'
    BY <1>1, <1>3, <2>1, <2>9 DEF CallShape, sendVars, userVars, IsLong
  <2>11. RecvInv'
    <3> SUFFICES ASSUME ~stale
                 PROVE  /\ \A i \in 0 .. delivered' - 1 : got'[i] = i
                        /\ taken' = delivered'
      BY <1>1, <1>3, <2>9, <2>1 DEF RecvInv
    <3>1. (\A i \in 0 .. delivered - 1 : got[i] = i) /\ taken = delivered
      BY <1>1 DEF RecvInv
    <3>2. ASSUME NEW i \in 0 .. delivered' - 1 PROVE got'[i] = i
      <4>1. i \in 0 .. MaxStream - 1 /\ i < delivered + k
        BY <1>1, <1>3, <2>1
      <4> QED
        BY <1>1, <2>4, <3>1, <4>1
    <3> QED
      BY <1>1, <1>3, <3>1, <3>2
  <2> QED
    BY <2>6, <2>7, <2>8, <2>10, <2>11 DEF StreamInv, TypeOK
<1> QED
  BY <1>2, <1>3 DEF RecvDirect

LEMMA ReConnectStep ==
  ASSUME StreamInv, ReConnect
  PROVE  StreamInv'
<1>1. /\ FlagTypes /\ SendTypes /\ RecvTypes /\ CallShape
      /\ sock = "broken" /\ len = 0 /\ rd = 0 /\ back = 0
      /\ BufSize \in Nat /\ MaxStream \in Nat
      /\ Fresh(MaxStream) \in [0 .. MaxStream - 1 -> Int]
  BY BufSizeAssumption, BoundsAssumption, FreshType
     DEF StreamInv, TypeOK, ReConnect, CallShape
<1>2. /\ sock' = "up" /\ conns' = conns + 1
      /\ written' = 0 /\ wire' = Fresh(MaxStream) /\ wireLen' = 0
      /\ produced' = 0 /\ taken' = 0 /\ got' = Fresh(MaxStream) /\ delivered' = 0
      /\ lastByte' = FALSE /\ skewed' = FALSE
      /\ stale' = (put_pos > 0 \/ Buffered > 0)
      /\ UNCHANGED <<sbuff, put_pos, userVars, rbuff, recv_pos, read_pos, back, rd, direct>>
  BY DEF ReConnect
<1>3. FlagTypes'
  <2>1. stale' \in BOOLEAN
    BY <1>2
  <2> QED
    BY <1>1, <1>2, <2>1 DEF FlagTypes
<1>4. SendTypes'
  BY <1>1, <1>2 DEF SendTypes, userVars
<1>5. RecvTypes'
  BY <1>1, <1>2 DEF RecvTypes
<1>6. CallShape'
  BY <1>1, <1>2 DEF CallShape, userVars
<1>7. ~stale' => put_pos = 0 /\ Buffered = 0 /\ recv_pos = read_pos /\ Buffered' = 0
  <2>1. put_pos \in Nat /\ recv_pos \in Nat /\ read_pos \in 0 .. recv_pos
    BY <1>1 DEF SendTypes, RecvTypes
  <2>2. ~stale' => ~(put_pos > 0) /\ ~(Buffered > 0)
    BY <1>2, Zenon
  <2> QED
    BY <1>2, <2>1, <2>2 DEF Buffered
<1>8. SendInv'
  BY <1>1, <1>2, <1>7 DEF SendInv, userVars
<1>9. RecvInv'
  BY <1>1, <1>2, <1>7 DEF RecvInv, RecvTypes
<1> QED
  BY <1>3, <1>4, <1>5, <1>6, <1>8, <1>9 DEF StreamInv, TypeOK

LEMMA NextStreamInv == StreamInv /\ [Next]_vars => StreamInv'
<1> SUFFICES ASSUME StreamInv, [Next]_vars PROVE StreamInv'
  OBVIOUS
<1>1. CASE UNCHANGED vars
  BY <1>1 DEF vars, sendVars, userVars, recvVars, StreamInv, TypeOK, FlagTypes, SendTypes,
              RecvTypes, CallShape, SendInv, RecvInv, Buffered, IsLong
<1>2. CASE Next
  BY <1>2, SendDataStep, CopyInStep, FlushSteps, SendLongStep, ReadCallSteps, CopyOutStep,
     RefillStep, RecvDirectStep, ReConnectStep DEF Next
<1> QED
  BY <1>1, <1>2

-----------------------------------------------------------------------------
(* The inductive invariant, for every buffer size and every set of lengths. *)
THEOREM StreamSafety == Spec => []StreamInv
BY InitStreamInv, NextStreamInv, PTL DEF Spec

(* Positions stay inside the buffers, counters inside the streams. *)
THEOREM TypeCorrect == Spec => []TypeOK
<1>1. StreamInv => TypeOK
  BY DEF StreamInv
<1> QED
  BY <1>1, StreamSafety, PTL

(* sendData and netFlush keep the order of what the driver sends. *)
THEOREM SendOrder == Spec => []SentInOrder
<1>1. StreamInv => SentInOrder
  BY DEF StreamInv, SendInv, SentInOrder
<1> QED
  BY <1>1, StreamSafety, PTL

(* Between calls, what is not on the wire is in sbuff. *)
THEOREM SendComplete == Spec => []NothingWithheld
<1>1. StreamInv => NothingWithheld
  BY DEF StreamInv, TypeOK, SendTypes, SendInv, NothingWithheld
<1> QED
  BY <1>1, StreamSafety, PTL

(* readData, readByte and backByte deliver the server's bytes in order. *)
THEOREM ReceiveOrder == Spec => []ReceivedInOrder
<1>1. StreamInv => ReceivedInOrder
  BY DEF StreamInv, RecvInv, ReceivedInOrder
<1> QED
  BY <1>1, StreamSafety, PTL

(* Every byte recv returned is delivered, buffered or put back. *)
THEOREM ReceiveComplete == Spec => []NoByteDropped
<1>1. StreamInv => NoByteDropped
  BY DEF StreamInv, RecvInv, NoByteDropped
<1> QED
  BY <1>1, StreamSafety, PTL

-----------------------------------------------------------------------------
(* The buffered streams implement byte queues, in both directions.         *)

(* The first k bytes of a stream: what a reader who got k bytes must hold. *)
Run(k) == [i \in 1 .. k |-> i - 1]

LEMMA RunType ==
  ASSUME NEW k \in Nat
  PROVE  /\ Run(k) \in Seq(Int) /\ Len(Run(k)) = k
         /\ \A i \in 1 .. k : Run(k)[i] = i - 1
<1>1. Run(k) \in [1 .. k -> Int]
  BY DEF Run
<1>2. Run(k) \in Seq(Int)
  BY <1>1, SeqDef
<1> QED
  BY <1>1, <1>2, LenProperties DEF Run

LEMMA NextBytesType ==
  ASSUME NEW m \in Nat, NEW n \in Nat
  PROVE  LET s == [i \in 1 .. n |-> m + i - 1] IN
           /\ s \in Seq(Int) /\ Len(s) = n
           /\ \A i \in 1 .. n : s[i] = m + i - 1
<1> DEFINE s == [i \in 1 .. n |-> m + i - 1]
<1>1. s \in [1 .. n -> Int]
  OBVIOUS
<1>2. s \in Seq(Int)
  BY <1>1, SeqDef
<1> QED
  BY <1>1, <1>2, LenProperties

(* Taking the next n bytes is appending them. *)
LEMMA RunExtends ==
  ASSUME NEW m \in Nat, NEW n \in Nat
  PROVE  Run(m + n) = Run(m) \o [i \in 1 .. n |-> m + i - 1]
<1> DEFINE s == [i \in 1 .. n |-> m + i - 1]
<1>1. s \in Seq(Int) /\ Len(s) = n /\ \A i \in 1 .. n : s[i] = m + i - 1
  BY NextBytesType
<1>2. Run(m) \in Seq(Int) /\ Len(Run(m)) = m /\ \A i \in 1 .. m : Run(m)[i] = i - 1
  BY RunType
<1>3. m + n \in Nat
  OBVIOUS
<1>4. /\ Run(m + n) \in Seq(Int) /\ Len(Run(m + n)) = m + n
      /\ \A i \in 1 .. m + n : Run(m + n)[i] = i - 1
  BY <1>3, RunType
<1> HIDE DEF s
<1>5. /\ Run(m) \o s \in Seq(Int) /\ Len(Run(m) \o s) = m + n
      /\ \A i \in 1 .. m + n : (Run(m) \o s)[i] = IF i <= m THEN Run(m)[i] ELSE s[i - m]
  <2>1. /\ Run(m) \o s \in Seq(Int) /\ Len(Run(m) \o s) = Len(Run(m)) + Len(s)
        /\ \A i \in 1 .. Len(Run(m)) + Len(s) :
              (Run(m) \o s)[i] = IF i <= Len(Run(m)) THEN Run(m)[i] ELSE s[i - Len(Run(m))]
    <3>1. Run(m) \in Seq(Int) /\ s \in Seq(Int)
      BY <1>1, <1>2
    <3> QED
      BY ONLY <3>1, ConcatProperties
  <2>2. Len(Run(m)) = m /\ Len(s) = n
    BY <1>1, <1>2
  <2> QED
    BY <2>1, <2>2
<1>6. ASSUME NEW i \in 1 .. m + n PROVE Run(m + n)[i] = (Run(m) \o s)[i]
  <2>1. CASE i <= m
    BY <1>2, <1>4, <1>5, <2>1
  <2>2. CASE i > m
    <3>1. i - m \in 1 .. n
      BY <2>2
    <3>2. s[i - m] = m + (i - m) - 1
      BY <1>1, <3>1
    <3>3. (Run(m) \o s)[i] = s[i - m]
      BY <1>5, <2>2
    <3>4. Run(m + n)[i] = i - 1
      BY <1>4
    <3> QED
      BY <3>2, <3>3, <3>4
  <2>3. i <= m \/ i > m
    OBVIOUS
  <2> QED
    BY ONLY <2>1, <2>2, <2>3
<1>7. Run(m + n) = Run(m) \o s
  BY <1>4, <1>5, <1>6, SeqEqual
<1> QED
  BY <1>7 DEF s

(* Putting back the last byte is dropping it. *)
LEMMA RunShrinks ==
  ASSUME NEW m \in Nat, m > 0
  PROVE  Run(m) # <<>> /\ Run(m - 1) = SubSeq(Run(m), 1, m - 1)
<1>1. Run(m) \in Seq(Int) /\ Len(Run(m)) = m /\ \A i \in 1 .. m : Run(m)[i] = i - 1
  BY RunType
<1>2. m - 1 \in Nat /\ 1 \in Int
  OBVIOUS
<1>3. /\ Run(m - 1) \in Seq(Int) /\ Len(Run(m - 1)) = m - 1
      /\ \A i \in 1 .. m - 1 : Run(m - 1)[i] = i - 1
  BY <1>2, RunType
<1>4. \A i \in 1 .. m - 1 : Run(m)[i] \in Int
  BY <1>1
<1> DEFINE s == SubSeq(Run(m), 1, m - 1)
<1>5. /\ s \in Seq(Int)
      /\ Len(s) = IF 1 <= m - 1 THEN m - 1 - 1 + 1 ELSE 0
      /\ \A i \in 1 .. m - 1 - 1 + 1 : s[i] = Run(m)[1 + i - 1]
  BY <1>2, <1>4, SubSeqProperties
<1> HIDE DEF s
<1>6. Len(s) = m - 1 /\ \A i \in 1 .. m - 1 : s[i] = i - 1
  BY <1>1, <1>5
<1>7. Run(m - 1) = s
  BY <1>3, <1>5, <1>6, SeqEqual
<1>8. Run(m) # <<>>
  BY <1>1, EmptySeq
<1> QED
  BY <1>7, <1>8 DEF s

LEMMA RunEmpty == Run(0) = <<>>
<1>1. Run(0) \in Seq(Int) /\ Len(Run(0)) = 0
  BY RunType
<1> QED
  BY <1>1, EmptySeq

(* The two sequences the refinement mapping builds. *)
OnWire == [i \in 1 .. wireLen |-> wire[i - 1]]
Handed == [i \in 1 .. delivered |-> got[i - 1]]

LEMMA OnWireIsRun ==
  ASSUME StreamInv, ~skewed, ~stale
  PROVE  OnWire = Run(wireLen)
<1>1. wireLen \in Nat /\ \A i \in 0 .. wireLen - 1 : wire[i] = i
  BY BoundsAssumption DEF StreamInv, TypeOK, SendTypes, SendInv
<1>2. \A i \in 1 .. wireLen : wire[i - 1] = i - 1
  BY <1>1
<1> QED
  BY <1>2 DEF OnWire, Run

LEMMA HandedIsRun ==
  ASSUME StreamInv, ~stale
  PROVE  Handed = Run(delivered)
<1>1. delivered \in Nat /\ \A i \in 0 .. delivered - 1 : got[i] = i
  BY BoundsAssumption DEF StreamInv, TypeOK, RecvTypes, RecvInv
<1>2. \A i \in 1 .. delivered : got[i - 1] = i - 1
  BY <1>1
<1> QED
  BY <1>2 DEF Handed, Run

-----------------------------------------------------------------------------
(* Outbound: the driver puts bytes in, the server takes them out. *)

OutFrame == written' = written /\ wire' = wire /\ wireLen' = wireLen

LEMMA OutPut ==
  ASSUME StreamInv, NEW n \in SendLens, SendData(n)
  PROVE  Outbound!Put
<1>1. n \in Nat /\ n > 0 /\ written \in Nat
  BY LensAssumption, BoundsAssumption DEF StreamInv, TypeOK, SendTypes
<1>2. written' = written + n /\ wire' = wire /\ wireLen' = wireLen
  BY DEF SendData
<1>3. written' \in Nat /\ written' > written
  BY <1>1, <1>2
<1> QED
  BY <1>2, <1>3 DEF Outbound!Put

(* n more bytes on the wire, none beyond what was written. *)
LEMMA OutTake ==
  ASSUME StreamInv, StreamInv', ~skewed, ~stale, ~skewed', ~stale',
         NEW n \in Nat, wireLen' = wireLen + n, wireLen + n <= written,
         written' = written
  PROVE  Outbound!Take \/ UNCHANGED Outbound!queue
<1>1. wireLen \in Nat /\ written \in Nat
  BY BoundsAssumption DEF StreamInv, TypeOK, SendTypes
<1>2. OnWire = Run(wireLen) /\ OnWire' = Run(wireLen + n)
  <2>1. OnWire' = Run(wireLen')
    <3>1. StreamInv' /\ ~skewed' /\ ~stale' => (OnWire = Run(wireLen))'
      BY OnWireIsRun, PTL
    <3> QED
      BY <3>1 DEF Run
  <2> QED
    BY <2>1, OnWireIsRun
<1>3. Len(OnWire) = wireLen
  BY <1>1, <1>2, RunType
<1>4. CASE n = 0
  <2>1. OnWire' = OnWire
    BY <1>1, <1>2, <1>4
  <2> QED
    BY <2>1 DEF Outbound!queue, OnWire
<1>5. CASE n > 0
  <2>1. n \in 1 .. written - Len(OnWire)
    BY <1>1, <1>3, <1>5
  <2>2. OnWire' = OnWire \o [i \in 1 .. n |-> Len(OnWire) + i - 1]
    BY <1>1, <1>2, <1>3, RunExtends
  <2> QED
    BY <2>1, <2>2 DEF Outbound!Take, OnWire
<1> QED
  BY <1>4, <1>5

(* The part of StreamInv the outbound steps need. *)
LEMMA OutFacts ==
  ASSUME StreamInv, ~skewed, ~stale, sock = "up"
  PROVE  /\ wireLen \in Nat /\ put_pos \in Nat /\ len \in Nat /\ written \in Nat
         /\ wireLen + put_pos + len = written
BY BoundsAssumption, BufSizeAssumption DEF StreamInv, TypeOK, SendTypes, SendInv

OutStep == Outbound!Next \/ skewed' \/ stale' \/ UNCHANGED Outbound!queue

(* sockSend of sbuff, whole or cut short. *)
LEMMA OutSend ==
  ASSUME StreamInv, StreamInv', sock = "up", NEW src, NEW from, NEW n \in Nat,
         n <= put_pos + len, written' = written, stale' = stale, skewed => skewed',
         SockSend(src, from, n) \/ SockSendFails(src, from, n)
  PROVE  OutStep
<1>1. CASE skewed' \/ stale'
  BY <1>1 DEF OutStep
<1>2. CASE ~skewed' /\ ~stale'
  <2>1. ~skewed /\ ~stale
    BY <1>2
  <2>2. /\ wireLen \in Nat /\ put_pos \in Nat /\ len \in Nat /\ written \in Nat
        /\ wireLen + put_pos + len = written
    BY <2>1, OutFacts
  <2>3. PICK j \in Nat : j <= n /\ wireLen' = wireLen + j
    <3>1. CASE SockSend(src, from, n)
      BY <3>1 DEF SockSend
    <3>2. CASE SockSendFails(src, from, n)
      <4>1. PICK j \in 0 .. n - 1 : wireLen' = wireLen + j
        BY <3>2 DEF SockSendFails
      <4> QED
        BY <4>1
    <3> QED
      BY <3>1, <3>2
  <2>4. wireLen + j <= written
    BY <2>2, <2>3
  <2>5. Outbound!Take \/ UNCHANGED Outbound!queue
    BY <1>2, <2>1, <2>3, <2>4, OutTake
  <2> QED
    BY <2>5 DEF OutStep, Outbound!Next
<1> QED
  BY <1>1, <1>2

LEMMA OutSends ==
  ASSUME StreamInv, StreamInv', SendFull \/ DrainBeforeLong \/ SendLong \/ NetFlush
  PROVE  OutStep
<1>1. /\ put_pos \in Nat /\ len \in Nat /\ sock = "up"
      /\ put_pos <= put_pos + len /\ len <= put_pos + len
  BY BufSizeAssumption DEF StreamInv, TypeOK, SendTypes, SendFull, DrainBeforeLong, SendLong,
     NetFlush, Quiet
<1>2. /\ written' = written /\ stale' = stale /\ (skewed => skewed')
  BY DEF SendFull, DrainBeforeLong, SendLong, NetFlush, SockSendFails, userVars
<1>3. CASE SendFull \/ DrainBeforeLong \/ NetFlush
  <2>1. SockSend(sbuff, 0, put_pos) \/ SockSendFails(sbuff, 0, put_pos)
    BY <1>3 DEF SendFull, DrainBeforeLong, NetFlush
  <2> QED
    BY <1>1, <1>2, <2>1, OutSend
<1>4. CASE SendLong
  <2>1. SockSend(UserBuff, off, len) \/ SockSendFails(UserBuff, off, len)
    BY <1>4 DEF SendLong
  <2> QED
    BY <1>1, <1>2, <2>1, OutSend
<1> QED
  BY <1>3, <1>4

(* A step that leaves written and the wire alone leaves the queue alone. *)
LEMMA OutIdle ==
  ASSUME written' = written, wire' = wire, wireLen' = wireLen
  PROVE  UNCHANGED Outbound!queue
BY DEF Outbound!queue

LEMMA ReconnectEmpties ==
  ASSUME ReConnect
  PROVE  Outbound!Reconnect /\ Inbound!Reconnect
<1>1. /\ written' = 0 /\ wireLen' = 0 /\ produced' = 0 /\ delivered' = 0
  BY DEF ReConnect
<1>2. [i \in 1 .. wireLen |-> wire[i - 1]]' = <<>>
  BY <1>1
<1>3. [i \in 1 .. delivered |-> got[i - 1]]' = <<>>
  BY <1>1
<1> QED
  BY <1>1, <1>2, <1>3 DEF Outbound!Reconnect, Inbound!Reconnect

LEMMA OutNext ==
  ASSUME StreamInv, StreamInv', Next
  PROVE  OutStep
<1>1. ASSUME NEW n \in SendLens, SendData(n) PROVE OutStep
  BY <1>1, OutPut DEF OutStep, Outbound!Next
<1>2. CASE SendFull \/ DrainBeforeLong \/ SendLong \/ NetFlush
  BY <1>2, OutSends
<1>3. CASE ReConnect
  BY <1>3, ReconnectEmpties DEF OutStep, Outbound!Next
<1>4. ASSUME NEW n \in ReadLens, ReadData(n) PROVE OutStep
  BY <1>4, OutIdle DEF ReadData, sendVars, OutStep
<1>5. CASE CopyIn \/ ServerSends \/ ReadByte \/ BackByte \/ CopyOut \/ Refill \/ RecvDirect
  <2>1. written' = written /\ wire' = wire /\ wireLen' = wireLen
    BY <1>5 DEF CopyIn, ServerSends, ReadByte, BackByte, CopyOut, Refill, RecvDirect,
       RecvFails, sendVars
  <2> QED
    BY <2>1, OutIdle DEF OutStep
<1> QED
  BY <1>1, <1>2, <1>3, <1>4, <1>5 DEF Next

-----------------------------------------------------------------------------
(* Inbound: the server puts bytes in, the callers of readData and readByte *)
(* take them out, and may put back the last one.                           *)

InStep == Inbound!Next \/ stale' \/ UNCHANGED Inbound!queue

LEMMA InFacts ==
  ASSUME StreamInv, ~stale, sock = "up"
  PROVE  /\ produced \in Nat /\ taken \in Nat /\ delivered \in Nat /\ back \in 0 .. 1
         /\ rd \in Nat /\ Buffered \in Nat /\ BufSize \in Nat
         /\ taken <= produced /\ taken = delivered + Buffered + back
BY BoundsAssumption, BufSizeAssumption DEF StreamInv, TypeOK, RecvTypes, RecvInv, Buffered

LEMMA InSequences ==
  ASSUME StreamInv, StreamInv', ~stale, ~stale'
  PROVE  /\ delivered \in Nat /\ delivered' \in Nat
         /\ Handed = Run(delivered) /\ Handed' = Run(delivered')
         /\ Len(Handed) = delivered
<1>1. delivered \in Nat /\ delivered' \in Nat
  BY BoundsAssumption DEF StreamInv, TypeOK, RecvTypes
<1>2. Handed = Run(delivered)
  BY HandedIsRun
<1>3. Handed' = Run(delivered')
  <2>1. StreamInv' /\ ~stale' => (Handed = Run(delivered))'
    BY HandedIsRun, PTL
  <2> QED
    BY <2>1 DEF Run
<1> QED
  BY <1>1, <1>2, <1>3, RunType

(* n more bytes handed to the caller, none beyond what was sent. *)
LEMMA InTake ==
  ASSUME StreamInv, StreamInv', ~stale, ~stale',
         NEW n \in Nat, delivered' = delivered + n, delivered + n <= produced,
         produced \in Nat, produced' = produced
  PROVE  Inbound!Take \/ UNCHANGED Inbound!queue
<1>1. /\ delivered \in Nat /\ Len(Handed) = delivered
      /\ Handed = Run(delivered) /\ Handed' = Run(delivered + n)
  BY InSequences
<1>2. CASE n = 0
  <2>1. Handed' = Handed
    BY <1>1, <1>2
  <2> QED
    BY <2>1 DEF Inbound!queue, Handed
<1>3. CASE n > 0
  <2>1. n \in 1 .. produced - Len(Handed)
    BY <1>1, <1>3
  <2>2. Handed' = Handed \o [i \in 1 .. n |-> Len(Handed) + i - 1]
    BY <1>1, RunExtends
  <2> QED
    BY <2>1, <2>2 DEF Inbound!Take, Handed
<1> QED
  BY <1>2, <1>3

LEMMA InBack ==
  ASSUME StreamInv, StreamInv', BackByte, ~stale
  PROVE  Inbound!PutBack
<1>1. /\ delivered' = delivered - 1 /\ produced' = produced /\ stale' = stale
      /\ sock = "up" /\ lastByte /\ rd = 0
  BY DEF BackByte, Quiet
<1>2. delivered > 0
  BY <1>1 DEF StreamInv, CallShape
<1>3. /\ delivered \in Nat /\ Len(Handed) = delivered
      /\ Handed = Run(delivered) /\ Handed' = Run(delivered - 1)
  BY <1>1, InSequences
<1>4. Handed # <<>> /\ Handed' = SubSeq(Handed, 1, Len(Handed) - 1)
  BY <1>2, <1>3, RunShrinks
<1> QED
  BY <1>1, <1>4 DEF Inbound!PutBack, Handed

(* How far one step of a read moves the caller. *)
LEMMA InReads ==
  ASSUME StreamInv, ~stale, CopyOut \/ RecvDirect \/ Refill \/ ReadByte
  PROVE  \E n \in Nat : delivered' = delivered + n /\ delivered + n <= produced
<1>1. sock = "up"
  BY DEF CopyOut, RecvDirect, Refill, ReadByte, Quiet
<1>2. /\ produced \in Nat /\ taken \in Nat /\ delivered \in Nat /\ back \in 0 .. 1
      /\ rd \in Nat /\ Buffered \in Nat /\ BufSize \in Nat
      /\ taken <= produced /\ taken = delivered + Buffered + back
  BY <1>1, InFacts
<1>3. CASE CopyOut
  <2> DEFINE n == Lesser(Buffered, rd)
  <2>1. delivered' = delivered + n
    BY <1>3 DEF CopyOut
  <2>2. n \in Nat /\ n <= Buffered
    BY <1>2 DEF Lesser
  <2> HIDE DEF n
  <2>3. delivered + n <= produced
    BY <1>2, <2>2
  <2> QED
    BY <2>1, <2>2, <2>3
<1>4. CASE RecvDirect
  <2>1. rd > 0 /\ Buffered = 0
    BY <1>4 DEF RecvDirect
  <2>2. back = 0
    BY <1>2, <2>1 DEF StreamInv, CallShape
  <2>3. CASE RecvFails
    <3>1. delivered' = delivered + 0 /\ delivered + 0 <= produced
      BY <1>2, <2>3 DEF RecvFails
    <3> QED
      BY <3>1
  <2>4. CASE ~RecvFails
    <3>1. PICK k \in 1 .. Lesser(rd, produced - taken) : delivered' = delivered + k
      BY <1>4, <2>4 DEF RecvDirect
    <3>2. k \in Nat /\ k <= produced - taken
      BY <1>2, <3>1 DEF Lesser
    <3>3. delivered + k <= produced
      BY <1>2, <2>1, <2>2, <3>2
    <3> QED
      BY <3>1, <3>2, <3>3
  <2> QED
    BY <2>3, <2>4
<1>5. CASE Refill
  <2>1. delivered' = delivered + 0 /\ delivered + 0 <= produced
    BY <1>2, <1>5 DEF Refill, RecvFails
  <2> QED
    BY <2>1
<1>6. CASE ReadByte
  <2>1. CASE back = 1 /\ delivered' = delivered + 1
    <3>1. delivered + 1 <= produced
      BY <1>2, <2>1
    <3> QED
      BY <2>1, <3>1
  <2>2. CASE delivered' = delivered
    <3>1. delivered' = delivered + 0 /\ delivered + 0 <= produced
      BY <1>2, <2>2
    <3> QED
      BY <3>1
  <2> QED
    BY <1>6, <2>1, <2>2 DEF ReadByte
<1> QED
  BY <1>3, <1>4, <1>5, <1>6

LEMMA InIdle ==
  ASSUME produced' = produced, got' = got, delivered' = delivered
  PROVE  UNCHANGED Inbound!queue
BY DEF Inbound!queue

LEMMA InNext ==
  ASSUME StreamInv, StreamInv', Next
  PROVE  InStep
<1>1. CASE ReConnect
  BY <1>1, ReconnectEmpties DEF InStep, Inbound!Next
<1>2. CASE CopyOut \/ RecvDirect \/ Refill \/ ReadByte
  <2>1. stale' = stale /\ produced' = produced
    BY <1>2 DEF CopyOut, RecvDirect, Refill, ReadByte, RecvFails
  <2>2. CASE stale'
    BY <2>2 DEF InStep
  <2>3. CASE ~stale'
    <3>1. PICK n \in Nat : delivered' = delivered + n /\ delivered + n <= produced
      BY <1>2, <2>1, <2>3, InReads
    <3>2. produced \in Nat
      BY BoundsAssumption DEF StreamInv, TypeOK, RecvTypes
    <3>3. Inbound!Take \/ UNCHANGED Inbound!queue
      BY <2>1, <2>3, <3>1, <3>2, InTake
    <3> QED
      BY <3>3 DEF InStep, Inbound!Next
  <2> QED
    BY <2>2, <2>3
<1>3. CASE BackByte
  <2>1. stale' = stale
    BY <1>3 DEF BackByte
  <2> QED
    BY <1>3, <2>1, InBack DEF InStep, Inbound!Next
<1>4. CASE ServerSends
  <2>1. PICK k \in 1 .. MaxStream - produced : produced' = produced + k
    BY <1>4 DEF ServerSends
  <2>2. got' = got /\ delivered' = delivered
    BY <1>4 DEF ServerSends
  <2>3. produced \in Nat /\ MaxStream \in Nat
    BY BoundsAssumption DEF StreamInv, TypeOK, RecvTypes
  <2>4. produced' \in Nat /\ produced' > produced
    BY <2>1, <2>3
  <2>5. Inbound!Put
    BY <2>2, <2>4 DEF Inbound!Put
  <2> QED
    BY <2>5 DEF InStep, Inbound!Next
<1>5. ASSUME NEW n \in SendLens, SendData(n) PROVE InStep
  BY <1>5, InIdle DEF SendData, InStep
<1>6. ASSUME NEW n \in ReadLens, ReadData(n) PROVE InStep
  BY <1>6, InIdle DEF ReadData, InStep
<1>7. CASE CopyIn \/ SendFull \/ DrainBeforeLong \/ SendLong \/ NetFlush
  <2>1. produced' = produced /\ got' = got /\ delivered' = delivered
    BY <1>7 DEF CopyIn, SendFull, DrainBeforeLong, SendLong, NetFlush, SockSendFails, recvVars
  <2> QED
    BY <2>1, InIdle DEF InStep
<1> QED
  BY <1>1, <1>2, <1>3, <1>4, <1>5, <1>6, <1>7 DEF Next

-----------------------------------------------------------------------------
LEMMA QueuesStart == Init => Outbound!Init /\ Inbound!Init
<1> SUFFICES ASSUME Init PROVE Outbound!Init /\ Inbound!Init
  OBVIOUS
<1>1. written = 0 /\ wireLen = 0 /\ produced = 0 /\ delivered = 0
  BY DEF Init
<1>2. [i \in 1 .. wireLen |-> wire[i - 1]] = <<>> /\ [i \in 1 .. delivered |-> got[i - 1]] = <<>>
  BY <1>1
<1> QED
  BY <1>1, <1>2 DEF Outbound!Init, Inbound!Init

(* sendData, netFlush, readData, readByte and backByte, with partial       *)
(* transfers, failures and reConnect, are two byte queues: each step of    *)
(* the buffers is a step of a queue or none.                               *)
THEOREM StreamsAreQueues == Spec => ImplementsQueues
<1>1. Init => Outbound!Init /\ Inbound!Init
  BY QueuesStart
<1>2. StreamInv /\ StreamInv' /\ [Next]_vars =>
        /\ [Outbound!Next \/ skewed' \/ stale']_(Outbound!queue)
        /\ [Inbound!Next \/ stale']_(Inbound!queue)
  <2> SUFFICES ASSUME StreamInv, StreamInv', [Next]_vars
               PROVE  /\ [Outbound!Next \/ skewed' \/ stale']_(Outbound!queue)
                      /\ [Inbound!Next \/ stale']_(Inbound!queue)
    OBVIOUS
  <2>1. CASE Next
    BY <2>1, OutNext, InNext DEF OutStep, InStep
  <2>2. CASE UNCHANGED vars
    BY <2>2, OutIdle, InIdle DEF vars, sendVars, recvVars
  <2> QED
    BY <2>1, <2>2
<1>3. Spec => []StreamInv
  BY StreamSafety
<1> QED
  BY <1>1, <1>2, <1>3, PTL DEF Spec, ImplementsQueues
=============================================================================
