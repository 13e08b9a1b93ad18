------------------------------- MODULE Values -------------------------------
(***************************************************************************)
(* The values of parameters and columns: toKunData and sqlT2KunT on the    *)
(* way to the server, as sendQryParams calls them, toSysData on the way    *)
(* back, as KCIStmtFetch and handleReturning call it for several rows, and *)
(* KCILobRead on the large object a row left in the application's locator. *)
(*                                                                         *)
(* Memory is a sequence of bytes, the lowest first (the machine is little- *)
(* endian).  A byte has Radix values; a text ends with 0.  A double is two *)
(* numbers k and d, for k / 10^d, in the first two of its eight bytes.     *)
(* The digits of a double that is not a decimal are left out with it.      *)
(* Dates are the subject of KciTime; here SQLT_DATE stands for the types   *)
(* toKunData does not convert.  Conversions between integers and floats    *)
(* other than SQLT_NUM are left out, and so are values above 32 bits in a  *)
(* number.                                                                 *)
(***************************************************************************)
EXTENDS Integers, Sequences, SequencesExt, FiniteSets

CONSTANTS
  Radix,      \* 256
  Statements, \* the parameters of each statement: sequences of variables
  Sizes,      \* sizes of the variables a column is fetched into
  Chunks,     \* sizes of the buffers a large object is read into
  MaxAsked    \* bound of the model: reads of an object behind a descriptor

ASSUME RadixAssumption == Radix \in Nat \ {0, 1}
ASSUME SizesAssumption == Sizes \subseteq Nat \ {0} /\ Chunks \subseteq Nat \ {0}
ASSUME AskedAssumption == MaxAsked \in Nat

VARIABLES
  params,     \* the bound variables: [dt, null, bytes, len, tag]
  p_val,      \* the pointer of sendQryParams: where it points, and the bytes there
  sent,       \* what went out for each parameter: [type, size, data]
  into,       \* the application's array: [dt, siz, path], path "none" before the fetch
  mem,        \* its bytes, and Guard more behind it
  ind, alen,  \* the indicators and lengths of its rows
  locator,    \* [dat, flags, offset, got]: where the application stands in a large object
  sbuff,      \* how many requests wait in the connection's buffer, unsent
  crashed     \* what stopped the program: "no", "null pointer", "foreign block"

vars == <<params, p_val, sent, into, mem, ind, alen, locator, sbuff, crashed>>

Guard == 8          \* as far as a conversion can reach
Fill == Radix - 1   \* what the array holds before
Unset == 99         \* an indicator or length nobody wrote

-----------------------------------------------------------------------------
(* Bytes.                                                                  *)

Bytes(n, w) == [i \in 1 .. w |-> (n \div Radix ^ (i - 1)) % Radix]

Unsigned(b) == FoldLeft(LAMBDA n, byte : n * Radix + byte, 0, Reverse(b))
Signed(b) ==
  IF 2 * Unsigned(b) >= Radix ^ Len(b) THEN Unsigned(b) - Radix ^ Len(b) ELSE Unsigned(b)

Prefix(b, n) == SubSeq(b, 1, n)
StrLen(b) == CHOOSE n \in 0 .. Len(b) - 1 : b[n + 1] = 0 /\ \A i \in 1 .. n : b[i] # 0

Put(m, at, b) == [i \in DOMAIN m |-> IF at < i /\ i <= at + Len(b) THEN b[i - at] ELSE m[i]]

-----------------------------------------------------------------------------
(* Numbers as texts: digits, Point and Minus.                              *)

Point == 10
Minus == 11
Magnitude(k) == IF k < 0 THEN -k ELSE k
Decimal(n, places) == [i \in 1 .. places |-> (n \div 10 ^ (places - i)) % 10]

\* Digits in front of the point: divided by ten as long as it is more than one.
Places(k, d) == CHOOSE n \in 1 .. 6 :
                  k <= 10 ^ (n + d) /\ (n > 1 => k > 10 ^ (n - 1 + d))

double_to_string(double) ==
  LET k == Magnitude(double[1])
      d == double[2]
      n == Places(k, d)
  IN (IF double[1] < 0 THEN <<Minus>> ELSE <<>>)
       \o Decimal(k \div 10 ^ d, n) \o <<Point>> \o Decimal(k % 10 ^ d, d)

\* atof, and the double it gives: 0 for no text.
str2R8(text) ==
  IF text = <<>> THEN <<0, 0, 0, 0, 0, 0, 0, 0>> ELSE
  LET neg == text[1] = Minus
      digits == SelectSeq(text, LAMBDA c : c < Point)
      point == CHOOSE i \in 1 .. Len(text) : text[i] = Point
      k == FoldLeft(LAMBDA n, c : 10 * n + c, 0, digits)
  IN <<IF neg THEN -k ELSE k, Len(text) - point, 0, 0, 0, 0, 0, 0>>

Truncated(double) ==
  LET n == Magnitude(double[1]) \div 10 ^ double[2] IN IF double[1] < 0 THEN -n ELSE n

-----------------------------------------------------------------------------
(* To the server.                                                          *)

Texts   == {"CHR", "AFC", "AVC"}
Copied  == Texts \union {"BIN"}
Scalars == {"INT", "LNG", "FLT", "INTERVAL_YM", "INTERVAL_DS"}
Lobs    == {"CLOB", "BLOB"}

Width(dt, len) ==
  CASE dt = "INT" -> IF len \in {1, 2} THEN len ELSE 4
    [] dt \in {"LNG", "INTERVAL_DS"} -> 8
    [] OTHER -> 4

IntType(len) == IF len = 1 THEN "I1" ELSE IF len = 2 THEN "I2" ELSE "I4"

\* The type of a NULL.
sqlT2KunT(dt, len) ==
  CASE dt \in {"CHR", "AFC", "STR"} -> "CHAR"
    [] dt = "INT" -> IntType(len)
    [] dt = "LNG" -> "I8"
    [] dt = "FLT" -> "R4"
    [] dt = "NUM" -> "NUM"
    [] dt = "DATE" -> "DATETIME"
    [] dt \in {"INTERVAL_YM", "INTERVAL_DS"} \union Lobs -> dt
    [] OTHER -> "BINARY"

\* The pointer stays where it was if the type is not converted: mutant for binary data.
ForgetsBinary(v, i) ==
  IF v.dt = "BIN" THEN p_val ELSE [at |-> "variable", of |-> i, bytes |-> v.bytes]
PointAt(v, i) == [at |-> "variable", of |-> i, bytes |-> v.bytes]

InBuff(b) == [at |-> "buff", of |-> 0, bytes |-> b]

toKunData(v, i) ==
  CASE v.dt \in Copied ->
         [type |-> IF v.dt = "BIN" THEN "BINARY" ELSE "CHAR", size |-> v.len, p |-> PointAt(v, i)]
    [] v.dt = "STR" -> [type |-> "CHAR", size |-> StrLen(v.bytes), p |-> PointAt(v, i)]
    [] v.dt \in Scalars ->
         LET w == Width(v.dt, v.len)
         IN [type |-> sqlT2KunT(v.dt, v.len), size |-> w, p |-> InBuff(Reverse(Prefix(v.bytes, w)))]
    [] v.dt = "NUM" ->
         LET text == double_to_string(v.bytes)
         IN [type |-> "NUM", size |-> Len(text), p |-> InBuff(text)]
    [] v.dt \in Lobs /\ v.tag -> [type |-> v.dt, size |-> 8, p |-> InBuff(v.bytes)]
    [] v.dt \in Lobs /\ ~v.tag ->
         [type |-> v.dt, size |-> v.len, p |-> [at |-> "row", of |-> i, bytes |-> v.bytes]]
    [] OTHER -> [type |-> v.dt, size |-> v.len, p |-> p_val]

NULLPtr == [at |-> "null", of |-> 0, bytes |-> <<>>]

\* The block p_val points to is freed when it is neither the buffer nor the variable:
\* it was taken for one of the statement's memory.
Frees(p, i) == ~(p.at = "buff" \/ (p.at = "variable" /\ p.of = i) \/ p.at = "null")

\* What sendData reads; whatever lies behind what p points to stands as Fill.
Read(p, n) == [i \in 1 .. n |-> IF i <= Len(p.bytes) THEN p.bytes[i] ELSE Fill]

SendNull(v) ==
  /\ v.null
  /\ sent' = Append(sent, [type |-> sqlT2KunT(v.dt, v.len), size |-> -1, data |-> <<>>])
  /\ UNCHANGED <<p_val, crashed>>

SendValue(v, i) ==
  LET c == toKunData(v, i) IN
    /\ ~v.null
    /\ p_val' = c.p
    /\ IF c.p.at = "null"
       THEN crashed' = "null pointer" /\ UNCHANGED sent
       ELSE /\ sent' = Append(sent, [type |-> c.type, size |-> c.size,
                                     data |-> Read(c.p, c.size)])
            /\ crashed' = IF Frees(c.p, i) THEN "foreign block" ELSE "no"

sendQryParams ==
  /\ crashed = "no" /\ Len(sent) < Len(params)
  /\ LET i == Len(sent) + 1 IN SendNull(params[i]) \/ SendValue(params[i], i)
  /\ UNCHANGED <<params, into, mem, ind, alen, locator, sbuff>>

-----------------------------------------------------------------------------
(* The server stores the parameters as the rows of a column and sends them *)
(* back; nothing for a NULL, and a mark in front of a large object.        *)

OneColumn ==
  /\ params # <<>> /\ Len(sent) = Len(params) /\ crashed = "no"
  /\ \A i, j \in DOMAIN sent : sent[i].type = sent[j].type

Column(i) == IF sent[i].type \in Lobs THEN <<1>> \o sent[i].data ELSE sent[i].data

-----------------------------------------------------------------------------
(* From the server.  What toSysData writes, and what it returns.           *)

CutForgotten(data, n) ==                                     \* mutant
  [bytes |-> Prefix(data, IF Len(data) > n THEN n ELSE Len(data)), ret |-> Len(data)]
Cut(data, n) ==
  IF Len(data) > n THEN [bytes |-> Prefix(data, n), ret |-> -n]
                   ELSE [bytes |-> data, ret |-> Len(data)]

TermBehind(data, n) ==                                       \* mutant: no room for the end
  IF Len(data) > n THEN [bytes |-> Prefix(data, n) \o <<0>>, ret |-> -n]
                   ELSE [bytes |-> data \o <<0>>, ret |-> Len(data) + 1]
Terminated(data, n) ==
  IF Len(data) > n - 1 THEN [bytes |-> Prefix(data, n - 1) \o <<0>>, ret |-> -n]
                       ELSE [bytes |-> data \o <<0>>, ret |-> Len(data) + 1]

ZeroExtended(type, data, w) == Bytes(Unsigned(Reverse(data)), w)        \* mutant
Integer(type, data, w) ==
  IF type = "NUM" THEN Bytes(Truncated(str2R8(data)), w) ELSE Bytes(Signed(Reverse(data)), w)

IntTypes == {"I1", "I2", "I4", "I8", "NUM"}

\* The conversions that are modelled.
Converts(type, dt) ==
  \/ dt \in Copied \union {"STR"} /\ type \in {"CHAR", "BINARY", "NUM"}
  \/ dt \in {"INT", "LNG"} /\ type \in IntTypes
  \/ dt = "NUM" /\ type = "NUM"
  \/ dt = "FLT" /\ type = "R4"
  \/ dt \in {"INTERVAL_YM", "INTERVAL_DS"} /\ type = dt

toSysData(type, data, dt, siz) ==
  CASE dt \in Copied -> Cut(data, siz)
    [] dt = "STR" -> Terminated(data, siz)
    [] dt = "INT" -> [bytes |-> Integer(type, data, 4), ret |-> 4]
    [] dt = "LNG" -> [bytes |-> Integer(type, data, 8), ret |-> 8]
    [] dt = "NUM" -> [bytes |-> str2R8(data), ret |-> 8]
    [] OTHER -> [bytes |-> Reverse(data), ret |-> Len(data)]

Rows == Len(params)
Zeros(n) == [i \in 1 .. n |-> 0]
Padded(b, n) == b \o Zeros(n - Len(b))
Array(siz) == [i \in 1 .. Rows * siz + Guard |-> Fill]

\* A column of a row has eight bytes for a short value.  A NULL leaves there what it finds:
\* zeros in a new row; in one that is used again a short value of a row before, or a pointer.
\* Text is read up to its size, which is 0; integers, floats and intervals are read
\* whatever it is, and an interval of days from bytes of the stack behind the end of a text.
TypeWidth(type) == CASE type = "I1" -> 1 [] type = "I2" -> 2 [] type = "I8" -> 8 [] OTHER -> 4
Cells(r) ==
  {Zeros(8), [i \in 1 .. 8 |-> Fill]}
    \union {Padded(Column(j), 8) : j \in {q \in 1 .. r - 1 : Len(Column(q)) <= 8}}

Seen(r, dt) ==
  IF Column(r) # <<>> \/ dt \in Copied \union {"STR"} \/ sent[r].type = "NUM" THEN {Column(r)}
  ELSE IF dt = "INTERVAL_DS" THEN {<<0>> \o [i \in 1 .. 7 |-> b] : b \in 0 .. Radix - 1}
  ELSE {Prefix(cell, TypeWidth(sent[r].type)) : cell \in Cells(r)}
AllSeen(dt) ==
  {seen \in [1 .. Rows -> UNION {Seen(r, dt) : r \in 1 .. Rows}] :
     \A r \in 1 .. Rows : seen[r] \in Seen(r, dt)}

\* KCIStmtFetch: each row's variable is cleared, then written, for a NULL too.  Indicators
\* and lengths are not touched.
Fetched(seen, dt, siz) ==
  LET after[r \in 0 .. Rows] ==
        IF r = 0 THEN Array(siz)
        ELSE LET at == (r - 1) * siz
             IN Put(Put(after[r - 1], at, Zeros(siz)), at,
                    toSysData(sent[r].type, seen[r], dt, siz).bytes)
  IN after[Rows]

Define(dt, siz) ==
  /\ OneColumn /\ into.path = "none"
  /\ Converts(sent[1].type, dt)
  /\ into' = [dt |-> dt, siz |-> siz, path |-> "define"]
  /\ \E seen \in AllSeen(dt) : mem' = Fetched(seen, dt, siz)
  /\ UNCHANGED <<params, p_val, sent, ind, alen, locator, sbuff, crashed>>

\* handleReturning: rows without data leave the variable alone.  With val_skip the
\* indicators and lengths are arrays; without, getBindPtr finds the first of them each time.
Returned(dt, siz) ==
  LET after[r \in 0 .. Rows] ==
        IF r = 0 THEN Array(siz)
        ELSE IF Column(r) = <<>> THEN after[r - 1]
        ELSE Put(after[r - 1], (r - 1) * siz, toSysData(sent[r].type, Column(r), dt, siz).bytes)
  IN after[Rows]

Told(r, dt, siz) ==
  IF Column(r) = <<>> THEN [ind |-> -1, alen |-> 0]
  ELSE LET ret == toSysData(sent[r].type, Column(r), dt, siz).ret
       IN IF ret < 0 THEN [ind |-> -2, alen |-> -ret] ELSE [ind |-> 0, alen |-> ret]

handleReturning(dt, siz, path) ==
  /\ OneColumn /\ into.path = "none"
  /\ Converts(sent[1].type, dt)
  /\ into' = [dt |-> dt, siz |-> siz, path |-> path]
  /\ mem' = Returned(dt, siz)
  /\ LET row(r) == IF path = "strided" THEN r ELSE Rows
     IN /\ ind' = [r \in 1 .. Rows |-> IF path = "strided" \/ r = 1 THEN Told(row(r), dt, siz).ind
                                       ELSE Unset]
        /\ alen' = [r \in 1 .. Rows |-> IF path = "strided" \/ r = 1 THEN Told(row(r), dt, siz).alen
                                        ELSE Unset]
  /\ UNCHANGED <<params, p_val, sent, locator, sbuff, crashed>>

-----------------------------------------------------------------------------
(* A large object.  The locator points behind the mark in the row; flags   *)
(* tells whether the mark says that a descriptor of the object follows.    *)

NoLob == [dat |-> <<>>, flags |-> FALSE, offset |-> 0, got |-> <<>>, done |-> TRUE]

FetchLob ==
  /\ OneColumn /\ into.path = "none"
  /\ sent[1].type \in Lobs /\ sent[1].size > 0
  /\ into' = [dt |-> sent[1].type, siz |-> 1, path |-> "locator"]
  /\ \E flags \in BOOLEAN :
       locator' = [dat |-> Tail(Column(1)), flags |-> flags, offset |-> 0, got |-> <<>>,
                   done |-> FALSE]
  /\ UNCHANGED <<params, p_val, sent, mem, ind, alen, sbuff, crashed>>

Amount(num, bufl) == IF bufl < num THEN bufl ELSE num

\* The application reads on where it stands, from offset 0.
ReadInline(bufl) ==
  /\ ~locator.flags /\ UNCHANGED sbuff
  /\ LET num == Len(locator.dat) - locator.offset
         amt == Amount(num, bufl)
     IN IF num < 1 THEN locator' = [locator EXCEPT !.done = TRUE]
        ELSE locator' = [locator EXCEPT
               !.offset = @ + amt,
               !.got = Append(@, [room |-> bufl, piece |->
                         SubSeq(locator.dat, locator.offset + 1, locator.offset + amt)])]

\* The request is put in sbuff and not flushed.  readI4(num) is then the one that takes a
\* socket: with 0 it receives nothing, and num stays 0.  So the loop is not entered, nothing
\* is written to the buffer, and the call returns KCI_SUCCESS with no bytes.
ReadDescriptor(bufl) ==
  /\ locator.flags /\ sbuff < MaxAsked /\ sbuff' = sbuff + 1
  /\ locator' = [locator EXCEPT !.got = Append(@, [room |-> bufl, piece |-> <<>>])]

KCILobRead(bufl) ==
  /\ ~locator.done
  /\ ReadInline(bufl) \/ ReadDescriptor(bufl)
  /\ UNCHANGED <<params, p_val, sent, into, mem, ind, alen, crashed>>

-----------------------------------------------------------------------------
Init ==
  /\ params = <<>> /\ p_val = NULLPtr /\ sent = <<>> /\ crashed = "no"
  /\ into = [dt |-> "CHR", siz |-> 1, path |-> "none"]
  /\ mem = <<>> /\ ind = <<>> /\ alen = <<>> /\ locator = NoLob /\ sbuff = 0

\* The bind calls, and the execution that sends what is bound.
Bind ==
  /\ params = <<>>
  /\ params' \in Statements
  /\ UNCHANGED <<p_val, sent, into, mem, ind, alen, locator, sbuff, crashed>>

Types == Copied \union {"STR", "NUM"} \union Scalars

Next ==
  \/ Bind \/ sendQryParams
  \/ \E dt \in Types, siz \in Sizes :
       \/ Define(dt, siz)
       \/ \E path \in {"strided", "plain"} : handleReturning(dt, siz, path)
  \/ FetchLob \/ \E bufl \in Chunks : KCILobRead(bufl)

Spec == Init /\ [][Next]_vars

-----------------------------------------------------------------------------
(* Properties.                                                             *)

\* Bytes a conversion to dt writes whatever the variable's size; 0: as many as fit.
Fixed(dt) ==
  CASE dt \in {"LNG", "NUM", "INTERVAL_DS"} -> 8
    [] dt \in {"INT", "FLT", "INTERVAL_YM"} -> 4
    [] OTHER -> 0

\* The array keeps its size; every row has an indicator and a length or none has, and no
\* length is more than the variable or a fixed width; a locator stands inside its object.
TypeOK ==
  /\ crashed \in {"no", "null pointer", "foreign block"}
  /\ Len(sent) <= Rows
  /\ \A i \in DOMAIN sent : sent[i].size \in {-1, Len(sent[i].data)}
  /\ into.path \in {"define", "strided", "plain"} => Len(mem) = Rows * into.siz + Guard
  /\ Len(ind) = Len(alen) /\ Len(ind) \in {0, Rows}
  /\ \A r \in DOMAIN ind :
       /\ ind[r] \in {Unset, -2, -1, 0}
       /\ alen[r] \in {Unset} \union 0 .. (IF Fixed(into.dt) > 0 THEN 8 ELSE into.siz)
  /\ locator.offset \in 0 .. Len(locator.dat) /\ sbuff \in 0 .. MaxAsked

Slot(r) == SubSeq(mem, (r - 1) * into.siz + 1, r * into.siz)

\* The texts of the powers of ten have one digit too few in front of the point.
PowerOfTen(k, d) == \E n \in 1 .. 5 : k = 10 ^ (n + d)

\* What the application should find in its variable when it fetches what it bound.
Expected(v) ==
  CASE v.null -> Zeros(into.siz)    \* of a type with no fixed width, or a number
    [] v.dt \in Copied -> Padded(Prefix(v.bytes, v.len), into.siz)
    [] v.dt = "STR" -> Padded(Prefix(v.bytes, StrLen(v.bytes)), into.siz)
    [] v.dt = "INT" /\ into.siz = 8 -> Padded(Prefix(v.bytes, 4), 8)
    [] OTHER -> v.bytes

Needed(v) == IF v.dt = "STR" THEN StrLen(v.bytes) + 1 ELSE v.len

Widened(v) ==
  /\ v.dt = "INT" /\ ~v.null /\ v.len <= 4
  /\ into.dt \in {"INT", "LNG"} /\ into.siz = Fixed(into.dt)

\* A row whose value is to come back as it was bound.
Comparable(v) ==
  /\ v.dt = into.dt /\ Needed(v) <= into.siz
  /\ v.dt \in Scalars \union {"NUM"} => into.siz = v.len
  /\ v.null => v.dt \notin Scalars
Underflows(v) == v.dt = "NUM" /\ ~v.null /\ PowerOfTen(Magnitude(v.bytes[1]), v.bytes[2])

\* Values bound, stored and fetched as the same type into variables of the same size come
\* back in every row of the array, also where a conversion writes more bytes than the
\* variable has, and an integer fetched into a wider one keeps its value and sign.  Integers
\* in 8 bytes fetched as SQLT_INT keep 4 of them, and a number that is a power of ten arrives
\* as zero.  A NULL arrives as zeros where text or a number is fetched; into an integer, a
\* float or an interval it may arrive as any value, but it leaves the rows beside it alone.
RoundTrip ==
  into.path = "define" =>
    \A r \in 1 .. Rows :
      LET v == params[r] IN
        /\ Widened(v) => Signed(Slot(r)) = Signed(v.bytes)
        /\ Comparable(v) =>
             IF Underflows(v) THEN Slot(r)[1] = 0 ELSE Slot(r) = Expected(v)

\* Each parameter is sent with its own bytes and none is freed by mistake, whatever p_val was
\* left at by the one before: the exceptions are types toKunData passes over, which use the
\* pointer as it is, and locators that point into a row.
OwnBytes ==
  LET strange(i) == ~params[i].null /\ (params[i].dt = "DATE" \/ (params[i].dt \in Lobs /\ ~params[i].tag))
  IN (\A i \in 1 .. Rows : ~strange(i)) =>
       /\ crashed = "no"
       /\ \A i \in DOMAIN sent :
            /\ params[i].null <=> sent[i].size = -1
            /\ params[i].dt \in Copied \union Lobs \union {"STR"} /\ ~params[i].null =>
                 sent[i].data = Prefix(params[i].bytes, sent[i].size)
            /\ params[i].dt \in Scalars /\ ~params[i].null =>
                 Reverse(sent[i].data) = Prefix(params[i].bytes, sent[i].size)

\* Texts and binary data never leave the array, nor their variable; a type of fixed width
\* leaves the array only by what the last variable is too small.
StaysInArray ==
  into.path \in {"define", "strided", "plain"} =>
    \A i \in Rows * into.siz + 1 .. Len(mem) :
      mem[i] # Fill => i <= Rows * into.siz + Fixed(into.dt) - into.siz

\* An application that gives indicators in a structure of arrays learns of every row whether
\* it was NULL or empty, cut, or whole, and how many bytes of it are in the variable.
CutTold ==
  into.path = "strided" /\ into.dt \in Copied \union {"STR"} =>
    \A r \in 1 .. Rows :
      LET whole == Len(Column(r))
          room == into.siz - (IF into.dt = "STR" THEN 1 ELSE 0)
          kept == IF whole <= room THEN whole ELSE room
      IN /\ ind[r] = IF whole = 0 THEN -1 ELSE IF whole > room THEN -2 ELSE 0
         /\ ind[r] # -1 => /\ Prefix(Slot(r), kept) = Prefix(Column(r), kept)
                          /\ alen[r] = kept + into.siz - room

\* The pieces KCILobRead hands out fit the buffers they were asked into, and are the object
\* from its beginning, in order; it reports the end of an object that came with the row, when
\* all of it was read, and never of one behind a descriptor, of which it hands out nothing.
Pieces == FlattenSeq([i \in DOMAIN locator.got |-> locator.got[i].piece])
LobComplete ==
  /\ \A i \in DOMAIN locator.got : Len(locator.got[i].piece) <= locator.got[i].room
  /\ Pieces = IF locator.flags THEN <<>> ELSE Prefix(locator.dat, locator.offset)
  /\ into.path = "locator" /\ locator.done => ~locator.flags /\ Pieces = locator.dat

\* Conversions stay in their array, whatever the type, the size and the value.
ArraysSound == TypeOK /\ StaysInArray

\* Nothing is lost unseen: a cut value is reported with its length, and the end of a large
\* object only when all of it was read.
NoSilentLoss == CutTold /\ LobComplete
=============================================================================
