-------------------------- MODULE StmtFetchProofs --------------------------
(***************************************************************************)
(* For every size of the table, of the batches and of the results: the     *)
(* table serves fetch, and fetch never falls behind its position.  For     *)
(* results smaller than the table: the rows come in order, intact, of the  *)
(* last execution, and KCIStmtFetch implements ResultSet.                  *)
(***************************************************************************)
EXTENDS StmtFetch, SequenceTheorems, FiniteSetTheorems, TLAPS

(* Where KCIStmtFetch looks for the n-th row cached. *)
Home(n) == (n - 1) % FetchSize
CellOf(n) == row_tab[Home(n)]

(* A call in progress belongs to a result with rows; a server that was     *)
(* asked had a cursor.                                                     *)
CallShape ==
  /\ executed => exec > 0 /\ prepared
  /\ want > 0 => executed /\ max_row_idx > 0
  /\ want > 0 /\ asked => cursor # NULL

(* The rows cached are the last execution's first, as many as were sent,   *)
(* then those of another execution whose cursor was left over.  Nothing    *)
(* was sent of executions to come.                                         *)
Counted ==
  /\ cursor <= exec /\ \A e \in Execs : e > exec => sent[e] = 0
  /\ executed => /\ sent[exec] <= curr_row_num
                 /\ cursor = exec => curr_row_num = sent[exec]

(* The newest rows sit where they are looked for.                          *)
Newest ==
  executed =>
    \A n \in 1 .. curr_row_num :
      n > curr_row_num - FetchSize =>
        IF n <= sent[exec] THEN CellOf(n).exec = exec /\ CellOf(n).row = n
                           ELSE CellOf(n) # NoRow /\ CellOf(n).exec # exec

(* A cursor of this preparation follows a first batch, which filled the    *)
(* table; any row received since the reset left one in slot 0.             *)
Filled ==
  /\ \A i \in Slots : row_tab[i] # NoRow => row_tab[i].exec > 0
  /\ cursor # NULL /\ ~dangling => \A i \in Slots : row_tab[i] # NoRow
  /\ max_row_idx > 0 => row_tab[0] # NoRow

TableInv ==
  /\ TypeOK /\ CallShape /\ Counted /\ Newest /\ Filled
  /\ NoEmptySlot /\ NeverBehindPosition

-----------------------------------------------------------------------------
(* Results smaller than the table, of columns that are defined before they *)
(* are fetched.                                                            *)
SmallResults == (\A n \in Totals : n < FetchSize) /\ ~Undefined

(* No cursor is ever handed out. *)
NoCursors == cursor = NULL /\ ~dangling /\ open = {} /\ ~asked

(* The whole result is cached, and the columns of a call are defined.      *)
AllCached ==
  /\ executed => /\ curr_row_num = total[exec] /\ sent[exec] = total[exec]
                 /\ total[exec] < FetchSize
                 /\ curr_row_num <= max_row_idx
  /\ want > 0 => defined

(* A row sits in the slot of its number. *)
CellsInOrder == \A i \in Slots : row_tab[i] # NoRow => row_tab[i].row = i + 1

(* The NEXTs among the first i rows handed out. *)
Nexts(s, i) == Cardinality({j \in 1 .. i : s[j].next})

(* The position counts the NEXTs that handed out a row.                    *)
PositionCounts ==
  /\ fetched # <<>> => executed
  /\ executed => Nexts(fetched, Len(fetched)) = Lesser(curr_fetch_num, curr_row_num)

SmallInv ==
  /\ NoCursors /\ AllCached /\ CellsInOrder /\ PositionNear /\ PositionCounts
  /\ RowsInOrder /\ NoStaleRow

(* Columns of eight bytes are read otherwise than written when a row       *)
(* structure is used again (see ValuesIntact); without them:               *)
NoEights == "eight" \notin Widths

(* a cell is read as it was written. *)
CellsIntact ==
  \A i \in Slots : row_tab[i] # NoRow => row_tab[i].exec <= exec /\ Intact(row_tab[i])

-----------------------------------------------------------------------------
(* Slots.  Two rows share one only if they are a table apart. *)

LEMMA SizeType == FetchSize \in Nat /\ FetchSize > 0 /\ LoginBatch \in Nat /\ FetchSize <= LoginBatch
BY BatchAssumption, TableAssumption

LEMMA RemainderIsASlot ==
  ASSUME NEW a \in Nat
  PROVE  a % FetchSize \in Slots
BY SizeType DEF Slots

LEMMA Quotient ==
  ASSUME NEW a \in Nat
  PROVE  a \div FetchSize \in Nat /\ a = FetchSize * (a \div FetchSize) + (a % FetchSize)
BY SizeType

LEMMA RemainderUnique ==
  ASSUME NEW q \in Nat, NEW r \in Slots
  PROVE  (FetchSize * q + r) % FetchSize = r
<1> DEFINE a == FetchSize * q + r
<1>1. r \in Nat /\ r < FetchSize /\ a \in Nat
  BY SizeType DEF Slots
<1> DEFINE p == a \div FetchSize
           s == a % FetchSize
<1>2. p \in Nat /\ s \in Nat /\ s < FetchSize /\ a = FetchSize * p + s
  BY <1>1, SizeType, Quotient, RemainderIsASlot DEF Slots
<1> HIDE DEF p, s
<1>3. CASE p = q
  BY <1>1, <1>2, <1>3, SizeType
<1>4. CASE p < q
  <2>1. PICK d \in Nat : q = p + d /\ d >= 1
    <3>1. q - p \in Nat /\ q = p + (q - p) /\ q - p >= 1
      BY <1>2, <1>4
    <3> QED
      BY <3>1
  <2>2. FetchSize * q = FetchSize * p + FetchSize * d
    BY <1>2, <2>1, SizeType
  <2>3. FetchSize * d >= FetchSize
    BY <2>1, SizeType
  <2> QED
    BY <1>1, <1>2, <2>2, <2>3, SizeType
<1>5. CASE p > q
  <2>1. PICK d \in Nat : p = q + d /\ d >= 1
    <3>1. p - q \in Nat /\ p = q + (p - q) /\ p - q >= 1
      BY <1>2, <1>5
    <3> QED
      BY <3>1
  <2>2. FetchSize * p = FetchSize * q + FetchSize * d
    BY <1>2, <2>1, SizeType
  <2>3. FetchSize * d >= FetchSize
    BY <2>1, SizeType
  <2> QED
    BY <1>1, <1>2, <2>2, <2>3, SizeType
<1> QED
  BY <1>2, <1>3, <1>4, <1>5 DEF s

LEMMA SmallRemainder ==
  ASSUME NEW a \in Slots
  PROVE  a % FetchSize = a
BY SizeType DEF Slots

(* Fewer than FetchSize rows apart: different slots. *)
LEMMA SlotsApart ==
  ASSUME NEW a \in Nat, NEW b \in Nat, a < b, b < a + FetchSize
  PROVE  a % FetchSize # b % FetchSize
<1> DEFINE p == a \div FetchSize
           q == b \div FetchSize
           r == a % FetchSize
<1> SUFFICES ASSUME b % FetchSize = r PROVE FALSE
  OBVIOUS
<1>1. /\ p \in Nat /\ q \in Nat /\ r \in Nat
      /\ a = FetchSize * p + r /\ b = FetchSize * q + r
  BY Quotient, RemainderIsASlot DEF Slots
<1> HIDE DEF p, q, r
<1>2. CASE q <= p
  <2>1. FetchSize * q <= FetchSize * p
    BY <1>1, <1>2, SizeType
  <2> QED
    BY <1>1, <2>1, SizeType
<1>3. CASE q > p
  <2>1. PICK d \in Nat : q = p + d /\ d >= 1
    <3>1. q - p \in Nat /\ q = p + (q - p) /\ q - p >= 1
      BY <1>1, <1>3
    <3> QED
      BY <3>1
  <2>2. FetchSize * q = FetchSize * p + FetchSize * d
    BY <1>1, <2>1, SizeType
  <2>3. FetchSize * d >= FetchSize
    BY <2>1, SizeType
  <2> QED
    BY <1>1, <2>2, <2>3, SizeType
<1> QED
  BY <1>1, <1>2, <1>3

(* The slot of any row is one of the newest FetchSize rows'. *)
LEMMA SlotOwner ==
  ASSUME NEW i \in Slots, NEW c \in Nat, i < c
  PROVE  \E n \in 1 .. c : c - FetchSize < n /\ Home(n) = i
<1>1. i \in Nat /\ c - 1 - i \in Nat /\ i < FetchSize
  BY SizeType DEF Slots
<1> DEFINE p == (c - 1 - i) \div FetchSize
           s == (c - 1 - i) % FetchSize
           n == c - s
<1>2. p \in Nat /\ s \in Nat /\ s < FetchSize /\ c - 1 - i = FetchSize * p + s
  BY <1>1, SizeType, Quotient, RemainderIsASlot DEF Slots
<1> HIDE DEF p, s
<1>3. FetchSize * p \in Nat
  BY <1>2, SizeType
<1>4. n - 1 = FetchSize * p + i /\ n \in 1 .. c /\ c - FetchSize < n
  BY <1>1, <1>2, <1>3, SizeType
<1>5. Home(n) = i
  BY <1>2, <1>4, RemainderUnique DEF Home
<1> HIDE DEF n
<1> QED
  BY <1>4, <1>5

(* Rows in the same slot are a multiple of the table's size apart. *)
LEMMA SameSlot ==
  ASSUME NEW a \in Nat, NEW b \in Nat, a <= b, a % FetchSize = b % FetchSize
  PROVE  (b - a) % FetchSize = 0
<1> DEFINE p == a \div FetchSize
           q == b \div FetchSize
           r == a % FetchSize
<1>1. /\ p \in Nat /\ q \in Nat /\ r \in Nat
      /\ a = FetchSize * p + r /\ b = FetchSize * q + r
  BY Quotient, RemainderIsASlot DEF Slots
<1> HIDE DEF p, q, r
<1>2. p <= q
  <2> SUFFICES ASSUME q < p PROVE FALSE
    BY <1>1
  <2>1. PICK d \in Nat : p = q + d /\ d >= 1
    <3>1. p - q \in Nat /\ p = q + (p - q) /\ p - q >= 1
      BY <1>1
    <3> QED
      BY <3>1
  <2>2. FetchSize * p = FetchSize * q + FetchSize * d
    BY <1>1, <2>1, SizeType
  <2>3. FetchSize * d >= FetchSize
    BY <2>1, SizeType
  <2> QED
    BY <1>1, <2>2, <2>3, SizeType
<1>3. PICK d \in Nat : q = p + d
  <2>1. q - p \in Nat /\ q = p + (q - p)
    BY <1>1, <1>2
  <2> QED
    BY <2>1
<1>4. FetchSize * q = FetchSize * p + FetchSize * d
  BY <1>1, <1>3, SizeType
<1>5. b - a = FetchSize * d + 0 /\ 0 \in Slots
  BY <1>1, <1>4, SizeType DEF Slots
<1> QED
  BY <1>5, RemainderUnique

(* The slot after a row's. *)
LEMMA SlotBefore ==
  ASSUME NEW n \in Nat, n % FetchSize # 0
  PROVE  n > 0 /\ (n - 1) % FetchSize = (n % FetchSize) - 1 /\ (n % FetchSize) - 1 < n
<1> DEFINE p == n \div FetchSize
           r == n % FetchSize
<1>1. p \in Nat /\ r \in Slots /\ r # 0 /\ n = FetchSize * p + r
  BY Quotient, RemainderIsASlot
<1> HIDE DEF p, r
<1>2. r \in Nat /\ r < FetchSize /\ r - 1 \in Slots /\ FetchSize * p \in Nat
  BY <1>1, SizeType DEF Slots
<1>3. n - 1 = FetchSize * p + (r - 1) /\ n > 0 /\ r - 1 < n
  BY <1>1, <1>2, SizeType
<1>4. (n - 1) % FetchSize = r - 1
  BY <1>1, <1>2, <1>3, RemainderUnique
<1> QED
  BY <1>3, <1>4 DEF r

-----------------------------------------------------------------------------
(* What recvRows leaves in the table. *)

LEMMA CellFacts ==
  ASSUME NEW e \in Execs, NEW n \in Nat, NEW w, NEW b \in BOOLEAN
  PROVE  /\ Cell(e, n, w, b) \in RowType
         /\ Cell(e, n, w, b).exec = e /\ Cell(e, n, w, b).row = n
         /\ Cell(e, n, w, b).inline = Inline(w, b)
         /\ Cell(e, n, w, b) # NoRow
<1>1. e > 0 /\ e \in 0 .. MaxExecs
  BY BoundsAssumption DEF Execs
<1>2. Inline(w, b) \in BOOLEAN
  BY DEF Inline
<1>3. Cell(e, n, w, b).exec = e /\ NoRow.exec = 0
  BY DEF Cell, NoRow
<1>4. Cell(e, n, w, b) # NoRow
  BY <1>1, <1>3
<1> QED
  BY <1>1, <1>2, <1>4 DEF Cell, RowType

(* A cell as recvRows writes it. *)
Written(x, e, n, w) == \E b \in BOOLEAN : x = Cell(e, n, w, b)
WrittenIn(i, x, c, k, first, e, w) ==
  \E r \in 0 .. k - 1 : Slot(c + r) = i /\ Written(x, e, first + r, w)

(* A row of the newest FetchSize keeps its place, or is the one received   *)
(* for it.                                                                 *)
LEMMA ReceivedCell ==
  ASSUME NEW c \in Nat, NEW k \in Nat, NEW first \in Nat, NEW e, NEW w,
         NEW n \in 1 .. c + k, c + k - FetchSize < n
  PROVE  /\ n <= c => Received(c, e, first, k, w)[Home(n)] = row_tab[Home(n)]
         /\ n > c => Written(Received(c, e, first, k, w)[Home(n)], e, first + (n - 1 - c), w)
<1> DEFINE i == Home(n)
           hits == {r \in 0 .. k - 1 : Slot(c + r) = i}
           last == CHOOSE r \in hits : \A q \in hits : q <= r
           cell == Received(c, e, first, k, w)[i]
           again == row_tab[i] # NoRow \/ Cardinality(hits) > 1
<1>1. n - 1 \in Nat /\ i \in Slots
  BY RemainderIsASlot DEF Home
<1>2. cell = IF hits = {} THEN row_tab[i] ELSE Cell(e, first + last, w, again)
  BY <1>1 DEF Received
<1>3. ASSUME NEW r \in 0 .. k - 1, c + r > n - 1 PROVE r \notin hits
  <2>1. c + r \in Nat /\ c + r < (n - 1) + FetchSize
    BY <1>1, SizeType
  <2>2. (n - 1) % FetchSize # (c + r) % FetchSize
    BY <1>1, <1>3, <2>1, SlotsApart
  <2> QED
    BY <2>2 DEF Slot, Home
<1> HIDE DEF cell
<1>4. CASE n <= c
  <2>1. \A r \in 0 .. k - 1 : c + r > n - 1
    BY <1>4
  <2>2. hits = {}
    BY <1>3, <2>1
  <2> HIDE DEF hits
  <2>3. cell = row_tab[i]
    BY <1>2, <2>2
  <2> QED
    BY <1>4, <2>3 DEF cell
<1>5. CASE n > c
  <2> DEFINE r == n - 1 - c
  <2>1. r \in 0 .. k - 1 /\ c + r = n - 1
    BY <1>5
  <2>2. r \in hits
    BY <2>1 DEF Slot, Home
  <2>3. \A q \in hits : q <= r
    <3> SUFFICES ASSUME NEW q \in hits PROVE q <= r
      OBVIOUS
    <3>1. q \in 0 .. k - 1
      OBVIOUS
    <3>2. ~(c + q > n - 1)
      BY <1>3, <3>1
    <3> QED
      BY <3>1, <3>2
  <2>4. \A q \in hits : q \in Int
    OBVIOUS
  <2>5. r \in Int
    OBVIOUS
  <2> HIDE DEF hits, r
  <2>6. last \in hits /\ \A q \in hits : q <= last
    BY <2>2, <2>3
  <2>7. last = r
    <3> HIDE DEF last
    <3> QED
      BY <2>2, <2>3, <2>4, <2>5, <2>6
  <2>8. cell = Cell(e, first + r, w, again) /\ again \in BOOLEAN
    BY <1>2, <2>2, <2>7
  <2>9. Written(cell, e, first + r, w)
    BY <2>8 DEF Written
  <2> QED
    BY <1>5, <2>9 DEF cell, r
<1> QED
  BY <1>4, <1>5

(* Any slot keeps its cell or holds one of the rows received. *)
LEMMA ReceivedSlot ==
  ASSUME NEW c \in Nat, NEW k \in Nat, NEW first \in Nat, NEW e, NEW w, NEW i \in Slots
  PROVE  \/ Received(c, e, first, k, w)[i] = row_tab[i]
         \/ WrittenIn(i, Received(c, e, first, k, w)[i], c, k, first, e, w)
<1> DEFINE cell == Received(c, e, first, k, w)[i]
           hits == {r \in 0 .. k - 1 : Slot(c + r) = i}
<1>1. i \in Nat
  BY SizeType DEF Slots
<1>2. CASE i < c + k
  <2>0. \E n \in 1 .. c + k : c + k - FetchSize < n /\ Home(n) = i
    <3>1. \A m \in Nat : i < m =>
             \E n \in 1 .. m : m - FetchSize < n /\ Home(n) = i
      BY SlotOwner
    <3>2. c + k \in Nat
      OBVIOUS
    <3> QED
      BY <1>2, <3>1, <3>2, SizeType
  <2>1. PICK n \in 1 .. c + k : c + k - FetchSize < n /\ Home(n) = i
    BY <2>0
  <2>2. /\ n <= c => cell = row_tab[i]
        /\ n > c => Written(cell, e, first + (n - 1 - c), w)
    BY <2>1, ReceivedCell
  <2>3. CASE n <= c
    BY <2>2, <2>3
  <2>4. CASE n > c
    <3>1. n - 1 - c \in 0 .. k - 1 /\ c + (n - 1 - c) = n - 1
      BY <2>4
    <3>2. Slot(c + (n - 1 - c)) = i
      BY <2>1, <3>1 DEF Slot, Home
    <3>3. Written(cell, e, first + (n - 1 - c), w)
      BY <2>2, <2>4
    <3> QED
      BY <3>1, <3>2, <3>3 DEF WrittenIn
  <2> QED
    BY <2>3, <2>4
<1>3. CASE i >= c + k
  <2>1. ASSUME NEW r \in 0 .. k - 1 PROVE Slot(c + r) # i
    <3>1. c + r \in Slots /\ c + r # i
      BY <1>1, <1>3, SizeType DEF Slots
    <3> QED
      BY <3>1, SmallRemainder DEF Slot
  <2>2. hits = {}
    BY <2>1
  <2>3. cell = IF hits = {} THEN row_tab[i]
               ELSE Cell(e, first + (CHOOSE r \in hits : \A q \in hits : q <= r), w,
                         row_tab[i] # NoRow \/ Cardinality(hits) > 1)
    BY DEF Received
  <2> HIDE DEF hits
  <2> QED
    BY <2>2, <2>3
<1> QED
  BY <1>1, <1>2, <1>3

LEMMA ReceivedType ==
  ASSUME CacheTypes, NEW c \in Nat, NEW k \in Nat, NEW first \in Nat, NEW e \in Execs, NEW w
  PROVE  Received(c, e, first, k, w) \in [Slots -> RowType]
<1>1. ASSUME NEW i \in Slots PROVE Received(c, e, first, k, w)[i] \in RowType
  <2>1. \/ Received(c, e, first, k, w)[i] = row_tab[i]
        \/ WrittenIn(i, Received(c, e, first, k, w)[i], c, k, first, e, w)
    BY ReceivedSlot
  <2>2. ASSUME NEW r \in 0 .. k - 1, NEW b \in BOOLEAN PROVE Cell(e, first + r, w, b) \in RowType
    <3>1. first + r \in Nat
      OBVIOUS
    <3> QED
      BY <3>1, CellFacts
  <2> QED
    BY <2>1, <2>2 DEF CacheTypes, WrittenIn, Written
<1> QED
  BY <1>1 DEF Received

(* The table after recvRows. *)
LEMMA RowsComeIn ==
  ASSUME CacheTypes, Filled,
         NEW c \in Nat, NEW k \in Nat, NEW first \in Nat, NEW e \in Execs, NEW w,
         RecvRows(c, e, first, k, w)
  PROVE  /\ row_tab' \in [Slots -> RowType]
         /\ curr_row_num' = c + k /\ max_row_idx' = max_row_idx + k
         /\ \A n \in 1 .. c + k : (c + k) - FetchSize < n =>
              /\ n <= c => CellOf(n)' = CellOf(n)
              /\ n > c => /\ CellOf(n)'.exec = e /\ CellOf(n)'.row = first + (n - 1 - c)
                          /\ CellOf(n)' # NoRow
         /\ \A i \in Slots : row_tab[i] # NoRow => row_tab'[i] # NoRow
         /\ \A i \in Slots : row_tab'[i] # NoRow => row_tab'[i].exec > 0
         /\ \A i \in Slots : c = 0 /\ i < k => row_tab'[i] # NoRow
<1>1. /\ row_tab' = Received(c, e, first, k, w)
      /\ curr_row_num' = c + k /\ max_row_idx' = max_row_idx + k
  BY DEF RecvRows
<1>2. row_tab' \in [Slots -> RowType]
  BY <1>1, ReceivedType
<1>3. \A n \in Nat, b \in BOOLEAN :
         /\ Cell(e, n, w, b).exec = e /\ Cell(e, n, w, b).row = n /\ e > 0
         /\ Cell(e, n, w, b) # NoRow
  BY CellFacts, BoundsAssumption DEF Execs
<1>4. ASSUME NEW n \in 1 .. c + k, (c + k) - FetchSize < n
      PROVE  /\ n <= c => CellOf(n)' = CellOf(n)
             /\ n > c => /\ CellOf(n)'.exec = e /\ CellOf(n)'.row = first + (n - 1 - c)
                         /\ CellOf(n)' # NoRow
  <2>1. c + k - FetchSize < n
    BY <1>4, SizeType
  <2>2. /\ n <= c => Received(c, e, first, k, w)[Home(n)] = row_tab[Home(n)]
        /\ n > c => Written(Received(c, e, first, k, w)[Home(n)], e, first + (n - 1 - c), w)
    BY <2>1, ReceivedCell
  <2>3. CellOf(n)' = Received(c, e, first, k, w)[Home(n)]
    BY <1>1 DEF CellOf, Home
  <2>4. CASE n <= c
    BY <2>2, <2>3, <2>4 DEF CellOf
  <2>5. CASE n > c
    <3>1. first + (n - 1 - c) \in Nat
      BY <2>5
    <3> QED
      BY <1>3, <2>2, <2>3, <2>5, <3>1 DEF Written
  <2> QED
    BY <2>4, <2>5
<1>5. ASSUME NEW i \in Slots
      PROVE  row_tab'[i] = row_tab[i] \/ (row_tab'[i] # NoRow /\ row_tab'[i].exec > 0)
  <2>1. \/ Received(c, e, first, k, w)[i] = row_tab[i]
        \/ WrittenIn(i, Received(c, e, first, k, w)[i], c, k, first, e, w)
    BY ReceivedSlot
  <2>2. \A r \in 0 .. k - 1 : first + r \in Nat
    OBVIOUS
  <2> QED
    BY <1>1, <1>3, <2>1, <2>2 DEF WrittenIn, Written
<1>6. ASSUME NEW i \in Slots, c = 0, i < k PROVE row_tab'[i] # NoRow
  <2>1. PICK n \in 1 .. k : k - FetchSize < n /\ Home(n) = i
    BY <1>6, SlotOwner
  <2>2. n \in 1 .. c + k /\ (c + k) - FetchSize < n /\ n > c
    BY <1>6, <2>1, SizeType
  <2>3. CellOf(n)' # NoRow
    BY <1>4, <2>2
  <2> QED
    BY <2>1, <2>3 DEF CellOf, Home
<1>7. \A i \in Slots : row_tab[i] # NoRow => row_tab[i].exec > 0
  BY DEF Filled
<1> QED
  BY <1>1, <1>2, <1>4, <1>5, <1>6, <1>7

-----------------------------------------------------------------------------
(* Where KCIStmtFetch looks. *)

LEMMA SlotOfFacts ==
  ASSUME NEW p \in Nat, orient \in {"NEXT", "CURRENT"}
  PROVE  /\ SlotOf(p) \in {-1} \union Slots
         /\ p % FetchSize = 0 => SlotOf(p) = IF orient = "CURRENT" THEN 0 ELSE -1
         /\ p % FetchSize # 0 => /\ SlotOf(p) = Home(p) /\ SlotOf(p) < p
                                 /\ SlotOf(p) \in Slots
<1>1. p % FetchSize \in Slots /\ 0 \in Slots
  BY RemainderIsASlot, SizeType DEF Slots
<1>2. CASE p % FetchSize = 0
  <2>1. SlotOf(p) = IF orient = "CURRENT" THEN 0 ELSE -1
    BY <1>2 DEF SlotOf
  <2> QED
    BY <1>1, <1>2, <2>1
<1>3. CASE p % FetchSize # 0
  <2>1. Home(p) = (p % FetchSize) - 1 /\ (p % FetchSize) - 1 < p
    BY <1>3, SlotBefore DEF Home
  <2>2. SlotOf(p) = (p % FetchSize) - 1
    BY <1>3 DEF SlotOf
  <2>3. (p % FetchSize) - 1 \in Slots
    BY <1>1, <1>3, SizeType DEF Slots
  <2> QED
    BY <1>3, <2>1, <2>2, <2>3
<1> QED
  BY <1>2, <1>3

(* Every slot a cached row went through holds a row. *)
LEMMA CachedSlots ==
  ASSUME TypeOK, CallShape, Counted, Newest, executed, NEW i \in Slots, i < curr_row_num
  PROVE  row_tab[i] # NoRow
<1>1. curr_row_num \in Nat /\ exec > 0 /\ NoRow.exec = 0
  BY DEF TypeOK, CacheTypes, CallShape, NoRow
<1>2. PICK n \in 1 .. curr_row_num : curr_row_num - FetchSize < n /\ Home(n) = i
  BY <1>1, SlotOwner
<1>3. CellOf(n) # NoRow
  BY <1>1, <1>2, SizeType DEF Newest
<1> QED
  BY <1>2, <1>3 DEF CellOf

(* A row of this execution in the slot of position p is p or a whole table *)
(* newer.                                                                  *)
LEMMA PositionServed ==
  ASSUME TypeOK, CallShape, Counted, Newest, executed,
         NEW p \in 1 .. curr_row_num, row_tab[Home(p)].exec = exec
  PROVE  /\ row_tab[Home(p)].row >= p
         /\ (row_tab[Home(p)].row - p) % FetchSize = 0
<1>1. curr_row_num \in Nat /\ exec \in Nat /\ exec > 0
  BY DEF TypeOK, CacheTypes, CallShape, ServerTypes
<1>2. p - 1 \in Nat /\ Home(p) \in Slots
  BY RemainderIsASlot DEF Home
<1>3. Home(p) < curr_row_num
  <2>1. p - 1 = FetchSize * ((p - 1) \div FetchSize) + Home(p) /\ (p - 1) \div FetchSize \in Nat
    BY <1>2, Quotient DEF Home
  <2> DEFINE q == (p - 1) \div FetchSize
  <2>2. p - 1 = FetchSize * q + Home(p) /\ q \in Nat
    BY <2>1
  <2> HIDE DEF q
  <2>3. FetchSize * q \in Nat /\ Home(p) \in Nat
    BY <1>2, <2>2, SizeType DEF Slots
  <2> QED
    BY <1>1, <2>2, <2>3
<1>4. PICK n \in 1 .. curr_row_num : curr_row_num - FetchSize < n /\ Home(n) = Home(p)
  BY <1>1, <1>2, <1>3, SlotOwner
<1>5. CellOf(n) = row_tab[Home(p)]
  BY <1>4 DEF CellOf
<1>6. CellOf(n).row = n
  BY <1>1, <1>4, <1>5, SizeType DEF Newest
<1>7. n >= p
  <2> SUFFICES ASSUME n < p PROVE FALSE
    BY <1>1
  <2>1. n - 1 \in Nat /\ n - 1 < p - 1 /\ p - 1 < (n - 1) + FetchSize
    BY <1>1, <1>4, SizeType
  <2>2. (n - 1) % FetchSize # (p - 1) % FetchSize
    BY <1>2, <2>1, SlotsApart
  <2> QED
    BY <1>4, <2>2 DEF Home
<1>8. (n - p) % FetchSize = 0
  <2>1. n - 1 \in Nat /\ p - 1 <= n - 1 /\ (p - 1) % FetchSize = (n - 1) % FetchSize
    BY <1>1, <1>4, <1>7 DEF Home
  <2>2. ((n - 1) - (p - 1)) % FetchSize = 0
    BY <1>2, <2>1, SameSlot
  <2>3. (n - 1) - (p - 1) = n - p
    OBVIOUS
  <2> HIDE DEF Home
  <2> QED
    BY <2>2, <2>3
<1> QED
  BY <1>5, <1>6, <1>7, <1>8

-----------------------------------------------------------------------------
(* The steps that leave the table alone. *)

LEMMA InitTableInv == Init => TableInv
<1> SUFFICES ASSUME Init PROVE TableInv
  OBVIOUS
<1>1. NoRow \in RowType /\ 0 \in 0 .. MaxExecs
  BY BoundsAssumption DEF NoRow, RowType
<1>2. StmtTypes
  BY DEF Init, StmtTypes
<1>3. ServerTypes
  <2>1. [e \in Execs |-> 0] \in [Execs -> Nat] /\ [e \in Execs |-> "short"] \in [Execs -> {"short", "eight", "long"}]
    OBVIOUS
  <2> QED
    BY <1>1, <2>1 DEF Init, ServerTypes
<1>4. CacheTypes
  BY <1>1 DEF Init, CacheTypes, EmptyTab
<1>5. CallTypes
  <2>1. <<>> \in Seq(FetchedType)
    BY EmptySeq
  <2> QED
    BY <2>1 DEF Init, CallTypes
<1>6. CallShape /\ Newest /\ NoEmptySlot
  BY DEF Init, CallShape, Newest, NoEmptySlot
<1>7. Counted
  BY DEF Init, Counted, NULL
<1>8. Filled
  BY DEF Init, Filled, EmptyTab, NULL
<1>9. NeverBehindPosition
  BY DEF Init, NeverBehindPosition
<1> QED
  BY <1>2, <1>3, <1>4, <1>5, <1>6, <1>7, <1>8, <1>9 DEF TableInv, TypeOK

LEMMA TableKept ==
  ASSUME TableInv,
         UNCHANGED <<exec, sent, row_tab, curr_row_num, max_row_idx>>,
         executed' => executed,
         cursor' = cursor \/ cursor' = NULL,
         cursor' # NULL /\ ~dangling' => cursor # NULL /\ ~dangling
  PROVE  Counted' /\ Newest' /\ Filled'
<1>1. exec \in Nat /\ cursor \in Nat /\ Counted /\ Newest /\ Filled /\ (executed => exec > 0)
  BY BoundsAssumption DEF TableInv, TypeOK, ServerTypes, CallTypes, NULL, Execs, CallShape
<1>2. Counted'
  BY <1>1 DEF Counted, NULL
<1>3. Newest'
  BY <1>1 DEF Newest, CellOf, Home
<1>4. Filled'
  BY <1>1 DEF Filled
<1> QED
  BY <1>2, <1>3, <1>4

LEMMA FetchedKept ==
  ASSUME TableInv, (fetched' = fetched /\ exec' = exec) \/ fetched' = <<>>
  PROVE  NeverBehindPosition'
BY DEF TableInv, NeverBehindPosition

LEMMA PrepareStep ==
  ASSUME TableInv, Prepare
  PROVE  TableInv'
<1>1. /\ Idle /\ prepared' = TRUE /\ executed' = FALSE /\ defined' = FALSE
      /\ row_tab' = EmptyTab /\ curr_row_num' = 0 /\ max_row_idx' = 0
      /\ dangling' = (cursor # NULL) /\ fetched' = <<>> /\ ended' = FALSE
      /\ UNCHANGED <<exec, total, width, sent, open, curr_fetch_num, cursor, want, orient,
                     asked, crashed>>
  BY DEF Prepare, resetStmt, IndexOnReset, server, call
<1>2. want = 0 /\ crashed = "no"
  BY <1>1 DEF Idle
<1>3. StmtTypes /\ ServerTypes /\ CacheTypes /\ CallTypes /\ Counted
  BY DEF TableInv, TypeOK
<1>4. StmtTypes' /\ ServerTypes'
  BY <1>1, <1>3 DEF StmtTypes, ServerTypes
<1>5. CacheTypes'
  <2>1. EmptyTab \in [Slots -> RowType]
    BY BoundsAssumption DEF EmptyTab, NoRow, RowType
  <2> QED
    BY <1>1, <1>3, <2>1 DEF CacheTypes
<1>6. CallTypes'
  <2>1. <<>> \in Seq(FetchedType)
    BY EmptySeq
  <2> QED
    BY <1>1, <1>3, <2>1 DEF CallTypes
<1>7. CallShape' /\ Newest' /\ NoEmptySlot' /\ NeverBehindPosition'
  BY <1>1, <1>2, FetchedKept DEF CallShape, Newest, NoEmptySlot
<1>8. Counted'
  BY <1>1, <1>3 DEF Counted
<1>9. Filled'
  BY <1>1, SizeType DEF Filled, EmptyTab, Slots
<1> QED
  BY <1>4, <1>5, <1>6, <1>7, <1>8, <1>9 DEF TableInv, TypeOK

LEMMA RefusedStep ==
  ASSUME TableInv, ExecuteRefused
  PROVE  TableInv'
<1>1. /\ Idle /\ prepared /\ executed' = FALSE /\ fetched' = <<>> /\ ended' = FALSE
      /\ UNCHANGED <<prepared, defined, exec, total, width, sent, open, row_tab, curr_row_num,
                     max_row_idx, curr_fetch_num, cursor, dangling, want, orient, asked, crashed>>
  BY DEF ExecuteRefused, server, cache, curs, call
<1>2. want = 0 /\ crashed = "no"
  BY <1>1 DEF Idle
<1>3. StmtTypes /\ ServerTypes /\ CacheTypes /\ CallTypes
  BY DEF TableInv, TypeOK
<1>4. StmtTypes' /\ ServerTypes' /\ CacheTypes'
  BY <1>1, <1>3 DEF StmtTypes, ServerTypes, CacheTypes
<1>5. CallTypes'
  <2>1. <<>> \in Seq(FetchedType)
    BY EmptySeq
  <2> QED
    BY <1>1, <1>3, <2>1 DEF CallTypes
<1>6. CallShape' /\ NoEmptySlot' /\ NeverBehindPosition'
  BY <1>1, <1>2, FetchedKept DEF CallShape, NoEmptySlot
<1>7. Counted' /\ Newest' /\ Filled'
  BY <1>1, TableKept
<1> QED
  BY <1>4, <1>5, <1>6, <1>7 DEF TableInv, TypeOK

LEMMA DefineStep ==
  ASSUME TableInv, Define
  PROVE  TableInv'
<1>1. /\ Idle /\ defined' = TRUE
      /\ UNCHANGED <<prepared, executed, exec, total, width, sent, open, row_tab, curr_row_num,
                     max_row_idx, curr_fetch_num, cursor, dangling, want, orient, asked, crashed,
                     fetched, ended>>
  BY DEF Define, server, cache, curs, call
<1>2. want = 0 /\ crashed = "no"
  BY <1>1 DEF Idle
<1>3. StmtTypes /\ ServerTypes /\ CacheTypes /\ CallTypes /\ CallShape
  BY DEF TableInv, TypeOK
<1>4. StmtTypes' /\ ServerTypes' /\ CacheTypes' /\ CallTypes'
  BY <1>1, <1>3, ZenonT(60) DEF StmtTypes, ServerTypes, CacheTypes, CallTypes
<1>5. CallShape' /\ NoEmptySlot' /\ NeverBehindPosition'
  BY <1>1, <1>2, <1>3, FetchedKept DEF CallShape, NoEmptySlot
<1>6. Counted' /\ Newest' /\ Filled'
  BY <1>1, TableKept
<1> QED
  BY <1>4, <1>5, <1>6 DEF TableInv, TypeOK

(* The start of a fetch, and the turns of its loop that bring no row. *)
LEMMA CallStep ==
  ASSUME TableInv,
         \/ \E nrows \in NRows, o \in Orients : Fetch(nrows, o)
         \/ NoCursor \/ CursorRefused \/ FreedCursor \/ FetchBreaks \/ NextBehindLast
  PROVE  TableInv'
<1>1. /\ UNCHANGED <<prepared, executed, defined, exec, total, width, sent, open, row_tab,
                     curr_row_num, max_row_idx, fetched>>
      /\ \/ cursor' = cursor /\ dangling' = dangling
         \/ cursor' = NULL /\ dangling' = FALSE
  BY DEF Fetch, NoCursor, CursorRefused, FreedCursor, FetchBreaks, NextBehindLast,
     stmt, server, cache, curs, call
<1>2. StmtTypes /\ ServerTypes /\ CacheTypes /\ CallTypes /\ CallShape /\ NoEmptySlot
  BY DEF TableInv, TypeOK
<1>3. ServerTypes'
  BY <1>1, <1>2 DEF ServerTypes
<1>4. StmtTypes'
  BY <1>1, <1>2 DEF StmtTypes, Fetch, NoCursor, CursorRefused, FreedCursor, FetchBreaks,
     NextBehindLast, NoData
<1>5. CacheTypes'
  <2>1. curr_fetch_num' = curr_fetch_num \/ curr_fetch_num' = curr_fetch_num + 1
    BY DEF Fetch, NoCursor, CursorRefused, FreedCursor, FetchBreaks, NextBehindLast
  <2>2. curr_fetch_num' \in Nat
    BY <1>2, <2>1 DEF CacheTypes
  <2> QED
    BY <1>1, <1>2, <2>2 DEF CacheTypes
<1>6. CallTypes'
  <2>1. cursor' \in {NULL} \union Execs /\ dangling' \in BOOLEAN
    BY <1>1, <1>2 DEF CallTypes
  <2>2. want' \in Nat /\ orient' \in {"NEXT", "CURRENT"} /\ asked' \in BOOLEAN
    <3>1. CASE \E nrows \in NRows, o \in Orients : Fetch(nrows, o)
      BY <1>2, <3>1, ArgsAssumption DEF CallTypes, Fetch, call
    <3>2. CASE NoCursor \/ CursorRefused \/ NextBehindLast
      BY <1>2, <3>2 DEF CallTypes, NoCursor, CursorRefused, NextBehindLast, NoData
    <3>3. CASE FreedCursor \/ FetchBreaks
      BY <1>2, <3>3 DEF CallTypes, FreedCursor, FetchBreaks, call
    <3> QED
      BY <3>1, <3>2, <3>3
  <2> QED
    BY <1>1, <1>2, <2>1, <2>2 DEF CallTypes
<1>7. max_row_idx \in Nat
  BY <1>2 DEF CacheTypes
<1>8. CallShape'
  <2>1. CASE \E nrows \in NRows, o \in Orients : Fetch(nrows, o)
    BY <1>1, <1>2, <1>7, <2>1 DEF CallShape, Fetch, Idle, call
  <2>2. CASE NoCursor \/ CursorRefused \/ NextBehindLast
    BY <1>1, <1>2, <2>2 DEF CallShape, NoCursor, CursorRefused, NextBehindLast, NoData
  <2>3. CASE FreedCursor \/ FetchBreaks
    BY <1>1, <1>2, <2>3 DEF CallShape, FreedCursor, FetchBreaks, call, curs
  <2> QED
    BY <2>1, <2>2, <2>3
<1>9. NoEmptySlot'
  BY DEF NoEmptySlot, Fetch, NoCursor, CursorRefused, FreedCursor, FetchBreaks, NextBehindLast,
     Idle, Fetching
<1>10. Counted' /\ Newest' /\ Filled'
  BY <1>1, TableKept
<1>11. NeverBehindPosition'
  BY <1>1, FetchedKept
<1> QED
  BY <1>3, <1>4, <1>5, <1>6, <1>8, <1>9, <1>10, <1>11 DEF TableInv, TypeOK

-----------------------------------------------------------------------------
(* The steps that bring rows, and the one that hands a row out. *)

LEMMA LesserFacts ==
  ASSUME NEW a \in Nat, NEW b \in Nat
  PROVE  Lesser(a, b) \in Nat /\ Lesser(a, b) <= a /\ Lesser(a, b) <= b
BY DEF Lesser

(* The first batch of a result is behind no rows. *)
LEMMA FirstBatch ==
  ASSUME TableInv, NEW k \in Nat, NEW w, exec + 1 \in Execs,
         RecvRows(CountAtStart, exec + 1, 1, k, w)
  PROVE  /\ row_tab' \in [Slots -> RowType] /\ curr_row_num' = k
         /\ max_row_idx' = max_row_idx + k
         /\ \A n \in 1 .. k : k - FetchSize < n =>
              CellOf(n)'.exec = exec + 1 /\ CellOf(n)'.row = n
         /\ \A i \in Slots : row_tab[i] # NoRow => row_tab'[i] # NoRow
         /\ \A i \in Slots : row_tab'[i] # NoRow => row_tab'[i].exec > 0
         /\ \A i \in Slots : i < k => row_tab'[i] # NoRow
         /\ max_row_idx' > 0 => row_tab'[0] # NoRow
<1>1. CacheTypes /\ Filled /\ max_row_idx \in Nat
  BY DEF TableInv, TypeOK, CacheTypes
<1>2. RecvRows(0, exec + 1, 1, k, w) /\ 0 \in Nat /\ 1 \in Nat
  BY DEF CountAtStart
<1>3. /\ row_tab' \in [Slots -> RowType]
      /\ curr_row_num' = 0 + k /\ max_row_idx' = max_row_idx + k
      /\ \A n \in 1 .. 0 + k : (0 + k) - FetchSize < n =>
           /\ n <= 0 => CellOf(n)' = CellOf(n)
           /\ n > 0 => /\ CellOf(n)'.exec = exec + 1 /\ CellOf(n)'.row = 1 + (n - 1 - 0)
                       /\ CellOf(n)' # NoRow
      /\ \A i \in Slots : row_tab[i] # NoRow => row_tab'[i] # NoRow
      /\ \A i \in Slots : row_tab'[i] # NoRow => row_tab'[i].exec > 0
      /\ \A i \in Slots : 0 = 0 /\ i < k => row_tab'[i] # NoRow
  BY <1>1, <1>2, RowsComeIn
<1>4. \A n \in 1 .. k : k - FetchSize < n => CellOf(n)'.exec = exec + 1 /\ CellOf(n)'.row = n
  BY <1>3, SizeType
<1>5. 0 \in Slots
  BY SizeType DEF Slots
<1>6. max_row_idx' > 0 => row_tab'[0] # NoRow
  BY <1>1, <1>3, <1>5 DEF Filled
<1> QED
  BY <1>3, <1>4, <1>6

LEMMA ExecuteStep ==
  ASSUME TableInv, NEW n \in Totals, NEW w \in Widths, NEW iters \in Iters, Execute(n, w, iters)
  PROVE  TableInv'
<1> DEFINE e == exec + 1
           k == Lesser(n, LoginBatch)
<1>1. /\ StmtTypes /\ ServerTypes /\ CacheTypes /\ CallTypes /\ CallShape /\ Counted /\ Filled
      /\ n \in Nat /\ w \in {"short", "eight", "long"} /\ iters \in Nat /\ MaxExecs \in Nat
      /\ exec \in Nat
  BY BatchAssumption, ArgsAssumption, BoundsAssumption DEF TableInv, TypeOK, ServerTypes
<1>2. /\ Idle /\ prepared /\ exec < MaxExecs
      /\ exec' = e /\ total' = [total EXCEPT ![e] = n] /\ width' = [width EXCEPT ![e] = w]
      /\ sent' = [sent EXCEPT ![e] = k]
      /\ RecvRows(CountAtStart, e, 1, k, w)
      /\ IF k < n THEN cursor' = e /\ dangling' = FALSE /\ open' = open \union {e}
                  ELSE UNCHANGED <<cursor, dangling, open>>
      /\ curr_fetch_num' = 0 /\ executed' = TRUE /\ fetched' = <<>> /\ ended' = FALSE
      /\ want' = (IF defined /\ max_row_idx' >= 1 THEN iters ELSE 0)
      /\ orient' = "CURRENT" /\ asked' = FALSE
      /\ UNCHANGED <<prepared, defined, crashed>>
  BY DEF Execute
<1>3. e \in Execs /\ e > 0 /\ e \in 0 .. MaxExecs
  BY <1>1, <1>2 DEF Execs
<1>4. k \in Nat /\ k <= n /\ (k < n => k = LoginBatch)
  BY <1>1, SizeType DEF Lesser
<1> HIDE DEF k
<1>5. /\ row_tab' \in [Slots -> RowType] /\ curr_row_num' = k
      /\ max_row_idx' = max_row_idx + k
      /\ \A j \in 1 .. k : k - FetchSize < j => CellOf(j)'.exec = e /\ CellOf(j)'.row = j
      /\ \A i \in Slots : row_tab[i] # NoRow => row_tab'[i] # NoRow
      /\ \A i \in Slots : row_tab'[i] # NoRow => row_tab'[i].exec > 0
      /\ \A i \in Slots : i < k => row_tab'[i] # NoRow
      /\ max_row_idx' > 0 => row_tab'[0] # NoRow
  BY <1>2, <1>3, <1>4, FirstBatch
<1> HIDE DEF e
<1>6. exec' = e /\ sent'[e] = k /\ (\A x \in Execs : x # e => sent'[x] = sent[x])
  BY <1>1, <1>2, <1>3 DEF ServerTypes
<1>7. StmtTypes'
  BY <1>1, <1>2 DEF StmtTypes
<1>8. ServerTypes'
  <2>1. total' \in [Execs -> Nat] /\ width' \in [Execs -> {"short", "eight", "long"}]
        /\ sent' \in [Execs -> Nat]
    BY <1>1, <1>2, <1>3, <1>4 DEF ServerTypes
  <2>2. \A x \in Execs : sent'[x] <= total'[x]
    BY <1>1, <1>2, <1>3, <1>4 DEF ServerTypes
  <2>3. open' \subseteq Execs
    BY <1>1, <1>2, <1>3 DEF ServerTypes
  <2> QED
    BY <1>2, <1>3, <2>1, <2>2, <2>3 DEF ServerTypes
<1>9. CacheTypes'
  <2>1. max_row_idx' \in Nat
    BY <1>1, <1>4, <1>5 DEF CacheTypes
  <2> QED
    BY <1>2, <1>4, <1>5, <2>1 DEF CacheTypes
<1>10. CallTypes'
  <2>1. <<>> \in Seq(FetchedType)
    BY EmptySeq
  <2>2. cursor' \in {NULL} \union Execs /\ dangling' \in BOOLEAN /\ want' \in Nat
    BY <1>1, <1>2, <1>3 DEF CallTypes
  <2> QED
    BY <1>2, <2>1, <2>2 DEF CallTypes
<1>11. CallShape'
  <2>1. max_row_idx' \in Nat
    BY <1>9 DEF CacheTypes
  <2> QED
    BY <1>1, <1>2, <1>3, <2>1 DEF CallShape
<1>12. Counted'
  <2>1. cursor <= exec /\ cursor \in Nat /\ e = exec + 1
    BY <1>1 DEF Counted, CallTypes, NULL, Execs, e
  <2>2. cursor' <= e
    BY <1>1, <1>2, <2>1
  <2>3. \A x \in Execs : x > e => sent'[x] = 0
    BY <1>1, <1>6, <2>1 DEF Counted, Execs
  <2> QED
    BY <1>4, <1>5, <1>6, <2>2, <2>3 DEF Counted
<1>13. Newest'
  <2>1. \A j \in 1 .. k : k - FetchSize < j => CellOf(j)'.exec = e /\ CellOf(j)'.row = j
    BY <1>5
  <2> HIDE DEF CellOf
  <2> QED
    BY <1>4, <1>5, <1>6, <2>1, SizeType DEF Newest
<1>14. Filled'
  <2>1. CASE k < n
    <3>1. \A i \in Slots : i < k
      BY <1>4, <2>1, SizeType DEF Slots
    <3> QED
      BY <1>5, <3>1 DEF Filled
  <2>2. CASE ~(k < n)
    BY <1>1, <1>2, <1>5, <2>2 DEF Filled
  <2> QED
    BY <2>1, <2>2
<1>15. NoEmptySlot' /\ NeverBehindPosition'
  BY <1>2, FetchedKept DEF NoEmptySlot, Idle
<1> QED
  BY <1>7, <1>8, <1>9, <1>10, <1>11, <1>12, <1>13, <1>14, <1>15 DEF TableInv, TypeOK

LEMMA BreaksStep ==
  ASSUME TableInv, NEW n \in Totals, NEW w \in Widths, NEW k \in 0 .. Lesser(n, LoginBatch),
         ExecuteBreaks(n, w, k)
  PROVE  TableInv'
<1> DEFINE e == exec + 1
<1>1. /\ StmtTypes /\ ServerTypes /\ CacheTypes /\ CallTypes /\ CallShape /\ Counted /\ Filled
      /\ n \in Nat /\ w \in {"short", "eight", "long"} /\ MaxExecs \in Nat /\ exec \in Nat
      /\ k \in Nat
  BY BatchAssumption, ArgsAssumption, BoundsAssumption DEF TableInv, TypeOK, ServerTypes
<1>2. /\ Idle /\ exec < MaxExecs
      /\ RecvRows(CountAtStart, e, 1, k, w)
      /\ exec' = e /\ total' = [total EXCEPT ![e] = n] /\ width' = [width EXCEPT ![e] = w]
      /\ open' = {} /\ curr_fetch_num' = 0
      /\ prepared' = FALSE /\ executed' = FALSE /\ dangling' = (cursor # NULL)
      /\ fetched' = <<>> /\ ended' = FALSE
      /\ UNCHANGED <<defined, sent, cursor, want, orient, asked, crashed>>
  BY DEF ExecuteBreaks, call
<1>3. e \in Execs /\ e \in 0 .. MaxExecs
  BY <1>1, <1>2 DEF Execs
<1>4. /\ row_tab' \in [Slots -> RowType] /\ curr_row_num' = k
      /\ max_row_idx' = max_row_idx + k
      /\ \A i \in Slots : row_tab'[i] # NoRow => row_tab'[i].exec > 0
      /\ max_row_idx' > 0 => row_tab'[0] # NoRow
  BY <1>1, <1>2, <1>3, FirstBatch
<1>5. cursor <= exec /\ cursor \in Nat /\ sent[e] = 0
  BY <1>1, <1>3 DEF Counted, CallTypes, NULL, Execs
<1>6. StmtTypes'
  BY <1>1, <1>2 DEF StmtTypes
<1>7. ServerTypes'
  <2>1. total' \in [Execs -> Nat] /\ width' \in [Execs -> {"short", "eight", "long"}]
    BY <1>1, <1>2, <1>3 DEF ServerTypes
  <2>2. \A x \in Execs : sent[x] <= total'[x]
    BY <1>1, <1>2, <1>3, <1>5 DEF ServerTypes
  <2> QED
    BY <1>1, <1>2, <1>3, <2>1, <2>2 DEF ServerTypes
<1>8. CacheTypes'
  BY <1>1, <1>2, <1>4 DEF CacheTypes
<1>9. CallTypes'
  <2>1. <<>> \in Seq(FetchedType)
    BY EmptySeq
  <2> QED
    BY <1>1, <1>2, <2>1 DEF CallTypes
<1>10. CallShape' /\ Newest' /\ NoEmptySlot' /\ NeverBehindPosition'
  BY <1>2, FetchedKept DEF CallShape, Newest, NoEmptySlot, Idle
<1>11. Counted'
  <2>1. \A x \in Execs : x > e => sent'[x] = 0
    BY <1>1, <1>2 DEF Counted, Execs
  <2>2. cursor' <= e
    BY <1>1, <1>2, <1>5
  <2> QED
    BY <1>2, <2>1, <2>2 DEF Counted
<1>12. Filled'
  BY <1>2, <1>4 DEF Filled
<1> QED
  BY <1>6, <1>7, <1>8, <1>9, <1>10, <1>11, <1>12 DEF TableInv, TypeOK

LEMMA FetchRowsStep ==
  ASSUME TableInv, FetchRows
  PROVE  TableInv'
<1> DEFINE k == Lesser(FetchSize, total[cursor] - sent[cursor])
<1>1. /\ StmtTypes /\ ServerTypes /\ CacheTypes /\ CallTypes /\ CallShape /\ Counted /\ Filled
      /\ Newest
  BY DEF TableInv, TypeOK
<1>2. /\ want > 0 /\ crashed = "no" /\ cursor # NULL /\ cursor \in open
      /\ RecvRows(curr_row_num, cursor, sent[cursor] + 1, k, width[cursor])
      /\ sent' = [sent EXCEPT ![cursor] = sent[cursor] + k]
      /\ open' \subseteq open
      /\ \/ want' = 0 /\ ended' = TRUE /\ asked' = asked
         \/ asked' = TRUE /\ want' = want /\ ended' = ended
      /\ UNCHANGED <<prepared, executed, defined, exec, total, width, curr_fetch_num, cursor,
                     dangling, orient, fetched, crashed>>
  <2>1. open' \subseteq open
    BY DEF FetchRows
  <2>2. \/ want' = 0 /\ ended' = TRUE /\ asked' = asked
        \/ asked' = TRUE /\ want' = want /\ ended' = ended
    BY DEF FetchRows, NoData
  <2> QED
    BY <2>1, <2>2 DEF FetchRows, Fetching, stmt, curs
<1>3. /\ cursor \in Execs /\ cursor > 0 /\ cursor <= exec /\ executed /\ max_row_idx > 0
      /\ exec \in Nat /\ exec > 0 /\ exec \in Execs /\ curr_row_num \in Nat
      /\ sent[cursor] \in Nat /\ total[cursor] \in Nat /\ sent[cursor] <= total[cursor]
      /\ sent[exec] \in Nat /\ max_row_idx \in Nat
  BY <1>1, <1>2, BoundsAssumption
     DEF CallTypes, NULL, Execs, Counted, CallShape, ServerTypes, CacheTypes
<1>4. k \in Nat /\ k <= total[cursor] - sent[cursor]
  BY <1>3, SizeType DEF Lesser
<1> HIDE DEF k
<1> DEFINE c == curr_row_num
           first == sent[cursor] + 1
<1>5. first \in Nat
  BY <1>3
<1>6. /\ row_tab' \in [Slots -> RowType]
      /\ curr_row_num' = c + k /\ max_row_idx' = max_row_idx + k
      /\ \A n \in 1 .. c + k : (c + k) - FetchSize < n =>
           /\ n <= c => CellOf(n)' = CellOf(n)
           /\ n > c => /\ CellOf(n)'.exec = cursor /\ CellOf(n)'.row = first + (n - 1 - c)
                       /\ CellOf(n)' # NoRow
      /\ \A i \in Slots : row_tab[i] # NoRow => row_tab'[i] # NoRow
      /\ \A i \in Slots : row_tab'[i] # NoRow => row_tab'[i].exec > 0
  BY <1>1, <1>2, <1>3, <1>4, <1>5, RowsComeIn, ZenonT(60)
<1>7. /\ sent'[cursor] = sent[cursor] + k
      /\ \A x \in Execs : x # cursor => sent'[x] = sent[x]
  BY <1>1, <1>2, <1>3 DEF ServerTypes
<1>8. StmtTypes'
  BY <1>1, <1>2 DEF StmtTypes
<1>9. ServerTypes'
  <2>1. sent' \in [Execs -> Nat]
    BY <1>1, <1>2, <1>3, <1>4 DEF ServerTypes
  <2>2. \A x \in Execs : sent'[x] <= total[x]
    BY <1>1, <1>3, <1>4, <1>7 DEF ServerTypes
  <2> QED
    BY <1>1, <1>2, <2>1, <2>2 DEF ServerTypes
<1>10. CacheTypes'
  <2>1. curr_row_num' \in Nat /\ max_row_idx' \in Nat
    BY <1>3, <1>4, <1>6
  <2> QED
    BY <1>1, <1>2, <1>6, <2>1 DEF CacheTypes
<1>11. CallTypes'
  <2>1. want' \in Nat
    BY <1>1, <1>2 DEF CallTypes
  <2>2. asked' \in BOOLEAN
    BY <1>1, <1>2 DEF CallTypes
  <2> QED
    BY <1>1, <1>2, <2>1, <2>2 DEF CallTypes
<1>12. CallShape'
  BY <1>1, <1>2, <1>3, <1>4, <1>6 DEF CallShape
<1>13. Counted'
  <2>1. \A x \in Execs : x > exec => sent'[x] = 0
    BY <1>1, <1>3, <1>7 DEF Counted, Execs
  <2>2. sent'[exec] <= curr_row_num' /\ (cursor = exec => curr_row_num' = sent'[exec])
    BY <1>1, <1>3, <1>4, <1>6, <1>7 DEF Counted
  <2> QED
    BY <1>2, <1>3, <2>1, <2>2 DEF Counted
<1>14. Newest'
  <2> SUFFICES ASSUME NEW n \in 1 .. c + k, n > (c + k) - FetchSize
               PROVE  IF n <= sent'[exec]
                      THEN CellOf(n)'.exec = exec /\ CellOf(n)'.row = n
                      ELSE CellOf(n)' # NoRow /\ CellOf(n)'.exec # exec
    BY <1>2, <1>6 DEF Newest
  <2>1. (c + k) - FetchSize < n /\ n \in Nat
    BY <1>3, <1>4, SizeType
  <2>2. CASE n <= c
    <3>1. n \in 1 .. c /\ n > c - FetchSize
      BY <1>3, <1>4, <2>1, <2>2, SizeType
    <3>2. IF n <= sent[exec] THEN CellOf(n).exec = exec /\ CellOf(n).row = n
                             ELSE CellOf(n) # NoRow /\ CellOf(n).exec # exec
      BY <1>1, <1>3, <3>1 DEF Newest
    <3>3. CellOf(n)' = CellOf(n)
      BY <1>6, <2>1, <2>2
    <3>4. n <= sent'[exec] <=> n <= sent[exec]
      <4>1. CASE cursor = exec
        <5>1. n <= sent[exec] /\ n <= sent'[exec]
          BY <1>1, <1>3, <1>4, <1>7, <2>1, <2>2, <4>1 DEF Counted
        <5> QED
          BY <5>1
      <4>2. CASE cursor # exec
        BY <1>3, <1>7, <4>2
      <4> QED
        BY <4>1, <4>2
    <3> QED
      BY <3>2, <3>3, <3>4
  <2>3. CASE n > c
    <3>1. /\ CellOf(n)'.exec = cursor /\ CellOf(n)'.row = first + (n - 1 - c)
          /\ CellOf(n)' # NoRow
      BY <1>6, <2>1, <2>3
    <3>2. CASE cursor = exec
      <4>1. c = sent[exec] /\ sent'[exec] = c + k
        BY <1>1, <1>3, <1>7, <3>2 DEF Counted
      <4>2. first + (n - 1 - c) = n /\ n <= sent'[exec]
        BY <1>3, <1>4, <2>1, <3>2, <4>1
      <4> QED
        BY <3>1, <3>2, <4>2
    <3>3. CASE cursor # exec
      <4>1. ~(n <= sent'[exec])
        BY <1>1, <1>3, <1>7, <2>1, <2>3, <3>3 DEF Counted
      <4> QED
        BY <3>1, <3>3, <4>1
    <3> QED
      BY <3>2, <3>3
  <2> QED
    BY <1>3, <2>1, <2>2, <2>3
<1>15. Filled'
  <2>1. 0 \in Slots /\ row_tab[0] # NoRow
    BY <1>1, <1>3, SizeType DEF Filled, Slots
  <2> QED
    BY <1>1, <1>2, <1>6, <2>1 DEF Filled
<1>16. NoEmptySlot' /\ NeverBehindPosition'
  BY <1>2, FetchedKept DEF NoEmptySlot
<1> QED
  BY <1>8, <1>9, <1>10, <1>11, <1>12, <1>13, <1>14, <1>15, <1>16 DEF TableInv, TypeOK

(* What TakeRow does: a row is handed out, none was wanted, or the program *)
(* stops.                                                                  *)
LEMMA TakeRowCases ==
  ASSUME TypeOK, TakeRow
  PROVE  LET slot == SlotOf(Position)
         IN \/ /\ ~defined /\ want' = want - 1 /\ asked' = FALSE
               /\ fetched' = fetched /\ crashed' = crashed
            \/ /\ defined /\ slot = -1 /\ crashed' = "slot -1"
               /\ UNCHANGED <<want, asked, fetched>>
            \/ /\ defined /\ slot = -1 /\ want' = want - 1 /\ asked' = FALSE
               /\ HandOut(Position, NoRow, FALSE) /\ crashed' = crashed
            \/ /\ defined /\ slot \in Slots /\ row_tab[slot] = NoRow
               /\ crashed' = "empty slot" /\ UNCHANGED <<want, asked, fetched>>
            \/ /\ defined /\ slot \in Slots /\ row_tab[slot] # NoRow
               /\ want' = want - 1 /\ asked' = FALSE
               /\ HandOut(Position, row_tab[slot], Intact(row_tab[slot]))
               /\ crashed' = crashed
<1> DEFINE slot == SlotOf(Position)
<1>1. Position \in Nat /\ orient \in {"NEXT", "CURRENT"}
  BY DEF TypeOK, CacheTypes, CallTypes, Position
<1>2. slot \in {-1} \union Slots
  BY <1>1, SlotOfFacts
<1>3. IF ~defined THEN RowDone /\ UNCHANGED <<fetched, crashed>>
      ELSE CASE slot = -1 ->
                  \/ crashed' = "slot -1" /\ UNCHANGED <<want, asked, fetched>>
                  \/ RowDone /\ HandOut(Position, NoRow, FALSE) /\ UNCHANGED crashed
             [] slot >= 0 /\ row_tab[slot] = NoRow ->
                  crashed' = "empty slot" /\ UNCHANGED <<want, asked, fetched>>
             [] OTHER ->
                  /\ HandOut(Position, row_tab[slot], Intact(row_tab[slot]))
                  /\ RowDone /\ UNCHANGED crashed
  BY DEF TakeRow
<1> HIDE DEF slot
<1>4. CASE ~defined
  BY <1>3, <1>4 DEF RowDone
<1>5. CASE defined /\ slot = -1
  <2>1. ~(slot >= 0)
    BY <1>5
  <2> QED
    BY <1>3, <1>5, <2>1 DEF RowDone, slot
<1>6. CASE defined /\ slot \in Slots
  <2>1. slot # -1 /\ slot >= 0
    BY <1>6, SizeType DEF Slots
  <2> QED
    BY <1>3, <1>6, <2>1 DEF RowDone, slot
<1> QED
  BY <1>2, <1>4, <1>5, <1>6 DEF StmtTypes

(* The same for what is handed out. *)
LEMMA HandedOut ==
  ASSUME TypeOK, NEW p \in Nat, NEW cell \in RowType, NEW b \in BOOLEAN, HandOut(p, cell, b)
  PROVE  /\ fetched' \in Seq(FetchedType) /\ Len(fetched') = Len(fetched) + 1
         /\ Len(fetched) \in Nat
         /\ \A i \in 1 .. Len(fetched) : fetched'[i] = fetched[i]
         /\ LET f == fetched'[Len(fetched) + 1]
            IN /\ f.next = (orient = "NEXT") /\ f.pos = p
               /\ f.exec = cell.exec /\ f.row = cell.row /\ f.intact = b
<1> DEFINE f == [next |-> orient = "NEXT", pos |-> p, exec |-> cell.exec,
                 row |-> cell.row, intact |-> b]
<1>1. f \in FetchedType
  BY DEF FetchedType, RowType
<1>2. fetched \in Seq(FetchedType) /\ fetched' = Append(fetched, f)
  BY DEF TypeOK, CallTypes, HandOut
<1>3. /\ f.next = (orient = "NEXT") /\ f.pos = p
      /\ f.exec = cell.exec /\ f.row = cell.row /\ f.intact = b
  OBVIOUS
<1> HIDE DEF f
<1>4. /\ fetched' \in Seq(FetchedType) /\ Len(fetched') = Len(fetched) + 1
      /\ \A i \in 1 .. Len(fetched) : fetched'[i] = fetched[i]
      /\ fetched'[Len(fetched) + 1] = f
  BY <1>1, <1>2, AppendProperties
<1>5. Len(fetched) \in Nat
  BY <1>2, LenProperties
<1> QED
  BY <1>3, <1>4, <1>5

LEMMA TakeRowStep ==
  ASSUME TableInv, TakeRow
  PROVE  TableInv'
<1> DEFINE slot == SlotOf(Position)
<1>1. /\ StmtTypes /\ ServerTypes /\ CacheTypes /\ CallTypes /\ CallShape /\ Counted /\ Filled
      /\ Newest /\ TypeOK /\ NeverBehindPosition
  BY DEF TableInv, TypeOK
<1>2. /\ want > 0 /\ crashed = "no" /\ ~MustAsk /\ want \in Nat
      /\ orient = "NEXT" => ~BehindLast(curr_fetch_num + 1)
      /\ curr_fetch_num' = Position
      /\ UNCHANGED <<prepared, executed, defined, exec, total, width, sent, open, row_tab,
                     curr_row_num, max_row_idx, cursor, dangling, orient, ended>>
  BY <1>1 DEF TakeRow, Fetching, stmt, server, cache, curs, CallTypes
<1>3. /\ executed /\ max_row_idx > 0 /\ orient \in {"NEXT", "CURRENT"}
      /\ curr_fetch_num \in Nat /\ curr_row_num \in Nat /\ Position \in Nat
      /\ orient = "NEXT" => Position \in 1 .. curr_row_num
      /\ orient = "CURRENT" => Position = curr_fetch_num
      /\ asked \/ Position <= curr_row_num
  BY <1>1, <1>2 DEF CallShape, CallTypes, CacheTypes, Position, BehindLast, MustAsk
<1>4. \/ /\ ~defined /\ want' = want - 1 /\ asked' = FALSE
         /\ fetched' = fetched /\ crashed' = crashed
      \/ /\ defined /\ slot = -1 /\ crashed' = "slot -1"
         /\ UNCHANGED <<want, asked, fetched>>
      \/ /\ defined /\ slot = -1 /\ want' = want - 1 /\ asked' = FALSE
         /\ HandOut(Position, NoRow, FALSE) /\ crashed' = crashed
      \/ /\ defined /\ slot \in Slots /\ row_tab[slot] = NoRow
         /\ crashed' = "empty slot" /\ UNCHANGED <<want, asked, fetched>>
      \/ /\ defined /\ slot \in Slots /\ row_tab[slot] # NoRow
         /\ want' = want - 1 /\ asked' = FALSE
         /\ HandOut(Position, row_tab[slot], Intact(row_tab[slot]))
         /\ crashed' = crashed
  BY <1>1, TakeRowCases
<1>5. /\ slot \in {-1} \union Slots
      /\ Position % FetchSize = 0 => slot = IF orient = "CURRENT" THEN 0 ELSE -1
      /\ Position % FetchSize # 0 => /\ slot = Home(Position) /\ slot < Position
                                     /\ slot \in Slots
  BY <1>3, SlotOfFacts
<1>6. Position % FetchSize = 0 \/ Position % FetchSize # 0
  OBVIOUS
<1> HIDE DEF slot
<1>7. NoRow \in RowType /\ \A i \in Slots : row_tab[i] \in RowType /\ Intact(row_tab[i]) \in BOOLEAN
  BY <1>1, BoundsAssumption DEF CacheTypes, NoRow, RowType, Intact
<1>8. StmtTypes'
  BY <1>1, <1>2, <1>4 DEF StmtTypes
<1>9. ServerTypes' /\ CacheTypes'
  BY <1>1, <1>2, <1>3 DEF ServerTypes, CacheTypes
<1>10. CallTypes'
  <2>1. want' \in Nat /\ asked' \in BOOLEAN
    <3>1. \/ want' = want - 1 /\ asked' = FALSE
          \/ want' = want /\ asked' = asked
      BY <1>4
    <3>2. want - 1 \in Nat /\ asked \in BOOLEAN
      BY <1>1, <1>2 DEF CallTypes
    <3> QED
      BY <1>2, <3>1, <3>2
  <2>2. fetched' \in Seq(FetchedType)
    <3>1. CASE fetched' = fetched
      BY <1>1, <3>1 DEF CallTypes
    <3>2. CASE HandOut(Position, NoRow, FALSE)
      BY <1>1, <1>3, <1>7, <3>2, HandedOut
    <3>3. CASE slot \in Slots /\ HandOut(Position, row_tab[slot], Intact(row_tab[slot]))
      BY <1>1, <1>3, <1>7, <3>3, HandedOut
    <3> QED
      BY <1>4, <3>1, <3>2, <3>3
  <2> QED
    BY <1>1, <1>2, <2>1, <2>2 DEF CallTypes
<1>11. CallShape'
  <2>1. asked' => asked
    BY <1>4
  <2> QED
    BY <1>1, <1>2, <1>3, <2>1 DEF CallShape
<1>12. Counted' /\ Newest' /\ Filled'
  BY <1>2, TableKept
<1>13. NoEmptySlot'
  <2> SUFFICES ASSUME slot \in Slots, row_tab[slot] = NoRow, ~dangling PROVE FALSE
    BY <1>2, <1>4 DEF NoEmptySlot
  <2>1. cursor = NULL
    BY <1>1 DEF Filled
  <2>2. Position <= curr_row_num
    BY <1>1, <1>2, <1>3, <2>1 DEF CallShape
  <2>3. slot = 0 \/ slot < curr_row_num
    <3>1. slot # -1 /\ slot \in Nat
      BY SizeType DEF Slots
    <3> QED
      BY <1>3, <1>5, <1>6, <2>2, <3>1
  <2> QED
    BY <1>1, <1>3, <2>3, CachedSlots DEF Filled
<1>14. NeverBehindPosition'
  <2> DEFINE Served(f) == f.next /\ f.exec = exec /\ f.pos % FetchSize # 0 =>
                            f.row >= f.pos /\ (f.row - f.pos) % FetchSize = 0
  <2>1. \A i \in 1 .. Len(fetched) : Served(fetched[i])
    BY <1>1 DEF NeverBehindPosition
  <2>2. CASE fetched' = fetched
    BY <1>2, <2>2, FetchedKept
  <2>3. ASSUME NEW cell \in RowType, NEW b \in BOOLEAN, HandOut(Position, cell, b),
               orient = "NEXT" /\ cell.exec = exec /\ Position % FetchSize # 0 =>
                 cell.row >= Position /\ (cell.row - Position) % FetchSize = 0
        PROVE  NeverBehindPosition'
    <3>1. /\ Len(fetched') = Len(fetched) + 1 /\ Len(fetched) \in Nat
          /\ \A i \in 1 .. Len(fetched) : fetched'[i] = fetched[i]
          /\ LET f == fetched'[Len(fetched) + 1]
             IN /\ f.next = (orient = "NEXT") /\ f.pos = Position
                /\ f.exec = cell.exec /\ f.row = cell.row /\ f.intact = b
      BY <1>1, <1>3, <2>3, HandedOut
    <3>2. Served(fetched'[Len(fetched) + 1])
      BY <2>3, <3>1
    <3> HIDE DEF Served
    <3>3. \A i \in 1 .. Len(fetched') : Served(fetched'[i])
      BY <2>1, <3>1, <3>2
    <3> QED
      BY <1>2, <3>3 DEF Served, NeverBehindPosition
  <2>4. CASE HandOut(Position, NoRow, FALSE)
    <3>1. NoRow.exec = 0 /\ exec # 0
      BY <1>1, <1>3 DEF NoRow, CallShape
    <3>2. ~(NoRow.exec = exec)
      BY <3>1
    <3> QED
      BY <1>7, <2>3, <2>4, <3>2
  <2>5. CASE slot \in Slots /\ HandOut(Position, row_tab[slot], Intact(row_tab[slot]))
    <3>1. ASSUME orient = "NEXT", row_tab[slot].exec = exec, Position % FetchSize # 0
          PROVE  row_tab[slot].row >= Position /\ (row_tab[slot].row - Position) % FetchSize = 0
      BY <1>1, <1>3, <1>5, <3>1, PositionServed
    <3> QED
      BY <1>7, <2>3, <2>5, <3>1
  <2> QED
    BY <1>4, <2>2, <2>4, <2>5
<1> QED
  BY <1>8, <1>9, <1>10, <1>11, <1>12, <1>13, <1>14 DEF TableInv, TypeOK

LEMMA NextTableInv == TableInv /\ [Next]_vars => TableInv'
<1> SUFFICES ASSUME TableInv, [Next]_vars PROVE TableInv'
  OBVIOUS
<1>1. CASE UNCHANGED vars
  <2>1. /\ UNCHANGED <<prepared, executed, defined, exec, total, width, sent, open, row_tab,
                       curr_row_num, max_row_idx, curr_fetch_num, cursor, dangling, want,
                       orient, asked, fetched, ended, crashed>>
    BY <1>1 DEF vars, stmt, server, cache, curs, call
  <2>2. StmtTypes' /\ ServerTypes' /\ CacheTypes' /\ CallTypes' /\ CallShape' /\ NoEmptySlot'
    BY <2>1, ZenonT(60) DEF TableInv, TypeOK, StmtTypes, ServerTypes, CacheTypes, CallTypes, CallShape,
       NoEmptySlot
  <2> QED
    BY <2>1, <2>2, TableKept, FetchedKept DEF TableInv, TypeOK
<1>2. CASE Next
  BY <1>2, PrepareStep, DefineStep, RefusedStep, ExecuteStep, BreaksStep, CallStep,
     FetchRowsStep, TakeRowStep DEF Next
<1> QED
  BY <1>1, <1>2

-----------------------------------------------------------------------------
LEMMA TableSafety == Spec => []TableInv
BY InitTableInv, NextTableInv, PTL DEF Spec

(* The table has the newest rows where KCIStmtFetch looks for them, and is *)
(* full when a cursor of this preparation brings more.                     *)
THEOREM TableServed == Spec => []TableServes
<1>1. TableInv => TableServes
  <2> SUFFICES ASSUME TableInv PROVE TableServes
    OBVIOUS
  <2>1. NewestRowsCached
    BY DEF TableInv, Newest, CellOf, Home, NewestRowsCached
  <2> QED
    BY <2>1 DEF TableInv, TableServes
<1> QED
  BY <1>1, TableSafety, PTL

(* KCIStmtFetch with NEXT gives the row at its position or, overrun, one a *)
(* whole number of tables newer.                                           *)
THEOREM PositionKept == Spec => []NeverBehindPosition
<1>1. TableInv => NeverBehindPosition
  BY DEF TableInv
<1> QED
  BY <1>1, TableSafety, PTL

-----------------------------------------------------------------------------
(* Results smaller than the table. *)

LEMMA NextsFacts ==
  ASSUME NEW s, NEW i \in Nat
  PROVE  /\ IsFiniteSet({j \in 1 .. i : s[j].next})
         /\ Nexts(s, i) \in Nat
<1>1. IsFiniteSet(1 .. i)
  BY FS_Interval
<1>2. {j \in 1 .. i : s[j].next} \in SUBSET (1 .. i)
  OBVIOUS
<1>3. IsFiniteSet({j \in 1 .. i : s[j].next})
  BY <1>1, <1>2, FS_Subset
<1> QED
  BY <1>3, FS_CardinalityType DEF Nexts

LEMMA NextsSame ==
  ASSUME NEW s, NEW t, NEW i \in Nat, \A j \in 1 .. i : t[j] = s[j]
  PROVE  Nexts(t, i) = Nexts(s, i)
<1>1. {j \in 1 .. i : t[j].next} = {j \in 1 .. i : s[j].next}
  OBVIOUS
<1> QED
  BY <1>1 DEF Nexts

(* One more row counts if it was asked for with NEXT. *)
LEMMA NextsOneMore ==
  ASSUME NEW t, NEW l \in Nat, t[l + 1].next \in BOOLEAN
  PROVE  Nexts(t, l + 1) = IF t[l + 1].next THEN Nexts(t, l) + 1 ELSE Nexts(t, l)
<1> DEFINE A == {j \in 1 .. l : t[j].next}
           B == {j \in 1 .. l + 1 : t[j].next}
<1>1. IsFiniteSet(A) /\ Cardinality(A) = Nexts(t, l) /\ Cardinality(B) = Nexts(t, l + 1)
  BY NextsFacts DEF Nexts
<1>2. l + 1 \notin A
  OBVIOUS
<1>3. CASE t[l + 1].next
  <2>1. B = A \union {l + 1}
    BY <1>3
  <2> HIDE DEF A, B
  <2>2. Cardinality(A \union {l + 1}) = Cardinality(A) + 1
    BY <1>1, <1>2, FS_AddElement
  <2> QED
    BY <1>1, <1>3, <2>1, <2>2
<1>4. CASE ~t[l + 1].next
  <2>1. B = A
    BY <1>4
  <2> HIDE DEF A, B
  <2> QED
    BY <1>1, <1>4, <2>1
<1> QED
  BY <1>3, <1>4

LEMMA InitSmallInv == Init => SmallInv
<1> SUFFICES ASSUME Init PROVE SmallInv
  OBVIOUS
<1>1. NoCursors /\ AllCached /\ PositionNear /\ NoStaleRow
  BY DEF Init, NoCursors, AllCached, PositionNear, NoStaleRow
<1>2. CellsInOrder
  BY DEF Init, CellsInOrder, EmptyTab
<1>3. PositionCounts /\ RowsInOrder
  BY DEF Init, PositionCounts, RowsInOrder
<1> QED
  BY <1>1, <1>2, <1>3 DEF SmallInv

(* A batch that starts the table and is smaller. *)
LEMMA SmallBatch ==
  ASSUME CellsInOrder, NEW k \in Nat, k < FetchSize, NEW e \in Execs, NEW w,
         RecvRows(CountAtStart, e, 1, k, w)
  PROVE  CellsInOrder'
<1> SUFFICES ASSUME NEW i \in Slots, row_tab'[i] # NoRow PROVE row_tab'[i].row = i + 1
  BY DEF CellsInOrder
<1>1. row_tab' = Received(0, e, 1, k, w) /\ 0 \in Nat /\ 1 \in Nat
  BY DEF RecvRows, CountAtStart
<1>2. \/ Received(0, e, 1, k, w)[i] = row_tab[i]
      \/ WrittenIn(i, Received(0, e, 1, k, w)[i], 0, k, 1, e, w)
  BY <1>1, ReceivedSlot
<1>3. CASE row_tab'[i] = row_tab[i]
  BY <1>3 DEF CellsInOrder
<1>4. CASE row_tab'[i] # row_tab[i]
  <2>1. PICK r \in 0 .. k - 1, b \in BOOLEAN : Slot(0 + r) = i /\ row_tab'[i] = Cell(e, 1 + r, w, b)
    BY <1>1, <1>2, <1>4 DEF WrittenIn, Written
  <2>2. 0 + r = r /\ r \in Slots /\ 1 + r \in Nat
    BY SizeType DEF Slots
  <2>3. r = i
    BY <2>1, <2>2, SmallRemainder DEF Slot
  <2>4. row_tab'[i].row = 1 + r
    BY <2>1, <2>2, CellFacts
  <2> QED
    BY <2>2, <2>3, <2>4 DEF Slots
<1> QED
  BY <1>3, <1>4

(* A step that forgets the result, or never had one. *)
LEMMA ForgetsResult ==
  ASSUME SmallInv, ~executed', fetched' = <<>>, want' = 0, ~asked',
         cursor' = cursor, ~dangling', open' = {}, CellsInOrder'
  PROVE  SmallInv'
<1>1. NoCursors'
  BY DEF SmallInv, NoCursors
<1>2. AllCached' /\ PositionNear' /\ PositionCounts'
  BY DEF AllCached, PositionNear, PositionCounts
<1>3. RowsInOrder' /\ NoStaleRow'
  BY DEF RowsInOrder, NoStaleRow
<1> QED
  BY <1>1, <1>2, <1>3 DEF SmallInv

LEMMA SmallQuiet ==
  ASSUME SmallResults, TableInv, SmallInv,
         \/ Prepare \/ ExecuteRefused
         \/ \E n \in Totals, w \in Widths :
              \E k \in 0 .. Lesser(n, LoginBatch) : ExecuteBreaks(n, w, k)
  PROVE  SmallInv'
<1>1. NoCursors /\ CellsInOrder /\ exec \in Nat /\ MaxExecs \in Nat
  BY BoundsAssumption DEF SmallInv, TableInv, TypeOK, ServerTypes
<1>2. CASE Prepare
  <2>1. CellsInOrder'
    BY <1>2 DEF Prepare, resetStmt, EmptyTab, CellsInOrder
  <2> QED
    <3>1. /\ ~executed' /\ fetched' = <<>> /\ want' = 0 /\ ~asked'
          /\ cursor' = cursor /\ ~dangling' /\ open' = {}
      BY <1>1, <1>2 DEF Prepare, NoCursors, Idle, server, call
    <3> QED
      BY <2>1, <3>1, ForgetsResult
<1>3. CASE ExecuteRefused
  <2>1. CellsInOrder'
    BY <1>1, <1>3 DEF ExecuteRefused, cache, CellsInOrder
  <2> QED
    <3>1. /\ ~executed' /\ fetched' = <<>> /\ want' = 0 /\ ~asked'
          /\ cursor' = cursor /\ ~dangling' /\ open' = {}
      BY <1>1, <1>3 DEF ExecuteRefused, NoCursors, Idle, server, call, curs
    <3> QED
      BY <2>1, <3>1, ForgetsResult
<1>4. ASSUME NEW n \in Totals, NEW w \in Widths, NEW k \in 0 .. Lesser(n, LoginBatch),
             ExecuteBreaks(n, w, k)
      PROVE  SmallInv'
  <2>1. n \in Nat /\ n < FetchSize
    BY BatchAssumption DEF SmallResults
  <2>2. k \in Nat /\ k < FetchSize
    BY <2>1, SizeType DEF Lesser
  <2>3. exec + 1 \in Execs
    BY <1>1, <1>4 DEF ExecuteBreaks, Execs
  <2>4. RecvRows(CountAtStart, exec + 1, 1, k, w)
    BY <1>4 DEF ExecuteBreaks
  <2>5. CellsInOrder'
    BY <1>1, <2>2, <2>3, <2>4, SmallBatch
  <2> QED
    <3>1. /\ ~executed' /\ fetched' = <<>> /\ want' = 0 /\ ~asked'
          /\ cursor' = cursor /\ ~dangling' /\ open' = {}
      BY <1>1, <1>4 DEF ExecuteBreaks, NoCursors, Idle, call
    <3> QED
      BY <2>5, <3>1, ForgetsResult
<1> QED
  BY <1>2, <1>3, <1>4

LEMMA SmallExecute ==
  ASSUME SmallResults, TableInv, SmallInv, NEW n \in Totals, NEW w \in Widths,
         NEW iters \in Iters, Execute(n, w, iters)
  PROVE  SmallInv'
<1> DEFINE e == exec + 1
<1>1. /\ NoCursors /\ CellsInOrder /\ exec \in Nat /\ MaxExecs \in Nat /\ max_row_idx \in Nat
      /\ n \in Nat /\ n < FetchSize /\ Lesser(n, LoginBatch) = n
      /\ total \in [Execs -> Nat] /\ sent \in [Execs -> Nat]
  BY BoundsAssumption, BatchAssumption, SizeType
     DEF SmallInv, TableInv, TypeOK, ServerTypes, CacheTypes, SmallResults, Lesser
<1>2. /\ exec < MaxExecs /\ exec' = e
      /\ total' = [total EXCEPT ![e] = n] /\ sent' = [sent EXCEPT ![e] = n]
      /\ RecvRows(CountAtStart, e, 1, n, w)
      /\ UNCHANGED <<cursor, dangling, open>>
      /\ curr_fetch_num' = 0 /\ executed' = TRUE /\ fetched' = <<>>
      /\ want' = (IF defined /\ max_row_idx' >= 1 THEN iters ELSE 0)
      /\ asked' = FALSE /\ defined' = defined
  BY <1>1 DEF Execute
<1>3. e \in Execs
  BY <1>1, <1>2 DEF Execs
<1>4. total'[e] = n /\ sent'[e] = n /\ curr_row_num' = n /\ max_row_idx' = max_row_idx + n
  BY <1>1, <1>2, <1>3 DEF RecvRows, CountAtStart
<1>5. CellsInOrder'
  BY <1>1, <1>2, <1>3, SmallBatch
<1>6. NoCursors'
  BY <1>1, <1>2 DEF NoCursors
<1>7. AllCached'
  BY <1>1, <1>2, <1>4 DEF AllCached
<1>8. PositionNear' /\ NoStaleRow' /\ RowsInOrder'
  BY <1>1, <1>2, <1>4 DEF PositionNear, NoStaleRow, RowsInOrder
<1>9. PositionCounts'
  <2>1. {j \in 1 .. 0 : fetched'[j].next} = {}
    OBVIOUS
  <2>2. Nexts(fetched', Len(fetched')) = 0
    BY <1>2, <2>1, FS_EmptySet DEF Nexts
  <2>3. Lesser(curr_fetch_num', curr_row_num') = 0
    BY <1>1, <1>2, <1>4 DEF Lesser
  <2> QED
    BY <1>2, <2>2, <2>3 DEF PositionCounts, Lesser, Nexts
<1> QED
  BY <1>5, <1>6, <1>7, <1>8, <1>9 DEF SmallInv

LEMMA SmallCall ==
  ASSUME SmallResults, TableInv, SmallInv,
         \/ Define \/ \E nrows \in NRows, o \in Orients : Fetch(nrows, o)
         \/ NoCursor \/ NextBehindLast
  PROVE  SmallInv'
<1>1. /\ NoCursors /\ AllCached /\ CellsInOrder /\ PositionNear /\ PositionCounts
      /\ RowsInOrder /\ NoStaleRow /\ curr_row_num \in Nat /\ curr_fetch_num \in Nat
  BY DEF SmallInv, TableInv, TypeOK, CacheTypes
<1>2. /\ UNCHANGED <<executed, exec, total, sent, open, row_tab, curr_row_num, max_row_idx,
                     cursor, dangling, fetched>>
      /\ asked' = asked \/ asked' = FALSE
      /\ want' > 0 => defined'
      /\ \/ curr_fetch_num' = curr_fetch_num
         \/ curr_fetch_num' = curr_fetch_num + 1 /\ curr_fetch_num = curr_row_num
  <2>1. CASE Define
    BY <2>1 DEF Define, server, cache, curs, call
  <2>2. CASE \E nrows \in NRows, o \in Orients : Fetch(nrows, o)
    BY <1>1, <2>2 DEF Fetch, stmt, server, cache, curs, call, SmallResults, AllCached
  <2>3. CASE NoCursor
    BY <2>3 DEF NoCursor, NoData, stmt, server, cache, curs
  <2>4. CASE NextBehindLast
    <3>1. curr_fetch_num = curr_row_num
      BY <1>1, <2>4 DEF NextBehindLast, MustAsk, BehindLast, NoCursors
    <3> QED
      BY <2>4, <3>1 DEF NextBehindLast, NoData, stmt, server, cache, curs
  <2> QED
    BY <2>1, <2>2, <2>3, <2>4
<1>3. NoCursors' /\ AllCached' /\ CellsInOrder' /\ RowsInOrder' /\ NoStaleRow'
  BY <1>1, <1>2 DEF NoCursors, AllCached, CellsInOrder, RowsInOrder, NoStaleRow
<1>4. PositionNear'
  BY <1>1, <1>2 DEF PositionNear
<1>5. Lesser(curr_fetch_num', curr_row_num') = Lesser(curr_fetch_num, curr_row_num)
  BY <1>1, <1>2 DEF Lesser
<1>6. PositionCounts'
  BY <1>1, <1>2, <1>5 DEF PositionCounts, Nexts, Lesser
<1> QED
  BY <1>3, <1>4, <1>6 DEF SmallInv

(* The row in hand is the position's, the first before any NEXT.           *)
LEMMA SmallTake ==
  ASSUME SmallResults, TableInv, SmallInv, TakeRow
  PROVE  /\ UNCHANGED <<executed, exec, total, width, sent, open, row_tab, curr_row_num,
                        max_row_idx, cursor, dangling, defined, ended, orient>>
         /\ executed /\ curr_row_num = total[exec] /\ curr_row_num \in Nat
         /\ curr_fetch_num' = Position /\ Position \in 0 .. curr_row_num
         /\ orient \in {"NEXT", "CURRENT"} /\ curr_fetch_num \in Nat
         /\ Position = IF orient = "NEXT" THEN curr_fetch_num + 1 ELSE curr_fetch_num
         /\ ~asked' /\ want > 0
         /\ \E i \in Slots :
              /\ row_tab[i] \in RowType /\ row_tab[i] # NoRow
              /\ row_tab[i].row = IF Position = 0 THEN 1 ELSE Position
              /\ total[exec] > 0 => row_tab[i].exec = exec
              /\ HandOut(Position, row_tab[i], Intact(row_tab[i]))
<1> DEFINE slot == SlotOf(Position)
<1>1. /\ TypeOK /\ CallShape /\ Counted /\ Filled /\ Newest
      /\ NoCursors /\ AllCached /\ CellsInOrder
  BY DEF TableInv, SmallInv
<1>2. /\ want > 0 /\ ~MustAsk /\ curr_fetch_num' = Position
      /\ orient = "NEXT" => ~BehindLast(curr_fetch_num + 1)
      /\ UNCHANGED <<executed, exec, total, width, sent, open, row_tab, curr_row_num,
                     max_row_idx, cursor, dangling, defined, ended, orient>>
  BY DEF TakeRow, Fetching, stmt, server, cache, curs
<1>3. /\ executed /\ max_row_idx > 0 /\ defined /\ exec > 0
      /\ curr_row_num = total[exec] /\ sent[exec] = total[exec] /\ curr_row_num < FetchSize
      /\ curr_row_num \in Nat /\ curr_fetch_num \in Nat /\ orient \in {"NEXT", "CURRENT"}
  BY <1>1, <1>2 DEF CallShape, AllCached, TypeOK, CacheTypes, CallTypes
<1>4. Position = IF orient = "NEXT" THEN curr_fetch_num + 1 ELSE curr_fetch_num
  BY DEF Position
<1>5. Position \in 0 .. curr_row_num /\ (orient = "NEXT" => Position > 0)
  BY <1>1, <1>2, <1>3, <1>4 DEF BehindLast, MustAsk, NoCursors
<1>6. Position \in Nat /\ Position % FetchSize = Position
  <2>1. Position \in Slots
    BY <1>3, <1>5, SizeType DEF Slots
  <2> QED
    BY <1>5, <2>1, SmallRemainder
<1>7. slot = IF Position = 0 THEN 0 ELSE Position - 1
  <2>1. CASE Position = 0
    BY <1>3, <1>5, <1>6, <2>1, SlotOfFacts
  <2>2. CASE Position # 0
    <3>1. slot = Home(Position)
      BY <1>3, <1>6, <2>2, SlotOfFacts
    <3>2. Home(Position) = (Position % FetchSize) - 1
      BY <1>6, <2>2, SlotBefore DEF Home
    <3> QED
      BY <1>6, <2>2, <3>1, <3>2
  <2> QED
    BY <2>1, <2>2
<1> HIDE DEF slot
<1>8. /\ slot \in Slots /\ slot \in Nat /\ slot # -1
      /\ slot + 1 = (IF Position = 0 THEN 1 ELSE Position)
      /\ curr_row_num > 0 => slot < curr_row_num
      /\ Position > 0 => slot < curr_row_num
  BY <1>3, <1>5, <1>7, SizeType DEF Slots
<1>9. row_tab[slot] # NoRow
  <2>1. CASE Position = 0
    BY <1>1, <1>3, <1>7, <2>1 DEF Filled
  <2>2. CASE Position # 0
    <3>1. slot < curr_row_num
      BY <1>5, <1>8, <2>2
    <3> QED
      BY <1>1, <1>3, <1>8, <3>1, CachedSlots
  <2> QED
    BY <2>1, <2>2
<1>10. row_tab[slot] \in RowType /\ row_tab[slot].row = slot + 1
  BY <1>1, <1>8, <1>9 DEF TypeOK, CacheTypes, CellsInOrder
<1>11. ASSUME total[exec] > 0 PROVE row_tab[slot].exec = exec
  <2> DEFINE n == slot + 1
  <2>1. n \in 1 .. curr_row_num /\ n > curr_row_num - FetchSize /\ n <= sent[exec]
    BY <1>3, <1>8, <1>11, SizeType
  <2>2. Home(n) = slot
    <3>1. n - 1 = slot
      BY <1>8
    <3> QED
      BY <1>8, <3>1, SmallRemainder DEF Home
  <2> HIDE DEF n
  <2>3. CellOf(n).exec = exec
    BY <1>1, <1>3, <2>1 DEF Newest
  <2> QED
    BY <2>2, <2>3 DEF CellOf
<1>12. /\ asked' = FALSE
       /\ HandOut(Position, row_tab[slot], Intact(row_tab[slot]))
  BY <1>1, <1>3, <1>8, <1>9, TakeRowCases DEF slot
<1> QED
  BY <1>2, <1>3, <1>4, <1>5, <1>8, <1>9, <1>10, <1>11, <1>12

LEMMA SmallTakeStep ==
  ASSUME SmallResults, TableInv, SmallInv, TakeRow
  PROVE  SmallInv'
<1>1. /\ UNCHANGED <<executed, exec, total, width, sent, open, row_tab, curr_row_num,
                     max_row_idx, cursor, dangling, defined, ended, orient>>
      /\ executed /\ curr_row_num = total[exec] /\ curr_row_num \in Nat
      /\ curr_fetch_num' = Position /\ Position \in 0 .. curr_row_num
      /\ orient \in {"NEXT", "CURRENT"} /\ curr_fetch_num \in Nat
      /\ Position = IF orient = "NEXT" THEN curr_fetch_num + 1 ELSE curr_fetch_num
      /\ ~asked' /\ want > 0
  BY SmallTake
<1>2. PICK i \in Slots :
         /\ row_tab[i] \in RowType /\ row_tab[i] # NoRow
         /\ row_tab[i].row = IF Position = 0 THEN 1 ELSE Position
         /\ total[exec] > 0 => row_tab[i].exec = exec
         /\ HandOut(Position, row_tab[i], Intact(row_tab[i]))
  BY SmallTake
<1>3. /\ TypeOK /\ NoCursors /\ AllCached /\ CellsInOrder /\ PositionCounts
      /\ RowsInOrder /\ NoStaleRow
  BY DEF TableInv, SmallInv
<1> DEFINE l == Len(fetched)
           f == fetched'[l + 1]
<1>4. /\ Len(fetched') = l + 1 /\ l \in Nat
      /\ \A j \in 1 .. l : fetched'[j] = fetched[j]
      /\ f.next = (orient = "NEXT") /\ f.pos = Position
      /\ f.exec = row_tab[i].exec /\ f.row = row_tab[i].row
  <2>1. Intact(row_tab[i]) \in BOOLEAN /\ Position \in Nat
    BY <1>1 DEF Intact
  <2>2. /\ Len(fetched') = Len(fetched) + 1 /\ Len(fetched) \in Nat
        /\ \A j \in 1 .. Len(fetched) : fetched'[j] = fetched[j]
        /\ LET g == fetched'[Len(fetched) + 1]
           IN /\ g.next = (orient = "NEXT") /\ g.pos = Position
              /\ g.exec = row_tab[i].exec /\ g.row = row_tab[i].row
    BY <1>2, <1>3, <2>1, HandedOut
  <2> QED
    BY <2>2
<1> HIDE DEF l
<1>5. NoCursors' /\ AllCached' /\ CellsInOrder' /\ PositionNear'
  BY <1>1, <1>3 DEF NoCursors, AllCached, CellsInOrder, PositionNear
<1>6. \A j \in 1 .. l : Nexts(fetched', j) = Nexts(fetched, j)
  <2> SUFFICES ASSUME NEW j \in 1 .. l PROVE Nexts(fetched', j) = Nexts(fetched, j)
    OBVIOUS
  <2>1. j \in Nat /\ \A x \in 1 .. j : fetched'[x] = fetched[x]
    BY <1>4
  <2> QED
    BY <2>1, NextsSame
<1>7. Nexts(fetched, l) = Lesser(curr_fetch_num, curr_row_num) /\ Nexts(fetched, l) \in Nat
  BY <1>1, <1>3, <1>4, NextsFacts DEF PositionCounts, l
<1>8. Nexts(fetched', l) = Nexts(fetched, l)
  BY <1>4, NextsSame
<1>9. Nexts(fetched', l + 1) = Position
  <2>1. f.next \in BOOLEAN
    BY <1>4
  <2>2. Nexts(fetched', l + 1) = IF f.next THEN Nexts(fetched', l) + 1 ELSE Nexts(fetched', l)
    BY <1>4, <2>1, NextsOneMore
  <2>3. Lesser(curr_fetch_num, curr_row_num) = curr_fetch_num
    BY <1>1 DEF Lesser
  <2> HIDE DEF f
  <2> QED
    BY <1>1, <1>4, <1>7, <1>8, <2>2, <2>3, ZenonT(60)
<1>10. PositionCounts'
  <2>1. Lesser(Position, curr_row_num) = Position
    BY <1>1 DEF Lesser
  <2>2. Nexts(fetched', Len(fetched'))= Lesser(curr_fetch_num', curr_row_num')
    BY <1>1, <1>4, <1>9, <2>1 DEF Lesser
  <2> QED
    BY <1>1, <2>2 DEF PositionCounts, Lesser, Nexts
<1>11. RowsInOrder'
  <2> DEFINE InTurn(s, j) == s[j].row = IF Nexts(s, j) = 0 THEN 1 ELSE Nexts(s, j)
  <2>1. \A j \in 1 .. l : InTurn(fetched, j)
    BY <1>3 DEF RowsInOrder, Nexts, l
  <2>2. \A j \in 1 .. l : InTurn(fetched', j)
    BY <1>4, <1>6, <2>1
  <2>3. InTurn(fetched', l + 1)
    BY <1>2, <1>4, <1>9
  <2> HIDE DEF InTurn
  <2>4. \A j \in 1 .. Len(fetched') : InTurn(fetched', j)
    BY <1>4, <2>2, <2>3
  <2> QED
    BY <2>4 DEF RowsInOrder, InTurn, Nexts
<1>12. NoStaleRow'
  <2> SUFFICES ASSUME total[exec] > 0, exec > 0 PROVE \A j \in 1 .. l + 1 : fetched'[j].exec = exec
    BY <1>1, <1>4 DEF NoStaleRow
  <2>1. \A j \in 1 .. l : fetched[j].exec = exec
    BY <1>3 DEF NoStaleRow, l
  <2>2. f.exec = exec
    BY <1>2, <1>4
  <2> QED
    BY <1>4, <2>1, <2>2
<1> QED
  BY <1>5, <1>10, <1>11, <1>12 DEF SmallInv

LEMMA NextSmallInv ==
  ASSUME SmallResults
  PROVE  TableInv /\ SmallInv /\ [Next]_vars => SmallInv'
<1> SUFFICES ASSUME TableInv, SmallInv, [Next]_vars PROVE SmallInv'
  OBVIOUS
<1>1. NoCursors
  BY DEF SmallInv
<1>2. CASE UNCHANGED vars
  <2>1. /\ UNCHANGED <<executed, exec, total, sent, open, row_tab, curr_row_num, max_row_idx,
                       cursor, dangling, fetched, asked, want, defined, curr_fetch_num>>
    BY <1>2 DEF vars, stmt, server, cache, curs, call
  <2> QED
    BY <2>1 DEF SmallInv, NoCursors, AllCached, CellsInOrder, PositionNear, PositionCounts,
       RowsInOrder, NoStaleRow, Nexts, Lesser
<1>3. ~CursorRefused /\ ~FreedCursor /\ ~FetchRows /\ ~FetchBreaks
  BY <1>1 DEF CursorRefused, FreedCursor, FetchRows, FetchBreaks, NoCursors
<1>4. CASE Next
  BY <1>3, <1>4, SmallQuiet, SmallExecute, SmallCall, SmallTakeStep DEF Next
<1> QED
  BY <1>2, <1>4

LEMMA SmallSafety ==
  ASSUME SmallResults
  PROVE  Spec => [](TableInv /\ SmallInv)
<1>1. Init => TableInv /\ SmallInv
  BY InitTableInv, InitSmallInv
<1>2. TableInv /\ SmallInv /\ [Next]_vars => (TableInv /\ SmallInv)'
  BY NextTableInv, NextSmallInv
<1> QED
  BY <1>1, <1>2, PTL DEF Spec

(* KCIStmtFetch hands the rows of a result smaller than the table out in   *)
(* order, whatever mix of NEXT and CURRENT asks for them.                  *)
THEOREM RowsOrdered ==
  ASSUME SmallResults
  PROVE  Spec => []RowsInOrder
<1>1. SmallInv => RowsInOrder
  BY DEF SmallInv
<1> QED
  BY <1>1, SmallSafety, PTL

-----------------------------------------------------------------------------
(* Values. *)

LEMMA IntactBatch ==
  ASSUME TableInv, CellsIntact, NEW k \in Nat, NEW w \in {"short", "long"},
         exec + 1 \in Execs, exec' = exec + 1, width' = [width EXCEPT ![exec + 1] = w],
         RecvRows(CountAtStart, exec + 1, 1, k, w)
  PROVE  CellsIntact'
<1> DEFINE e == exec + 1
<1>1. /\ row_tab' = Received(0, e, 1, k, w) /\ 0 \in Nat /\ 1 \in Nat
      /\ exec \in Nat /\ width \in [Execs -> {"short", "eight", "long"}]
      /\ e \in Execs /\ row_tab \in [Slots -> RowType] /\ MaxExecs \in Nat
      /\ \A i \in Slots : row_tab[i] # NoRow => row_tab[i].exec > 0
  BY BoundsAssumption DEF RecvRows, CountAtStart, TableInv, TypeOK, ServerTypes, CacheTypes, Filled
<1>2. width'[e] = w /\ \A x \in Execs : x # e => width'[x] = width[x]
  BY <1>1
<1> SUFFICES ASSUME NEW i \in Slots, row_tab'[i] # NoRow
             PROVE  /\ row_tab'[i].exec <= exec'
                    /\ row_tab'[i].inline = (width'[row_tab'[i].exec] # "long")
  BY DEF CellsIntact, Intact, ReadInline
<1>3. CASE row_tab'[i] = row_tab[i]
  <2>1. /\ row_tab[i].exec <= exec /\ row_tab[i].inline = (width[row_tab[i].exec] # "long")
        /\ row_tab[i].exec > 0 /\ row_tab[i].exec \in 0 .. MaxExecs
    BY <1>1, <1>3 DEF CellsIntact, Intact, ReadInline, RowType
  <2>2. row_tab[i].exec \in Execs /\ row_tab[i].exec # e /\ row_tab[i].exec <= e
    BY <1>1, <2>1 DEF Execs
  <2> HIDE DEF e
  <2>3. width'[row_tab[i].exec] = width[row_tab[i].exec]
    BY <1>2, <2>2
  <2> QED
    BY <1>3, <2>1, <2>2, <2>3 DEF e
<1>4. CASE row_tab'[i] # row_tab[i]
  <2>1. \/ Received(0, e, 1, k, w)[i] = row_tab[i]
        \/ WrittenIn(i, Received(0, e, 1, k, w)[i], 0, k, 1, e, w)
    BY <1>1, ReceivedSlot
  <2>2. PICK r \in 0 .. k - 1, b \in BOOLEAN : row_tab'[i] = Cell(e, 1 + r, w, b)
    BY <1>1, <1>4, <2>1 DEF WrittenIn, Written
  <2>3. 1 + r \in Nat
    OBVIOUS
  <2> HIDE DEF e
  <2>4. row_tab'[i].exec = e /\ row_tab'[i].inline = Inline(w, b)
    BY <1>1, <2>2, <2>3, CellFacts
  <2>5. Inline(w, b) = (w # "long")
    BY DEF Inline
  <2> QED
    BY <1>1, <1>2, <2>4, <2>5 DEF e
<1> QED
  BY <1>3, <1>4

LEMMA NextIntact ==
  ASSUME SmallResults, NoEights
  PROVE  TableInv /\ SmallInv /\ CellsIntact /\ ValuesIntact /\ [Next]_vars
           => CellsIntact' /\ ValuesIntact'
<1> SUFFICES ASSUME TableInv, SmallInv, CellsIntact, ValuesIntact, [Next]_vars
             PROVE  CellsIntact' /\ ValuesIntact'
  OBVIOUS
<1>1. NoCursors /\ exec \in Nat /\ MaxExecs \in Nat
  BY BoundsAssumption DEF SmallInv, TableInv, TypeOK, ServerTypes
<1>2. \A w \in Widths : w \in {"short", "long"}
  BY ArgsAssumption DEF NoEights
<1>3. ASSUME UNCHANGED <<row_tab, exec, width, fetched>> PROVE CellsIntact' /\ ValuesIntact'
  BY <1>3 DEF CellsIntact, ValuesIntact, Intact, ReadInline
<1>4. CASE UNCHANGED vars
  BY <1>3, <1>4 DEF vars, server, cache
<1>5. CASE Prepare
  BY <1>5 DEF Prepare, resetStmt, EmptyTab, CellsIntact, ValuesIntact
<1>6. CASE ExecuteRefused
  BY <1>6 DEF ExecuteRefused, server, cache, CellsIntact, ValuesIntact, Intact, ReadInline
<1>7. ASSUME NEW n \in Totals, NEW w \in Widths, NEW iters \in Iters, Execute(n, w, iters)
      PROVE  CellsIntact' /\ ValuesIntact'
  <2>1. Lesser(n, LoginBatch) \in Nat
    BY BatchAssumption, LesserFacts
  <2>2. /\ exec + 1 \in Execs /\ exec' = exec + 1 /\ width' = [width EXCEPT ![exec + 1] = w]
        /\ RecvRows(CountAtStart, exec + 1, 1, Lesser(n, LoginBatch), w) /\ fetched' = <<>>
    BY <1>1, <1>7 DEF Execute, Execs
  <2>3. w \in {"short", "long"}
    BY <1>2
  <2>4. CellsIntact'
    BY <2>1, <2>2, <2>3, IntactBatch
  <2>5. ValuesIntact'
    BY <2>2 DEF ValuesIntact
  <2> QED
    BY <2>4, <2>5
<1>8. ASSUME NEW n \in Totals, NEW w \in Widths, NEW k \in 0 .. Lesser(n, LoginBatch),
             ExecuteBreaks(n, w, k)
      PROVE  CellsIntact' /\ ValuesIntact'
  <2>1. k \in Nat
    OBVIOUS
  <2>2. /\ exec + 1 \in Execs /\ exec' = exec + 1 /\ width' = [width EXCEPT ![exec + 1] = w]
        /\ RecvRows(CountAtStart, exec + 1, 1, k, w) /\ fetched' = <<>>
    BY <1>1, <1>8 DEF ExecuteBreaks, Execs
  <2>3. w \in {"short", "long"}
    BY <1>2
  <2>4. CellsIntact'
    BY <2>1, <2>2, <2>3, IntactBatch
  <2>5. ValuesIntact'
    BY <2>2 DEF ValuesIntact
  <2> QED
    BY <2>4, <2>5
<1>9. CASE \/ Define \/ \E nrows \in NRows, o \in Orients : Fetch(nrows, o)
           \/ NoCursor \/ NextBehindLast
  BY <1>3, <1>9 DEF Define, Fetch, NoCursor, NextBehindLast, server, cache
<1>10. CASE TakeRow
  <2>1. UNCHANGED <<row_tab, exec, width>> /\ Position \in Nat
    BY <1>10, SmallTake
  <2>2. CellsIntact'
    BY <2>1 DEF CellsIntact, Intact, ReadInline
  <2>3. PICK i \in Slots : /\ row_tab[i] \in RowType /\ row_tab[i] # NoRow
                           /\ HandOut(Position, row_tab[i], Intact(row_tab[i]))
    BY <1>10, SmallTake
  <2>4. Intact(row_tab[i]) \in BOOLEAN /\ Intact(row_tab[i]) /\ TypeOK
    BY <2>3 DEF CellsIntact, Intact, TableInv
  <2>5. /\ Len(fetched') = Len(fetched) + 1 /\ Len(fetched) \in Nat
        /\ \A j \in 1 .. Len(fetched) : fetched'[j] = fetched[j]
        /\ LET f == fetched'[Len(fetched) + 1]
           IN f.intact = Intact(row_tab[i])
    BY <2>1, <2>3, <2>4, HandedOut
  <2>6. \A j \in 1 .. Len(fetched) + 1 : fetched'[j].intact
    <3> SUFFICES ASSUME NEW j \in 1 .. Len(fetched) + 1 PROVE fetched'[j].intact
      OBVIOUS
    <3>1. CASE j = Len(fetched) + 1
      BY <2>4, <2>5, <3>1
    <3>2. CASE j # Len(fetched) + 1
      <4>1. j \in 1 .. Len(fetched)
        BY <2>5, <3>2
      <4>2. fetched'[j] = fetched[j] /\ fetched[j].intact
        BY <2>5, <4>1 DEF ValuesIntact
      <4> QED
        BY <4>2
    <3> QED
      BY <3>1, <3>2
  <2> QED
    BY <2>2, <2>5, <2>6 DEF ValuesIntact
<1>11. ~CursorRefused /\ ~FreedCursor /\ ~FetchRows /\ ~FetchBreaks
  BY <1>1 DEF CursorRefused, FreedCursor, FetchRows, FetchBreaks, NoCursors
<1> QED
  BY <1>4, <1>5, <1>6, <1>7, <1>8, <1>9, <1>10, <1>11 DEF Next

(* What KCIStmtFetch hands out of a result smaller than the table is of    *)
(* the last execution, and as the server sent it.                          *)
THEOREM RowsAreSound ==
  ASSUME SmallResults, NoEights
  PROVE  Spec => []RowsSound
<1>1. Init => TableInv /\ SmallInv /\ CellsIntact /\ ValuesIntact
  <2>1. Init => CellsIntact /\ ValuesIntact
    BY DEF Init, CellsIntact, ValuesIntact, EmptyTab
  <2> QED
    BY <2>1, InitTableInv, InitSmallInv
<1>2. TableInv /\ SmallInv /\ CellsIntact /\ ValuesIntact /\ [Next]_vars
        => (TableInv /\ SmallInv /\ CellsIntact /\ ValuesIntact)'
  BY NextTableInv, NextSmallInv, NextIntact
<1>3. TableInv /\ SmallInv /\ ValuesIntact => RowsSound
  BY DEF TableInv, SmallInv, RowsSound
<1> QED
  BY <1>1, <1>2, <1>3, PTL DEF Spec

-----------------------------------------------------------------------------
(* A result smaller than the table is a ResultSet. *)

Out == [i \in DOMAIN fetched |-> fetched[i].row]

LEMMA OutAppends ==
  ASSUME TypeOK, NEW p \in Nat, NEW cell \in RowType, NEW b \in BOOLEAN, HandOut(p, cell, b)
  PROVE  Out' = Append(Out, cell.row)
<1>1. /\ fetched \in Seq(FetchedType)
      /\ fetched' \in Seq(FetchedType) /\ Len(fetched') = Len(fetched) + 1
      /\ Len(fetched) \in Nat
      /\ \A i \in 1 .. Len(fetched) : fetched'[i] = fetched[i]
      /\ LET f == fetched'[Len(fetched) + 1] IN f.row = cell.row
  BY HandedOut DEF TypeOK, CallTypes
<1> DEFINE l == Len(fetched)
           s == Append(Out, cell.row)
<1>2. DOMAIN fetched = 1 .. l /\ DOMAIN fetched' = 1 .. l + 1
  BY <1>1, LenProperties
<1>3. cell.row \in Nat
  BY DEF RowType
<1>4. /\ Out \in Seq(Nat) /\ Len(Out) = l /\ \A i \in 1 .. l : Out[i] = fetched[i].row
  <2>1. Out = [i \in 1 .. l |-> fetched[i].row]
    BY <1>2 DEF Out
  <2>2. \A i \in 1 .. l : fetched[i].row \in Nat
    <3>1. \A i \in 1 .. l : fetched[i] \in FetchedType
      BY <1>1, ElementOfSeq
    <3> HIDE DEF l
    <3> QED
      BY <3>1 DEF FetchedType
  <2>3. Out \in [1 .. l -> Nat]
    BY <2>1, <2>2
  <2>4. Out \in Seq(Nat)
    BY <1>1, <2>3, SeqDef, SMTT(40)
  <2> QED
    BY <1>1, <2>1, <2>3, <2>4, LenProperties
<1>5. /\ Out' \in Seq(Nat) /\ Len(Out') = l + 1
      /\ \A i \in 1 .. l + 1 : Out'[i] = fetched'[i].row
  <2>1. Out' = [i \in 1 .. l + 1 |-> fetched'[i].row]
    BY <1>2 DEF Out
  <2>2. \A i \in 1 .. l + 1 : fetched'[i].row \in Nat
    <3>1. \A i \in 1 .. Len(fetched') : fetched'[i] \in FetchedType
      BY <1>1, ElementOfSeq
    <3>2. \A i \in 1 .. l + 1 : fetched'[i] \in FetchedType
      BY <1>1, <3>1
    <3> HIDE DEF l
    <3> QED
      BY <3>2 DEF FetchedType
  <2>3. Out' \in [1 .. l + 1 -> Nat] /\ l + 1 \in Nat
    BY <1>1, <2>1, <2>2
  <2>4. Out' \in Seq(Nat)
    BY <2>3, SeqDef
  <2> QED
    BY <1>1, <2>1, <2>3, <2>4, LenProperties
<1>6. /\ s \in Seq(Nat) /\ Len(s) = Len(Out) + 1
      /\ \A i \in 1 .. Len(Out) : s[i] = Out[i]
      /\ s[Len(Out) + 1] = cell.row
  BY <1>3, <1>4, AppendProperties
<1> HIDE DEF s, l, Out
<1>7. Len(Out') = Len(s) /\ \A i \in 1 .. Len(Out') : Out'[i] = s[i]
  <2> SUFFICES ASSUME NEW i \in 1 .. l + 1 PROVE Out'[i] = s[i]
    BY <1>4, <1>5, <1>6
  <2>1. CASE i = l + 1
    BY <1>1, <1>4, <1>5, <1>6, <2>1 DEF l
  <2>2. CASE i # l + 1
    <3>1. i \in 1 .. l
      BY <1>1, <2>2 DEF l
    <3> QED
      BY <1>1, <1>4, <1>5, <1>6, <3>1 DEF l
  <2> QED
    BY <2>1, <2>2
<1>8. Out' = s
  BY <1>5, <1>6, <1>7, SeqEqual
<1> QED
  BY <1>8 DEF s

RowsStep == Rows!Next \/ (executed /\ total[exec] = 0) \/ UNCHANGED Rows!resultSet

LEMMA OutEmpty ==
  ASSUME fetched' = <<>>
  PROVE  [i \in DOMAIN fetched |-> fetched[i].row]' = <<>>
OBVIOUS

LEMMA RowsClose ==
  ASSUME ~executed', fetched' = <<>>, ended' = FALSE
  PROVE  RowsStep
<1>1. Rows!Close
  BY OutEmpty DEF Rows!Close
<1> QED
  BY <1>1 DEF RowsStep, Rows!Next

LEMMA RowsOpen ==
  ASSUME SmallResults, TableInv, NEW n \in Totals, NEW w \in Widths, NEW iters \in Iters,
         Execute(n, w, iters)
  PROVE  RowsStep
<1>1. /\ executed' = TRUE /\ fetched' = <<>> /\ ended' = FALSE /\ curr_fetch_num' = 0
      /\ exec + 1 \in Execs /\ exec' = exec + 1 /\ total' = [total EXCEPT ![exec + 1] = n]
      /\ total \in [Execs -> Nat] /\ n \in Nat
  BY BatchAssumption, BoundsAssumption DEF Execute, TableInv, TypeOK, ServerTypes, Execs
<1>2. total'[exec'] = n
  BY <1>1
<1>3. Lesser(curr_fetch_num', total'[exec']) = 0
  BY <1>1, <1>2 DEF Lesser
<1>4. Rows!Open
  BY <1>1, <1>2, <1>3, OutEmpty DEF Rows!Open, Lesser
<1> QED
  BY <1>4 DEF RowsStep, Rows!Next

(* The position and what was handed out stay. *)
LEMMA RowsStay ==
  ASSUME SmallInv, TypeOK,
         UNCHANGED <<executed, exec, total, fetched>>,
         \/ curr_fetch_num' = curr_fetch_num
         \/ /\ executed /\ curr_fetch_num >= total[exec]
            /\ curr_fetch_num' = curr_fetch_num + 1,
         \/ ended' = ended
         \/ executed /\ curr_fetch_num >= total[exec] /\ ended' = TRUE
  PROVE  RowsStep
<1>1. executed => total[exec] \in Nat /\ curr_fetch_num \in Nat
  BY DEF TypeOK, ServerTypes, CacheTypes, SmallInv, AllCached
<1>2. (IF executed THEN Lesser(curr_fetch_num, total[exec]) ELSE 0)'
        = (IF executed THEN Lesser(curr_fetch_num, total[exec]) ELSE 0)
  BY <1>1 DEF Lesser
<1>3. CASE ended' = ended
  <2>1. UNCHANGED Rows!resultSet
    BY <1>2, <1>3 DEF Rows!resultSet
  <2> QED
    BY <2>1 DEF RowsStep
<1>4. CASE executed /\ curr_fetch_num >= total[exec] /\ ended' = TRUE
  <2>1. Lesser(curr_fetch_num, total[exec]) = total[exec] /\ total[exec] # -1
    BY <1>1, <1>4 DEF Lesser
  <2>2. Rows!ReportEnd
    BY <1>2, <1>4, <2>1 DEF Rows!ReportEnd
  <2> QED
    BY <2>2 DEF RowsStep, Rows!Next
<1> QED
  BY <1>3, <1>4

LEMMA RowsHandOut ==
  ASSUME SmallResults, TableInv, SmallInv, TakeRow
  PROVE  RowsStep
<1>1. /\ UNCHANGED <<executed, exec, total, width, sent, open, row_tab, curr_row_num,
                     max_row_idx, cursor, dangling, defined, ended, orient>>
      /\ executed /\ curr_row_num = total[exec] /\ curr_row_num \in Nat
      /\ curr_fetch_num' = Position /\ Position \in 0 .. curr_row_num
      /\ orient \in {"NEXT", "CURRENT"} /\ curr_fetch_num \in Nat
      /\ Position = IF orient = "NEXT" THEN curr_fetch_num + 1 ELSE curr_fetch_num
  BY SmallTake
<1>2. PICK i \in Slots :
         /\ row_tab[i] \in RowType
         /\ row_tab[i].row = IF Position = 0 THEN 1 ELSE Position
         /\ HandOut(Position, row_tab[i], Intact(row_tab[i]))
  BY SmallTake
<1>3. Out' = Append(Out, row_tab[i].row)
  <2>1. Intact(row_tab[i]) \in BOOLEAN /\ Position \in Nat /\ TypeOK
    BY <1>1 DEF Intact, TableInv
  <2> QED
    BY <1>2, <2>1, OutAppends
<1>4. CASE total[exec] = 0
  BY <1>1, <1>4 DEF RowsStep
<1>5. CASE total[exec] # 0 /\ orient = "NEXT"
  <2>1. /\ Lesser(curr_fetch_num, total[exec]) = curr_fetch_num
        /\ Lesser(curr_fetch_num', total[exec]) = curr_fetch_num + 1
        /\ curr_fetch_num < total[exec] /\ total[exec] # -1
    BY <1>1, <1>5 DEF Lesser
  <2>2. Out' = Append(Out, curr_fetch_num + 1)
    BY <1>1, <1>2, <1>3, <1>5
  <2>3. Rows!HandOutNext
    BY <1>1, <2>1, <2>2 DEF Rows!HandOutNext, Out, Lesser
  <2> QED
    BY <2>3 DEF RowsStep, Rows!Next
<1>6. CASE total[exec] # 0 /\ orient # "NEXT"
  <2>1. /\ Lesser(curr_fetch_num, total[exec]) = curr_fetch_num
        /\ curr_fetch_num' = curr_fetch_num
        /\ total[exec] > 0 /\ total[exec] # -1
    BY <1>1, <1>6 DEF Lesser
  <2>2. Out' = Append(Out, IF curr_fetch_num = 0 THEN 1 ELSE curr_fetch_num)
    BY <1>1, <1>2, <1>3, <1>6
  <2>3. Rows!HandOutCurrent
    BY <1>1, <2>1, <2>2 DEF Rows!HandOutCurrent, Out, Lesser
  <2> QED
    BY <2>3 DEF RowsStep, Rows!Next
<1> QED
  BY <1>4, <1>5, <1>6

LEMMA RowsNext ==
  ASSUME SmallResults, TableInv, SmallInv, Next
  PROVE  RowsStep
<1>1. NoCursors /\ AllCached /\ TypeOK /\ CallShape
  BY DEF SmallInv, TableInv
<1>2. CASE \/ Prepare \/ ExecuteRefused
           \/ \E n \in Totals, w \in Widths :
                \E k \in 0 .. Lesser(n, LoginBatch) : ExecuteBreaks(n, w, k)
  <2>1. ~executed' /\ fetched' = <<>> /\ ended' = FALSE
    BY <1>2 DEF Prepare, ExecuteRefused, ExecuteBreaks
  <2> QED
    BY <2>1, RowsClose
<1>3. CASE Define
  BY <1>1, <1>3, RowsStay DEF Define, server, SmallInv
<1>4. ASSUME NEW nrows \in NRows, NEW o \in Orients, Fetch(nrows, o) PROVE RowsStep
  <2>1. /\ UNCHANGED <<executed, exec, total, fetched, curr_fetch_num>> /\ executed
        /\ ended' = ended \/ (ended' = TRUE /\ max_row_idx < 1)
    BY <1>4 DEF Fetch, stmt, server
  <2>2. max_row_idx < 1 => curr_fetch_num >= total[exec]
    BY <1>1, <2>1 DEF AllCached, TypeOK, CacheTypes
  <2> QED
    BY <1>1, <2>1, <2>2, RowsStay
<1>5. CASE NoCursor
  <2>1. /\ UNCHANGED <<executed, exec, total, fetched, curr_fetch_num>> /\ ended' = TRUE
        /\ executed /\ curr_fetch_num > curr_row_num
    BY <1>1, <1>5 DEF NoCursor, NoData, stmt, server, Fetching, MustAsk, CallShape
  <2>2. curr_fetch_num >= total[exec]
    BY <1>1, <2>1 DEF AllCached, TypeOK, CacheTypes
  <2> QED
    BY <1>1, <2>1, <2>2, RowsStay
<1>6. CASE NextBehindLast
  <2>1. /\ UNCHANGED <<executed, exec, total, fetched>> /\ ended' = TRUE
        /\ curr_fetch_num' = curr_fetch_num + 1
        /\ executed /\ curr_fetch_num + 1 > curr_row_num
    BY <1>1, <1>6 DEF NextBehindLast, NoData, stmt, server, Fetching, BehindLast, CallShape
  <2>2. curr_fetch_num >= total[exec]
    BY <1>1, <2>1 DEF AllCached, TypeOK, CacheTypes
  <2> QED
    BY <1>1, <2>1, <2>2, RowsStay
<1>7. ~CursorRefused /\ ~FreedCursor /\ ~FetchRows /\ ~FetchBreaks
  BY <1>1 DEF CursorRefused, FreedCursor, FetchRows, FetchBreaks, NoCursors
<1> QED
  BY <1>2, <1>3, <1>4, <1>5, <1>6, <1>7, RowsOpen, RowsHandOut DEF Next

(* Preparing, executing and fetching a result smaller than the table is    *)
(* opening a ResultSet and moving in it.                                   *)
THEOREM FetchIsResultSet ==
  ASSUME SmallResults
  PROVE  Spec => ImplementsResultSet
<1>1. Init => Rows!Init
  BY DEF Init, Rows!Init
<1>2. (TableInv /\ SmallInv) /\ [Next]_vars =>
        [Rows!Next \/ (executed /\ total[exec] = 0)]_(Rows!resultSet)
  <2> SUFFICES ASSUME TableInv, SmallInv, [Next]_vars
               PROVE  [Rows!Next \/ (executed /\ total[exec] = 0)]_(Rows!resultSet)
    OBVIOUS
  <2>1. CASE Next
    BY <2>1, RowsNext DEF RowsStep
  <2>2. CASE UNCHANGED vars
    <3>1. UNCHANGED <<executed, exec, total, fetched, curr_fetch_num, ended>> /\ TypeOK
      BY <2>2 DEF vars, stmt, server, TableInv
    <3> QED
      BY <3>1, RowsStay DEF RowsStep
  <2> QED
    BY <2>1, <2>2
<1> QED
  BY <1>1, <1>2, SmallSafety, PTL DEF Spec, ImplementsResultSet
=============================================================================
